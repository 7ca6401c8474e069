------------------------------- MODULE MCReporting -------------------------------
(* Two visitors on different devices, two paths, and the events a path may bring. *)
EXTENDS Dashboard, TLC

CONSTANTS v1, v2

MCVisitors == {v1, v2}
MCDevice == v1 :> "desktop" @@ v2 :> "phone"

Hit(type, path, value) == [type |-> type, path |-> path, value |-> value]
MCHits == {Hit("pageview", "/", NULL), Hit("pageview", "/about", NULL),
           Hit("engagement", "/about", 1), Hit("engagement", "/about", NULL),
           Hit("scroll", "/about", 2)}
=============================================================================
