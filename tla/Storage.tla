--------------------------------- MODULE Storage ---------------------------------
(* The data directory and the processes that share it: `tadoru start` (opened,     *)
(* migrated, listening, stopped or killed), `tadoru backup`, `tadoru restore` and  *)
(* `tadoru status`.  Each command takes as many steps as it makes system calls     *)
(* that matter, and any other process may run between two of them.  SQLite is      *)
(* external: a commit goes to the journal (tadoru.db-wal), a checkpoint copies the *)
(* journal into the file, the last connection to close checkpoints and removes it, *)
(* and a killed process leaves it behind for the next one to read.                 *)
EXTENDS Integers, FiniteSets

CONSTANTS Rows,        \* events a server may commit
          Migrations,  \* versions of the schema this release knows
          Installed,   \* versions an installation or a backup of an earlier release has
          Servers,     \* processes running `tadoru start`
          PortCount,   \* candidatePorts tries 1..PortCount, in order
          Foreign,     \* ports that other programs may hold
          NULL

CONSTANTS MaxNow, MaxStarts, MaxCommands, MaxFaults  \* bounds

ASSUME StorageAssumption ==
  /\ Installed \subseteq Migrations /\ Installed # {} /\ IsFiniteSet(Migrations)
  /\ PortCount \in Nat \ {0} /\ Foreign \subseteq 1..PortCount /\ NULL \notin Servers
  /\ MaxNow \in Nat /\ MaxStarts \in Nat /\ MaxCommands \in Nat /\ MaxFaults \in Nat

VARIABLES
  disk,       \* the database files, by name
  wal,        \* tadoru.db-wal, or NULL
  nextId,     \* every file written anew is another database
  busy,       \* the ports other programs hold
  srv,        \* the servers: phase, versions read as applied, port
  backup,     \* the backup command: its step, file and snapshot
  restore,    \* the restore command: its step, source, next port to probe
  status,     \* the status command: its step, next port to probe, whether one answered
  now,        \* the second that names files
  used,       \* starts, commands and faults so far (bounds)
  disturbed,  \* a server had the database open while a restore replaced it (history)
  watched,    \* servers that have been up since the restore began (history)
  attended,   \* servers up since the status command began, whether any was up (history)
  committed,  \* rows any server committed (history)
  stored,     \* rows that were ever in the live file itself (history)
  clobbered   \* rows of a file that another was moved onto (history)

commands == <<backup, restore, status>>
history == <<committed, clobbered>>
vars == <<disk, wal, nextId, busy, srv, commands, now, used, disturbed, watched, attended,
          committed, stored, clobbered>>

Name == [kind : {"live", "backup", "aside"}, at : 0..MaxNow]
Live == [kind |-> "live", at |-> 0]
BackupName(t) == [kind |-> "backup", at |-> t]
AsideName(t) == [kind |-> "aside", at |-> t]

Content == [id : Nat, rows : SUBSET Rows, applied : SUBSET Migrations, whole : BOOLEAN]
Journal == [of : Nat, rows : SUBSET Rows, applied : SUBSET Migrations]
ASSUME NoJournalAssumption == NULL \notin Journal
Replacing == {"unlink", "copy", "copying"}
RestoreSteps == {"idle", "probe", "verify", "move", "done"} \cup Replacing
StatusSteps == {"idle", "probe", "inspect", "exit 0", "exit 1"}

Exists(name) == name \in DOMAIN disk
\* What a connection reads: the journal where there is one, else the file.
Current == IF wal # NULL THEN wal ELSE disk[Live]
Open == {p \in Servers : srv[p].phase # "down"}

\* A server listens on one of the ports a probe will try, and no two on the same.
TypeOK ==
  /\ DOMAIN disk \subseteq Name /\ disk \in [DOMAIN disk -> Content]
  /\ wal \in Journal \cup {NULL} /\ nextId \in Nat /\ busy \in {{}, Foreign} /\ now \in 0..MaxNow
  /\ srv \in [Servers -> [phase : {"down", "opened", "migrated", "up"},
                          known : SUBSET Migrations, port : 0..PortCount]]
  /\ \A p, q \in Servers : p # q /\ srv[p].port # 0 => srv[p].port # srv[q].port
  /\ backup.step \in {"idle", "writing"} /\ backup.name \in Name
  /\ restore.step \in RestoreSteps /\ restore.src \in Name /\ restore.aside \in Name
  /\ restore.port \in 1..(PortCount + 1) /\ watched \subseteq Servers
  /\ status \in [step : StatusSteps, port : 1..PortCount, answering : BOOLEAN, missed : BOOLEAN]
  /\ attended \in [all : SUBSET Servers, any : BOOLEAN]
  /\ disturbed \in BOOLEAN /\ committed \subseteq Rows /\ stored \subseteq Rows
  /\ clobbered \subseteq Rows

File(id, rows, applied, whole) ==
  [id |-> id, rows |-> rows, applied |-> applied, whole |-> whole]
\* The directory with one file written anew.
Written(name, file) ==
  [other \in DOMAIN disk \cup {name} |-> IF other = name THEN file ELSE disk[other]]
Down == [phase |-> "down", known |-> {}, port |-> 0]
NoRestore == [step |-> "idle", src |-> Live, aside |-> Live, moved |-> FALSE, port |-> 1,
              force |-> FALSE, missed |-> FALSE, verified |-> NULL]
NoStatus == [step |-> "idle", port |-> 1, answering |-> FALSE, missed |-> FALSE]
Unattended == [all |-> {}, any |-> FALSE]

\* A fresh directory or an installation of an earlier release, and a backup made with it.
Init ==
  /\ \E old \in BOOLEAN :
       disk = [name \in {BackupName(0)} \cup IF old THEN {Live} ELSE {} |->
                 File(IF name = Live THEN 0 ELSE 1, {}, Installed, TRUE)]
  /\ wal = NULL /\ nextId = 2 /\ busy \in {{}, Foreign} /\ srv = [p \in Servers |-> Down]
  /\ backup = [step |-> "idle", name |-> Live, rows |-> {}, applied |-> {}]
  /\ restore = NoRestore /\ status = NoStatus /\ attended = Unattended /\ now = 0
  /\ used = [starts |-> 0, commands |-> 0, faults |-> 0]
  /\ disturbed = FALSE /\ watched = {} /\ committed = {} /\ stored = {} /\ clobbered = {}

Begins(what, bound) == used[what] < bound /\ used' = [used EXCEPT ![what] = @ + 1]
Fault == Begins("faults", MaxFaults)

\* A server with the database open while a restore replaces it may corrupt both files; the
\* specification follows what happens up to that moment.
Running == {p \in Servers : srv[p].phase = "up"}
Looking == status.step \in {"probe", "inspect"}
Observe ==
  /\ ~disturbed /\ UNCHANGED busy
  /\ watched' = IF restore.step \in {"idle", "done"} THEN Running' ELSE watched \cap Running'
  /\ attended' = IF ~Looking' THEN Unattended
                 ELSE [all |-> IF Looking THEN attended.all \cap Running' ELSE Running',
                       any |-> attended.any \/ Running' # {}]
  /\ disturbed' = (restore'.step \in Replacing /\ \E p \in Servers : srv'[p].phase # "down")
  /\ stored' = stored \cup IF Live \in DOMAIN disk' THEN disk'[Live].rows ELSE {}


-----------------------------------------------------------------------------------
(* The server. *)

At(p, phase) == ~disturbed /\ srv[p].phase = phase
Commit(rows, applied) ==
  wal' = [of |-> disk[Live].id, rows |-> rows, applied |-> applied]

\* The journal is copied into the file, and removed by the last connection to close.
Checkpointed == [disk EXCEPT ![Live] = File(@.id, wal.rows, wal.applied, @.whole)]
Disconnect(p) ==
  IF Open = {p} /\ backup.step = "idle" /\ wal # NULL
  THEN disk' = Checkpointed /\ wal' = NULL
  ELSE UNCHANGED <<disk, wal>>

\* openDatabase, up to the versions applyMigrations reads.  SQLite creates a file that is
\* not there, and drops a journal it finds beside an empty one.  A file copied in part may
\* be refused.
OpenDatabase(p) ==
  /\ srv[p].phase = "down" /\ Begins("starts", MaxStarts)
  /\ IF Exists(Live) THEN UNCHANGED <<disk, wal, nextId>>
     ELSE /\ disk' = Written(Live, File(nextId, {}, {}, TRUE))
          /\ nextId' = nextId + 1 /\ wal' = NULL
  /\ \/ srv' = [srv EXCEPT ![p].phase = "opened",
                           ![p].known = IF Exists(Live) THEN Current.applied ELSE {}]
     \/ Exists(Live) /\ ~disk[Live].whole /\ UNCHANGED srv
  /\ UNCHANGED <<commands, now, history>> /\ Observe

\* Deliberate fault: only an empty database is migrated.
PendingIfNew(known) == IF known = {} THEN Migrations ELSE {}
Pending(known) == Migrations \ known

\* One transaction.  A version that another process recorded since is a duplicate key: the
\* transaction is rolled back and the process ends.
ApplyMigrations(p) ==
  LET pending == Pending(srv[p].known)
  IN /\ At(p, "opened")
     /\ \/ /\ pending = {} /\ UNCHANGED wal
           /\ srv' = [srv EXCEPT ![p].phase = "migrated"]
        \/ /\ pending # {} /\ pending \cap Current.applied = {}
           /\ Commit(Current.rows, Current.applied \cup pending)
           /\ srv' = [srv EXCEPT ![p].phase = "migrated"]
        \/ /\ pending \cap Current.applied # {} /\ UNCHANGED wal
           /\ srv' = [srv EXCEPT ![p] = Down]
     /\ UNCHANGED <<disk, nextId, commands, now, used, history>> /\ Observe

Answering(port) == \E q \in Servers : srv[q].port = port
\* Deliberate fault: a port that another server listens on is taken again.
TakenElsewhere(port) == port \in busy
Taken(port) == port \in busy \/ Answering(port)
\* bindPort: the first candidate that is free; with none the server closes again.
BindPort(p) ==
  LET free == {port \in 1..PortCount : ~Taken(port)}
  IN /\ At(p, "migrated")
     /\ \/ /\ free # {} /\ UNCHANGED <<disk, wal>>
           /\ \E port \in free :
                /\ \A other \in free : port <= other
                /\ srv' = [srv EXCEPT ![p].phase = "up", ![p].port = port]
        \/ free = {} /\ Disconnect(p) /\ srv' = [srv EXCEPT ![p] = Down]
     /\ UNCHANGED <<nextId, commands, now, used, history>> /\ Observe

Record(p, r) ==
  /\ At(p, "up") /\ r \notin committed
  /\ Commit(Current.rows \cup {r}, Current.applied) /\ committed' = committed \cup {r}
  /\ UNCHANGED <<disk, nextId, srv, commands, now, used, clobbered>> /\ Observe

\* SQLite, once the journal has grown enough.
Checkpoint ==
  /\ ~disturbed /\ Open # {} /\ wal # NULL /\ disk' = Checkpointed
  /\ UNCHANGED <<wal, nextId, srv, commands, now, used, history>> /\ Observe

Close(p) ==
  /\ At(p, "up") /\ Disconnect(p) /\ srv' = [srv EXCEPT ![p] = Down]
  /\ UNCHANGED <<nextId, commands, now, used, history>> /\ Observe

Kill(p) ==
  /\ srv[p].phase # "down" /\ Fault /\ srv' = [srv EXCEPT ![p] = Down]
  /\ UNCHANGED <<disk, wal, nextId, commands, now, history>> /\ Observe

-----------------------------------------------------------------------------------
(* tadoru backup.  VACUUM INTO reads one snapshot; cut short, it leaves a part. *)

BackupBegin ==
  LET name == BackupName(now)
  IN /\ backup.step = "idle" /\ Begins("commands", MaxCommands)
     /\ ~Exists(name) /\ Exists(Live) /\ disk[Live].whole
     /\ backup' = [step |-> "writing", name |-> name,
                   rows |-> Current.rows, applied |-> Current.applied]
     /\ disk' = Written(name, File(nextId, {}, Current.applied, FALSE))
     /\ nextId' = nextId + 1
     /\ UNCHANGED <<wal, srv, restore, status, now, history>> /\ Observe

BackupEnd ==
  /\ backup.step = "writing" /\ backup' = [backup EXCEPT !.step = "idle"]
  /\ disk' = [disk EXCEPT ![backup.name] =
                File(@.id, backup.rows, backup.applied, TRUE)]
  /\ UNCHANGED <<wal, nextId, srv, restore, status, now, used, history>> /\ Observe

BackupCrash ==
  /\ backup.step = "writing" /\ Fault /\ backup' = [backup EXCEPT !.step = "idle"]
  /\ UNCHANGED <<disk, wal, nextId, srv, restore, status, now, history>> /\ Observe

-----------------------------------------------------------------------------------
(* tadoru restore. *)

Restoring(step) == restore.step = step
Goto(step) == restore' = [restore EXCEPT !.step = step]

\* The source may be any file of the directory, the live one and a part included.
RestoreBegin(src, force) ==
  /\ restore.step \in {"idle", "done"} /\ Begins("commands", MaxCommands)
  /\ restore' = [NoRestore EXCEPT !.step = IF force THEN "verify" ELSE "probe",
                   !.src = src, !.force = force]
  /\ UNCHANGED <<disk, wal, nextId, srv, backup, status, now, history>> /\ Observe

\* Deliberate fault: whatever answers in JSON is taken for a server of this program.
AnyBody(port) == Answering(port) \/ port \in busy
\* asHealthBody: what another program answers has another shape.
Answers(port) == Answering(port)

\* Deliberate fault: the port the server was meant to have is the only one tried.
ProbeFirst(port) == IF port = 1 THEN PortCount + 1 ELSE port + 1
NextProbe(port) == port + 1
\* findRunningServerPort: one candidate after the other.  A server that answers ends the
\* command; one too busy to answer in time is missed.
Probe ==
  LET answering == Answers(restore.port)
      next == NextProbe(restore.port)
      step == IF next > PortCount THEN "verify" ELSE "probe"
  IN /\ Restoring("probe")
     /\ \/ answering /\ Goto("idle") /\ UNCHANGED used
        \/ /\ answering /\ Fault
           /\ restore' = [restore EXCEPT !.port = next, !.step = step, !.missed = TRUE]
        \/ /\ ~answering /\ UNCHANGED used
           /\ restore' = [restore EXCEPT !.port = next, !.step = step]
     /\ UNCHANGED <<disk, wal, nextId, srv, backup, status, now, history>> /\ Observe

\* verifyTadoruDatabaseFile looks for two tables: the first migration creates them, and a
\* file copied in part may still show them.
Verify ==
  LET src == restore.src
      refused == ~Exists(src) \/ disk[src].applied = {}
  IN /\ Restoring("verify")
     /\ \/ refused /\ Goto("idle")
        \/ ~refused /\ ~disk[src].whole /\ Goto("idle")
        \/ /\ ~refused  \* with --dry-run the command ends here
           /\ restore' = [restore EXCEPT !.step = "move", !.aside = AsideName(now),
                                          !.verified = disk[src]]
     /\ UNCHANGED <<disk, wal, nextId, srv, backup, status, now, used, history>> /\ Observe

\* Deliberate fault: the live file is left in its place, to be copied over.
LeftInPlace == disk
\* A file that has the name already is replaced.
Renamed ==
  [name \in (DOMAIN disk \cup {restore.aside}) \ {Live} |->
     IF name = restore.aside THEN disk[Live] ELSE disk[name]]
MoveAside ==
  /\ Restoring("move") /\ restore' = [restore EXCEPT !.step = "unlink", !.moved = Exists(Live)]
  /\ IF Exists(Live)
     THEN /\ disk' = Renamed
          /\ clobbered' = clobbered \cup
               IF Exists(restore.aside) THEN disk[restore.aside].rows ELSE {}
     ELSE UNCHANGED <<disk, clobbered>>
  /\ UNCHANGED <<wal, nextId, srv, backup, status, now, used, committed>> /\ Observe

\* Deliberate fault: the journal is removed only when there was a database to move.
UnlinkedIfMoved == IF restore.moved THEN NULL ELSE wal
\* Deliberate fault: the journal is left beside the restored file.
KeptJournal == wal
Unlinked == NULL
RemoveSidecars ==
  /\ Restoring("unlink") /\ Goto("copy") /\ wal' = Unlinked
  /\ UNCHANGED <<disk, nextId, srv, backup, status, now, used, history>> /\ Observe

\* The source may have been the live file, which is gone by now: copyFileSync throws.
CopyBegin ==
  /\ Restoring("copy")
  /\ IF Exists(restore.src)
     THEN /\ Goto("copying") /\ nextId' = nextId + 1
          /\ disk' = Written(Live, File(nextId, {}, disk[restore.src].applied, FALSE))
     ELSE Goto("idle") /\ UNCHANGED <<disk, nextId>>
  /\ UNCHANGED <<wal, srv, backup, status, now, used, history>> /\ Observe

Copied(src) == File(disk[Live].id, src.rows, src.applied, src.whole)
CopyEnd ==
  /\ Restoring("copying") /\ Goto("done")
  /\ disk' = [disk EXCEPT ![Live] = Copied(disk[restore.src])]
  /\ UNCHANGED <<wal, nextId, srv, backup, status, now, used, history>> /\ Observe

RestoreCrash ==
  /\ ~Restoring("idle") /\ ~Restoring("done") /\ Fault /\ Goto("idle")
  /\ UNCHANGED <<disk, wal, nextId, srv, backup, status, now, history>> /\ Observe

-----------------------------------------------------------------------------------
(* tadoru status.  It probes the candidate ports, then reads the database, and ends *)
(* with 0 only if a server answered and the database could be read.                 *)

StatusBegin ==
  /\ ~Looking /\ Begins("commands", MaxCommands) /\ status' = [NoStatus EXCEPT !.step = "probe"]
  /\ UNCHANGED <<disk, wal, nextId, srv, backup, restore, now, history>> /\ Observe

\* The first port whose answer has the shape of /health ends the search.
StatusProbe ==
  LET next == NextProbe(status.port)
      nextPort == IF next > PortCount
                  THEN [status EXCEPT !.step = "inspect", !.port = 1] ELSE [status EXCEPT !.port = next]
  IN /\ status.step = "probe"
     /\ \/ /\ Answers(status.port) /\ UNCHANGED used
           /\ status' = [status EXCEPT !.step = "inspect", !.port = 1, !.answering = TRUE]
        \/ Answers(status.port) /\ Fault /\ status' = [nextPort EXCEPT !.missed = TRUE]
        \/ ~Answers(status.port) /\ UNCHANGED used /\ status' = nextPort
     /\ UNCHANGED <<disk, wal, nextId, srv, backup, restore, now, history>> /\ Observe

\* inspectDatabaseReadOnly creates and changes nothing; without the first migration's
\* tables, and perhaps on a file copied in part, its queries throw.
Inspect ==
  LET readable == Exists(Live) /\ Current.applied # {}
      Exit(code) == status' = [NoStatus EXCEPT !.step = code]
  IN /\ status.step = "inspect"
     /\ \/ readable /\ status.answering /\ Exit("exit 0")
        \/ (readable => ~disk[Live].whole \/ ~status.answering) /\ Exit("exit 1")
     /\ UNCHANGED <<disk, wal, nextId, srv, backup, restore, now, used, history>> /\ Observe

-----------------------------------------------------------------------------------
Tick ==
  /\ now < MaxNow /\ now' = now + 1
  /\ UNCHANGED <<disk, wal, nextId, srv, commands, used, history>> /\ Observe

-----------------------------------------------------------------------------------
Next ==
  \/ \E p \in Servers : \/ OpenDatabase(p) \/ ApplyMigrations(p) \/ BindPort(p)
                        \/ Close(p) \/ Kill(p)
                        \/ \E r \in Rows : Record(p, r)
  \/ Checkpoint \/ BackupBegin \/ BackupEnd \/ BackupCrash
  \/ \E src \in DOMAIN disk, force \in BOOLEAN : RestoreBegin(src, force)
  \/ Probe \/ Verify \/ MoveAside \/ RemoveSidecars \/ CopyBegin \/ CopyEnd
  \/ RestoreCrash \/ StatusBegin \/ StatusProbe \/ Inspect \/ Tick
Spec == Init /\ [][Next]_vars

-----------------------------------------------------------------------------------
\* The journal beside the live file is that file's own, at every step of a restore, after a
\* crash at any of them and after whatever was started next: no database ever starts from
\* an inconsistent journal (restore.ts:110-112).
JournalBelongs == ~disturbed /\ Exists(Live) /\ wal # NULL => wal.of = disk[Live].id

\* A restore that ends well leaves exactly what it verified, whole if the source was, with
\* no journal to read over it, whatever earlier restores that were cut short left behind.
\* A source that the database was moved onto, within one second, is excepted.
RestoredIsTheBackup ==
  [][restore.step = "copying" /\ restore'.step = "done" /\ restore.src # restore.aside
       => LET live == disk'[Live]
          IN /\ ~disturbed' /\ restore.verified.whole =>
                  /\ live.whole /\ live.rows = restore.verified.rows
                  /\ live.applied = restore.verified.applied
             /\ wal' = NULL]_vars

\* What was ever in the database file is in some file of the directory for good: the live
\* one, one moved aside or a backup (restore.ts:165-172).  A file moved aside in the same
\* second as an earlier one takes its name and its place.
FileIsKept ==
  ~disturbed =>
    stored \subseteq clobbered \cup UNION {disk[name].rows : name \in DOMAIN disk}

\* A server that answers has every migration of its release, over any file it may have been
\* started on: a new one, an older release's, a restored backup, one being migrated by
\* another process (migrations/index.ts:176-193).
ServerRunsMigrated ==
  \A p \in Servers : srv[p].phase = "up" /\ ~disturbed => Migrations \subseteq Current.applied

\* A restore without --force does not go on past a server that was up when it began, is
\* still up and answered in time, whichever of the candidate ports the server had to take
\* (restore.ts:74-81, bindPort.ts:85-95).
RestoreRefusesRunning ==
  restore.step \in {"verify", "move"} \cup Replacing /\ ~restore.force /\ ~restore.missed
    => watched = {}

\* `tadoru status` ends with 0 only if a server was up while it looked, and does so whenever
\* one was up all the time and answered in time: whichever port it had taken, whatever other
\* programs listen on the others, and whatever the journal holds (status.ts:471-501).  A
\* server that was up has migrated its database, so only a file copied in part is in doubt.
StatusIsHonest ==
  [][status.step = "inspect" /\ ~Looking' =>
       /\ status'.step = "exit 0" => attended.any
       /\ attended.all # {} /\ ~status.missed /\ disk[Live].whole
            => status'.step = "exit 0"]_vars

\* Taken from README.md: restoring the wrong backup leaves a way back, so that every row
\* ever committed is in some file.
WayBackIsKept ==
  committed \subseteq (IF wal # NULL THEN wal.rows ELSE {})
                        \cup UNION {disk[name].rows : name \in DOMAIN disk}
===================================================================================
