---------------------------- MODULE CredentialsProofs ----------------------------
(* TLAPS proofs about Credentials, for every set of processes, whatever lines and   *)
(* files an operator writes by hand, and any number of commands, kills and edits.   *)
EXTENDS Credentials, FoldProofs

-----------------------------------------------------------------------------------
(* The copies a reset makes. *)

\* The name of a copy is the second at which it was made.
CopiesAreDated == \A t \in DOMAIN baks : baks[t].at = t
CopiesInv == CopiesAreDated /\ BackupsAreKept

(* A copy is written once in its second, and never again. *)
LEMMA CopiesKept ==
  ASSUME CopiesInv, [Next]_vars
  PROVE  CopiesInv'
<1>1. CASE ResetPassword
  <2> DEFINE copy == [content |-> env, at |-> now]
  <2>1. /\ baks' = [t \in DOMAIN baks \cup {now} |-> IF t = now THEN copy ELSE baks[t]]
        /\ replaced' = replaced \cup {env}
        /\ clobbered' = clobbered \cup {baks[t].content : t \in {u \in DOMAIN baks \cap {now} :
                                                                   baks[u].at = now}}
    BY <1>1 DEF ResetPassword, envBackupName
  <2>2. copy.content = env /\ copy.at = now
    OBVIOUS
  <2> HIDE DEF copy
  <2>3. /\ DOMAIN baks' = DOMAIN baks \cup {now} /\ baks'[now] = copy
        /\ \A t \in DOMAIN baks : t # now => baks'[t] = baks[t]
    BY <2>1
  <2>4. CopiesAreDated'
    BY <2>2, <2>3 DEF CopiesInv, CopiesAreDated
  <2>5. ASSUME NEW content \in replaced'
        PROVE  content \in clobbered' \cup {baks'[t].content : t \in DOMAIN baks'}
    <3>1. CASE content = env
      BY <2>2, <2>3, <3>1
    <3>2. CASE content \in clobbered
      BY <2>1, <3>2
    <3>3. ASSUME NEW t \in DOMAIN baks, content = baks[t].content
          PROVE  content \in clobbered' \cup {baks'[u].content : u \in DOMAIN baks'}
      <4>1. CASE t = now
        BY <2>1, <3>3, <4>1 DEF CopiesInv, CopiesAreDated
      <4>2. CASE t # now
        BY <2>3, <3>3, <4>2
      <4> QED BY <4>1, <4>2
    <3> QED BY <2>1, <2>5, <3>1, <3>2, <3>3 DEF CopiesInv, BackupsAreKept
  <2> QED BY <2>4, <2>5 DEF CopiesInv, BackupsAreKept
<1>2. CASE UNCHANGED <<baks, replaced, clobbered>>
  BY <1>2 DEF CopiesInv, CopiesAreDated, BackupsAreKept
<1>3. ResetPassword \/ UNCHANGED <<baks, replaced, clobbered>>
  BY DEF Next, vars, files, history, Start, CreateSecretFile, WriteSecretFile, Stop, Login,
     Logout, ApiLogout, RunInit, InstallService, TruncateEnvFile, writeEnvFile, PrintPassword,
     KillCommand, Edit, Tick
<1> QED BY <1>1, <1>2, <1>3

(* What a reset replaced is in a dated copy, however the reset ended, unless another *)
(* reset of the same second overwrote it (resetPassword.ts).                        *)
THEOREM BackupsSurvive == Spec => []BackupsAreKept
<1>1. Init => CopiesInv
  BY DEF Init, CopiesInv, CopiesAreDated, BackupsAreKept
<1>2. CopiesInv => BackupsAreKept
  BY DEF CopiesInv
<1> QED BY <1>1, <1>2, CopiesKept, PTL DEF Spec

-----------------------------------------------------------------------------------
(* The session secret. *)

ProcessesShaped ==
  /\ used.starts \in Nat
  /\ used = [what \in {"starts", "commands", "faults", "edits"} |-> used[what]]
  /\ proc = [p \in Processes |-> [phase |-> proc[p].phase, admin |-> proc[p].admin,
                                  secret |-> proc[p].secret, setting |-> proc[p].setting]]

\* A process keeps to the secret it was given, and generates one only without that.
SettingsFit ==
  /\ \A p \in Processes :
       /\ proc[p].phase \in {"down", "fresh", "creating", "up"}
       /\ proc[p].phase # "down" => Set(proc[p].secret)
       /\ proc[p].phase # "down" /\ proc[p].setting # NULL => proc[p].secret = proc[p].setting
       /\ Generating(p) => proc[p].setting = NULL
  /\ jar # NULL /\ jar.setting # NULL => jar.secret = jar.setting

\* As long as no two generate at once, the secrets that were not given are the stored one,
\* and while one is being generated none is stored.
SecretsFit ==
  ~raced =>
    /\ \A p \in Processes : Generating(p) =>
         ~Set(secretFile) /\ \A q \in Processes \ {p} : ~Generating(q)
    /\ \A p \in Processes : Up(p) /\ proc[p].setting = NULL => proc[p].secret = secretFile
    /\ jar # NULL /\ jar.setting = NULL => Set(secretFile) /\ jar.secret = secretFile

SecretInv == ProcessesShaped /\ SettingsFit /\ SecretsFit

(* A process moves on and keeps what it loaded.                                     *)
LEMMA PhaseChanges ==
  ASSUME ProcessesShaped, NEW p \in Processes, NEW phase,
         proc' = [proc EXCEPT ![p].phase = phase]
  PROVE  /\ proc' = [q \in Processes |-> [phase |-> proc'[q].phase, admin |-> proc'[q].admin,
                                          secret |-> proc'[q].secret,
                                          setting |-> proc'[q].setting]]
         /\ proc'[p].phase = phase /\ proc'[p].secret = proc[p].secret
         /\ proc'[p].setting = proc[p].setting
         /\ \A q \in Processes \ {p} : proc'[q] = proc[q]
<1> DEFINE r == [phase |-> phase, admin |-> proc[p].admin,
                 secret |-> proc[p].secret, setting |-> proc[p].setting]
<1>1. proc[p] = [phase |-> proc[p].phase, admin |-> proc[p].admin,
                 secret |-> proc[p].secret, setting |-> proc[p].setting]
  BY DEF ProcessesShaped
<1>2. [proc[p] EXCEPT !.phase = phase] = r
  BY <1>1
<1>3. proc' = [q \in Processes |-> IF q = p THEN r ELSE proc[q]]
  BY <1>2 DEF ProcessesShaped
<1>4. proc'[p] = r /\ \A q \in Processes \ {p} : proc'[q] = proc[q]
  BY <1>3
<1>5. \A q \in Processes : proc[q] = [phase |-> proc[q].phase, admin |-> proc[q].admin,
                                      secret |-> proc[q].secret, setting |-> proc[q].setting]
  BY DEF ProcessesShaped
<1>6. \A q \in Processes :
        proc'[q] = [phase |-> proc'[q].phase, admin |-> proc'[q].admin,
                    secret |-> proc'[q].secret, setting |-> proc'[q].setting]
  BY <1>4, <1>5
<1>7. DOMAIN proc' = Processes /\ proc' = [q \in Processes |-> proc'[q]]
  BY <1>3
<1> QED BY <1>4, <1>6, <1>7

(* The same for a process that starts or ends.                                      *)
LEMMA ProcessChanges ==
  ASSUME ProcessesShaped, NEW p \in Processes,
         NEW phase, NEW admin, NEW secret, NEW setting,
         proc' = [proc EXCEPT ![p] = [phase |-> phase, admin |-> admin,
                                      secret |-> secret, setting |-> setting]]
  PROVE  /\ proc' = [q \in Processes |-> [phase |-> proc'[q].phase, admin |-> proc'[q].admin,
                                          secret |-> proc'[q].secret,
                                          setting |-> proc'[q].setting]]
         /\ proc'[p].phase = phase /\ proc'[p].secret = secret /\ proc'[p].setting = setting
         /\ \A q \in Processes \ {p} : proc'[q] = proc[q]
<1> DEFINE r == [phase |-> phase, admin |-> admin, secret |-> secret, setting |-> setting]
<1>1. proc' = [q \in Processes |-> IF q = p THEN r ELSE proc[q]]
  BY DEF ProcessesShaped
<1>2. proc'[p] = r /\ \A q \in Processes \ {p} : proc'[q] = proc[q]
  BY <1>1
<1>3. \A q \in Processes : proc[q] = [phase |-> proc[q].phase, admin |-> proc[q].admin,
                                      secret |-> proc[q].secret, setting |-> proc[q].setting]
  BY DEF ProcessesShaped
<1>4. \A q \in Processes :
        proc'[q] = [phase |-> proc'[q].phase, admin |-> proc'[q].admin,
                    secret |-> proc'[q].secret, setting |-> proc'[q].setting]
  BY <1>2, <1>3
<1>5. DOMAIN proc' = Processes /\ proc' = [q \in Processes |-> proc'[q]]
  BY <1>1
<1> QED BY <1>2, <1>4, <1>5

(* Bounds are counted in numbers.                                                   *)
LEMMA Counted ==
  ASSUME ProcessesShaped, NEW what \in {"starts", "commands", "faults", "edits"}, NEW bound,
         Begins(what, bound)
  PROVE  /\ used'.starts \in Nat
         /\ used' = [x \in {"starts", "commands", "faults", "edits"} |-> used'[x]]
<1>1. used' = [used EXCEPT ![what] = used[what] + 1]
  BY DEF Begins
<1>2. DOMAIN used = {"starts", "commands", "faults", "edits"} /\ used["starts"] \in Nat
  BY DEF ProcessesShaped
<1>3. used' = [x \in {"starts", "commands", "faults", "edits"} |->
                 IF x = what THEN used[what] + 1 ELSE used[x]]
  BY <1>1, <1>2
<1>4. used'["starts"] = IF what = "starts" THEN used["starts"] + 1 ELSE used["starts"]
  BY <1>3
<1>5. used' = [x \in {"starts", "commands", "faults", "edits"} |-> used'[x]]
  BY <1>3
<1> QED BY <1>2, <1>4, <1>5

\* The steps that leave alone all that a session depends on.
Elsewhere ==
  \/ \E force \in BOOLEAN : RunInit(force)
  \/ InstallService \/ ResetPassword \/ TruncateEnvFile \/ writeEnvFile \/ PrintPassword
  \/ KillCommand \/ Edit \/ Tick

(* Only a process that starts can write a secret, and only one that finds none. *)
LEMMA SecretInvNext ==
  ASSUME SecretInv, Next
  PROVE  SecretInv'
<1> USE DEF Generating, Up
<1>1. ASSUME NEW p \in Processes, Start(p) PROVE SecretInv'
  <2> DEFINE found == resolveSessionSecret
             secret == IF found # NULL THEN found ELSE used'.starts
             phase == IF found # NULL THEN "up" ELSE "fresh"
  <2>1. proc' = [proc EXCEPT ![p] = [phase |-> phase, admin |-> loadConfig,
                                     secret |-> secret, setting |-> Setting]]
    BY <1>1 DEF Start
  <2>2. /\ used'.starts \in Nat
        /\ used' = [x \in {"starts", "commands", "faults", "edits"} |-> used'[x]]
    BY <1>1, Counted DEF Start, SecretInv
  <2>3. /\ Setting # NULL => found = Setting /\ Set(found)
        /\ Setting = NULL /\ found # NULL => found = secretFile /\ Set(found)
        /\ found = NULL => Setting = NULL /\ ~Set(secretFile)
    BY DEF Setting, resolveSessionSecret, Set
  <2>4. Set(used'.starts)
    BY <2>2, CredentialsAssumption DEF Set
  <2>5. /\ raced' = (raced \/ \E q \in Processes \ {p} : Generating(q) /\ Generating(p)')
        /\ UNCHANGED <<secretFile, jar>>
    BY <1>1 DEF Start, files
  <2> HIDE DEF found
  <2>6. /\ proc' = [q \in Processes |-> [phase |-> proc'[q].phase, admin |-> proc'[q].admin,
                                         secret |-> proc'[q].secret,
                                         setting |-> proc'[q].setting]]
        /\ proc'[p].phase = phase /\ proc'[p].secret = secret /\ proc'[p].setting = Setting
        /\ \A q \in Processes \ {p} : proc'[q] = proc[q]
    <3> HIDE DEF phase, secret
    <3> QED BY <2>1, ProcessChanges DEF SecretInv
  <2>7. ProcessesShaped'
    BY <2>2, <2>6 DEF ProcessesShaped
  <2>8. SettingsFit'
    <3>1. /\ proc'[p].phase \in {"fresh", "up"} /\ Set(proc'[p].secret)
          /\ proc'[p].setting # NULL => proc'[p].secret = proc'[p].setting
          /\ proc'[p].phase = "fresh" => proc'[p].setting = NULL
      BY <2>3, <2>4, <2>6
    <3> QED BY <2>5, <2>6, <3>1 DEF SecretInv, SettingsFit
  <2>9. SecretsFit'
    <3> SUFFICES ASSUME ~raced' PROVE SecretsFit'
      BY DEF SecretsFit
    <3>1. CASE found # NULL
      <4>1. proc'[p].phase = "up" /\ (Setting = NULL => proc'[p].secret = secretFile)
        BY <2>3, <2>6, <3>1
      <4> QED BY <2>5, <2>6, <4>1 DEF SecretInv, SecretsFit
    <3>2. CASE found = NULL
      <4>1. proc'[p].phase = "fresh" /\ ~Set(secretFile)
        BY <2>3, <2>6, <3>2
      <4>2. \A q \in Processes \ {p} : ~Generating(q)
        BY <2>5, <4>1
      <4> QED BY <2>5, <2>6, <4>1, <4>2 DEF SecretInv, SecretsFit
    <3> QED BY <3>1, <3>2
  <2> QED BY <2>7, <2>8, <2>9 DEF SecretInv
<1>2. ASSUME NEW p \in Processes, CreateSecretFile(p) PROVE SecretInv'
  <2>1. /\ proc' = [proc EXCEPT ![p].phase = "creating"] /\ proc[p].phase = "fresh"
        /\ secretFile' = Blank /\ UNCHANGED <<jar, used, raced>>
    BY <1>2 DEF CreateSecretFile, history
  <2>2. /\ proc' = [q \in Processes |-> [phase |-> proc'[q].phase, admin |-> proc'[q].admin,
                                         secret |-> proc'[q].secret,
                                         setting |-> proc'[q].setting]]
        /\ proc'[p].phase = "creating" /\ proc'[p].secret = proc[p].secret
        /\ proc'[p].setting = proc[p].setting
        /\ \A q \in Processes \ {p} : proc'[q] = proc[q]
    BY <2>1, PhaseChanges DEF SecretInv
  <2>3. ProcessesShaped' /\ SettingsFit'
    BY <2>1, <2>2 DEF SecretInv, ProcessesShaped, SettingsFit
  <2>4. SecretsFit'
    <3> SUFFICES ASSUME ~raced' PROVE SecretsFit'
      BY DEF SecretsFit
    <3>1. ~Set(secretFile) /\ ~Set(Blank) /\ \A q \in Processes \ {p} : ~Generating(q)
      BY <2>1 DEF SecretInv, SecretsFit, Set
    <3>2. \A q \in Processes : Up(q)' => proc'[q].setting # NULL
      <4>1. ASSUME NEW q \in Processes, proc'[q].phase = "up", proc'[q].setting = NULL
            PROVE  FALSE
        <5>1. q # p /\ proc[q].phase = "up" /\ proc[q].setting = NULL
          BY <2>2, <4>1
        <5>2. Set(proc[q].secret) /\ proc[q].secret = secretFile
          BY <2>1, <5>1 DEF SecretInv, SettingsFit, SecretsFit
        <5> QED BY <3>1, <5>2
      <4> QED BY <4>1
    <3>3. jar # NULL => jar.setting # NULL
      BY <2>1, <3>1 DEF SecretInv, SecretsFit
    <3> QED BY <2>1, <2>2, <3>1, <3>2, <3>3 DEF SecretsFit
  <2> QED BY <2>3, <2>4 DEF SecretInv
<1>3. ASSUME NEW p \in Processes, WriteSecretFile(p) PROVE SecretInv'
  <2>1. /\ proc' = [proc EXCEPT ![p].phase = "up"] /\ proc[p].phase = "creating"
        /\ secretFile' = proc[p].secret /\ UNCHANGED <<jar, used, raced>>
    BY <1>3 DEF WriteSecretFile, history
  <2>2. /\ proc' = [q \in Processes |-> [phase |-> proc'[q].phase, admin |-> proc'[q].admin,
                                         secret |-> proc'[q].secret,
                                         setting |-> proc'[q].setting]]
        /\ proc'[p].phase = "up" /\ proc'[p].secret = proc[p].secret
        /\ proc'[p].setting = proc[p].setting
        /\ \A q \in Processes \ {p} : proc'[q] = proc[q]
    BY <2>1, PhaseChanges DEF SecretInv
  <2>3. ProcessesShaped' /\ SettingsFit'
    BY <2>1, <2>2 DEF SecretInv, ProcessesShaped, SettingsFit
  <2>4. SecretsFit'
    <3> SUFFICES ASSUME ~raced' PROVE SecretsFit'
      BY DEF SecretsFit
    <3>1. ~Set(secretFile) /\ \A q \in Processes \ {p} : ~Generating(q)
      BY <2>1 DEF SecretInv, SecretsFit
    <3>2. ASSUME NEW q \in Processes, proc'[q].phase = "up", proc'[q].setting = NULL
          PROVE  proc'[q].secret = secretFile'
      <4>1. CASE q = p
        BY <2>1, <2>2, <4>1
      <4>2. CASE q # p
        <5>1. proc[q].phase = "up" /\ proc[q].setting = NULL
          BY <2>2, <3>2, <4>2
        <5>2. Set(proc[q].secret) /\ proc[q].secret = secretFile
          BY <2>1, <5>1 DEF SecretInv, SettingsFit, SecretsFit
        <5> QED BY <3>1, <5>2
      <4> QED BY <4>1, <4>2
    <3>3. jar # NULL => jar.setting # NULL
      BY <2>1, <3>1 DEF SecretInv, SecretsFit
    <3>4. \A q \in Processes : ~Generating(q)'
      BY <2>2, <3>1
    <3> QED BY <2>1, <3>2, <3>3, <3>4 DEF SecretsFit
  <2> QED BY <2>3, <2>4 DEF SecretInv
<1>4. ASSUME NEW p \in Processes, Stop(p) PROVE SecretInv'
  <2>1. /\ proc' = [proc EXCEPT ![p] = [phase |-> "down", admin |-> NULL, secret |-> NULL,
                                        setting |-> NULL]]
        /\ UNCHANGED <<secretFile, jar, raced>>
    BY <1>4 DEF Stop, Down, files, history
  <2>2. /\ used'.starts \in Nat
        /\ used' = [x \in {"starts", "commands", "faults", "edits"} |-> used'[x]]
    <3>1. UNCHANGED used \/ Begins("faults", MaxFaults)
      BY <1>4 DEF Stop, Fault
    <3> QED BY <3>1, Counted DEF SecretInv, ProcessesShaped
  <2>3. /\ proc' = [q \in Processes |-> [phase |-> proc'[q].phase, admin |-> proc'[q].admin,
                                         secret |-> proc'[q].secret,
                                         setting |-> proc'[q].setting]]
        /\ proc'[p].phase = "down"
        /\ \A q \in Processes \ {p} : proc'[q] = proc[q]
    BY <2>1, ProcessChanges DEF SecretInv
  <2>4. ProcessesShaped'
    BY <2>2, <2>3 DEF ProcessesShaped
  <2>5. SettingsFit' /\ SecretsFit'
    BY <2>1, <2>3 DEF SecretInv, SettingsFit, SecretsFit
  <2> QED BY <2>4, <2>5 DEF SecretInv
<1>5. ASSUME NEW p \in Processes, Login(p) \/ Logout(p) \/ ApiLogout(p) PROVE SecretInv'
  <2>1. UNCHANGED <<proc, used, secretFile, raced>>
    BY <1>5 DEF Login, Logout, ApiLogout, files, history
  <2>2. jar' = NULL \/ (proc[p].phase = "up" /\ jar' = [secret |-> proc[p].secret,
                                                        setting |-> proc[p].setting])
    BY <1>5 DEF Login, Logout, ApiLogout, Signed
  <2> QED BY <2>1, <2>2 DEF SecretInv, ProcessesShaped, SettingsFit, SecretsFit
<1>6. CASE Elsewhere
  <2>1. UNCHANGED <<proc, secretFile, raced, jar>>
    BY <1>6 DEF Elsewhere, RunInit, InstallService, ResetPassword, TruncateEnvFile,
       writeEnvFile, PrintPassword, KillCommand, Edit, Tick, files, history
  <2>2. \/ UNCHANGED used
        \/ \E what \in {"commands", "faults", "edits"},
                bound \in {MaxCommands, MaxFaults, MaxEdits} : Begins(what, bound)
    BY <1>6 DEF Elsewhere, RunInit, InstallService, ResetPassword, TruncateEnvFile,
       writeEnvFile, PrintPassword, KillCommand, Edit, Tick, Fault
  <2>3. /\ used'.starts \in Nat
        /\ used' = [x \in {"starts", "commands", "faults", "edits"} |-> used'[x]]
    BY <2>2, Counted DEF SecretInv, ProcessesShaped
  <2> QED BY <2>1, <2>3 DEF SecretInv, ProcessesShaped, SettingsFit, SecretsFit
<1> QED BY <1>1, <1>2, <1>3, <1>4, <1>5, <1>6 DEF Next, Elsewhere

(* The secret every running process signs with is the one a new process would read. *)
THEOREM SecretsAreKept == Spec => []SecretInv
<1>1. Init => SecretInv
  BY DEF Init, SecretInv, ProcessesShaped, SettingsFit, SecretsFit, Down, Generating, Up
<1>2. SecretInv /\ [Next]_vars => SecretInv'
  <2>1. CASE UNCHANGED vars
    BY <2>1 DEF vars, files, history, SecretInv, ProcessesShaped, SettingsFit, SecretsFit,
       Generating, Up
  <2> QED BY <2>1, SecretInvNext
<1> QED BY <1>1, <1>2, PTL DEF Spec

(* A session outlives restarts and kills, with TADORU_SESSION_SECRET as it was,     *)
(* unless two processes generated a secret at once (adminAuth.ts, loadConfig.ts).   *)
THEOREM SessionsSurvive == Spec => []SessionsSurviveRestart
<1>1. SecretInv => SessionsSurviveRestart
  BY DEF SecretInv, SettingsFit, SecretsFit, SessionsSurviveRestart, IsAuthenticated,
     VerifySessionValue, Up
<1> QED BY <1>1, SecretsAreKept, PTL

-----------------------------------------------------------------------------------
(* What a file says of a password. *)

\* All lines of a key have the value, and there is one; or there is none.
Has(lines, key, value) ==
  /\ \E i \in DOMAIN lines : lines[i].key = key
  /\ \A i \in DOMAIN lines : lines[i].key = key => lines[i].value = value
Lacks(lines, key) == \A i \in DOMAIN lines : lines[i].key # key

\* The password is what the next start accepts, and no other line of the file counts.
Accepts(lines, password) ==
  /\ lines \in Seq(Line) /\ password \in Generated
  /\ \/ Has(lines, "hash", password) /\ Has(lines, "salt", password)
     \/ Lacks(lines, "hash") /\ Lacks(lines, "salt") /\ Has(lines, "plain", password)

\* Of lines that agree, the last one has their value.
LEMMA LastAgrees ==
  ASSUME NEW key, NEW value, env \in Seq(Line)
  PROVE  /\ Has(env, key, value) => Variable(key) = value
         /\ Lacks(env, key) => Variable(key) = NULL
<1> DEFINE I == {i \in 1..Len(env) : env[i].key = key}
<1>1. Len(env) \in Nat /\ DOMAIN env = 1..Len(env)
  OBVIOUS
<1>2. Variable(key) = LET i == IF I # {} THEN Max(I) ELSE 0 IN IF i = 0 THEN NULL ELSE env[i].value
  BY DEF Variable, SelectLastInSeq
<1>3. ASSUME Has(env, key, value) PROVE Variable(key) = value
  <2>1. I # {}
    BY <1>1, <1>3 DEF Has
  <2>2. Max(I) \in I
    <3>1. I \in SUBSET (1..Len(env))
      OBVIOUS
    <3> HIDE DEF I
    <3> QED BY <1>1, <2>1, <3>1, MaxIsIn
  <2>3. Max(I) \in DOMAIN env /\ Max(I) # 0 /\ env[Max(I)].key = key
    BY <1>1, <2>2
  <2> HIDE DEF I
  <2>4. env[Max(I)].value = value
    BY <1>3, <2>3 DEF Has
  <2> QED BY <1>2, <2>1, <2>3, <2>4
<1>4. ASSUME Lacks(env, key) PROVE Variable(key) = NULL
  <2>1. I = {}
    BY <1>1, <1>4 DEF Lacks
  <2> QED BY <1>2, <2>1
<1> QED BY <1>3, <1>4

\* A file that accepts a password loads it, whatever tadoru.config.json holds.
LEMMA AcceptedLoads ==
  ASSUME NEW password, Accepts(env, password)
  PROVE  loadConfig = Hashed(password)
<1>1. /\ password \in Nat /\ password \notin {NULL, Blank, Example, Placeholder}
      /\ env \in Seq(Line)
  <2>1. password \in Nat
    BY CredentialsAssumption DEF Accepts, Generated
  <2>2. {NULL, Blank, Example, Placeholder} \cap Nat = {}
    BY CredentialsAssumption, FilesAssumption
  <2> QED BY <2>1, <2>2 DEF Accepts
<1>2. CASE Has(env, "hash", password) /\ Has(env, "salt", password)
  <2>1. Variable("hash") = password /\ Variable("salt") = password
    BY <1>1, <1>2, LastAgrees
  <2> QED BY <1>1, <2>1 DEF loadConfig, Set, Usable, Hashed
<1>3. CASE Lacks(env, "hash") /\ Lacks(env, "salt") /\ Has(env, "plain", password)
  <2>1. Variable("hash") = NULL /\ Variable("salt") = NULL /\ Variable("plain") = password
    BY <1>1, <1>3, LastAgrees
  <2> QED BY <1>1, <2>1 DEF loadConfig, Set, Plaintext, Hashed
<1> QED BY <1>2, <1>3 DEF Accepts

-----------------------------------------------------------------------------------
(* What a reset makes of a file. *)

OtherLine == [key : {"secret", "other"}, value : Value]
Done == [lines : Seq(Line), keys : SUBSET {"hash", "salt"}]
Count(keys) == (IF "hash" \in keys THEN 1 ELSE 0) + (IF "salt" \in keys THEN 1 ELSE 0)

\* The lines so far: the others as they were, and one of each key that is put.
Clean(d, others, password) ==
  /\ d \in Done /\ password \in Value
  /\ \A k \in DOMAIN d.lines : /\ d.lines[k].key # "plain"
                               /\ d.lines[k].key \in {"hash", "salt"} => d.lines[k].value = password
  /\ \A key \in {"hash", "salt"} : key \in d.keys <=> \E k \in DOMAIN d.lines : d.lines[k].key = key
  /\ SelectIn(d.lines, OtherLine) = others /\ others \in Seq(OtherLine)
  /\ Len(d.lines) = Len(others) + Count(d.keys)

\* The pair starts at f: it is not put yet and f is next, or its first line is there.
Before(d, f) == d.keys = {} /\ Len(d.lines) + 1 = f
At(d, f) == /\ d.keys # {} /\ f \in DOMAIN d.lines /\ IsCredential(d.lines[f])
            /\ \A k \in DOMAIN d.lines : k < f => ~IsCredential(d.lines[k])

Putting(d, others, password, key, u) ==
  Clean(d, others, password) /\ key \in {"hash", "salt"} /\ u = Put(d, key, password)

\* A line of a key is put once, at the end.
LEMMA PutKeeps ==
  ASSUME NEW d, NEW others, NEW password, NEW key, NEW u,
         Putting(d, others, password, key, u)
  PROVE  /\ Clean(u, others, password) /\ u.keys = d.keys \cup {key}
         /\ \A f : Before(d, f) \/ At(d, f) => At(u, f)
<1> DEFINE line == L(key, password)
           n == Len(d.lines)
<1>1. /\ d \in Done /\ password \in Value /\ key \in {"hash", "salt"}
      /\ \A k \in DOMAIN d.lines :
           /\ d.lines[k].key # "plain"
           /\ d.lines[k].key \in {"hash", "salt"} => d.lines[k].value = password
      /\ \A e \in {"hash", "salt"} : e \in d.keys <=> \E k \in DOMAIN d.lines : d.lines[k].key = e
      /\ SelectIn(d.lines, OtherLine) = others /\ others \in Seq(OtherLine)
      /\ Len(d.lines) = Len(others) + Count(d.keys)
      /\ u = Put(d, key, password)
  BY DEF Putting, Clean
<1>2. /\ d.lines \in Seq(Line) /\ d.keys \in SUBSET {"hash", "salt"} /\ n \in Nat
      /\ DOMAIN d.lines = 1..n /\ Len(others) \in Nat
  BY <1>1 DEF Done
<1>3. line \in Line /\ line.key = key /\ line.value = password /\ line \notin OtherLine
  BY <1>1 DEF L, Line, OtherLine
<1>4. CASE key \in d.keys
  <2>1. u = d /\ d.keys \cup {key} = d.keys /\ d.keys # {}
    BY <1>1, <1>4 DEF Put
  <2>2. Clean(u, others, password)
    BY <2>1 DEF Putting
  <2>3. \A f : Before(d, f) \/ At(d, f) => At(u, f)
    BY <2>1 DEF Before
  <2> QED BY <2>1, <2>2, <2>3
<1>5. CASE key \notin d.keys
  <2>1. u = [lines |-> Append(d.lines, line), keys |-> d.keys \cup {key}]
    BY <1>1, <1>5 DEF Put
  <2> HIDE DEF line, n
  <2>2. /\ u.lines = Append(d.lines, line) /\ u.keys = d.keys \cup {key}
    BY <2>1
  <2>3. /\ u.lines \in Seq(Line) /\ Len(u.lines) = n + 1 /\ DOMAIN u.lines = 1..(n + 1)
        /\ u.lines[n + 1] = line /\ \A k \in 1..n : u.lines[k] = d.lines[k]
    BY <1>2, <1>3, <2>2, AppendedLast DEF n
  <2>4. u \in Done
    BY <1>1, <1>2, <2>1, <2>2, <2>3 DEF Done
  <2>5. SelectIn(u.lines, OtherLine) = others
    BY <1>1, <1>2, <1>3, <2>2, SelectInAppend
  <2>6. Count(u.keys) = Count(d.keys) + 1 /\ Count(d.keys) \in Nat
    BY <1>1, <1>5, <2>2 DEF Count
  <2>7. Len(u.lines) = Len(others) + Count(u.keys)
    BY <1>1, <1>2, <2>3, <2>6 DEF n
  <2>8. ASSUME NEW k \in DOMAIN u.lines
        PROVE  /\ u.lines[k].key # "plain"
               /\ u.lines[k].key \in {"hash", "salt"} => u.lines[k].value = password
    <3>1. k = n + 1 \/ k \in 1..n
      BY <1>2, <2>3
    <3> QED BY <1>1, <1>2, <1>3, <2>3, <3>1
  <2>9. ASSUME NEW e \in {"hash", "salt"}
        PROVE  e \in u.keys <=> \E k \in DOMAIN u.lines : u.lines[k].key = e
    <3>1. e \in d.keys <=> \E k \in 1..n : d.lines[k].key = e
      BY <1>1, <1>2
    <3>2. (\E k \in DOMAIN u.lines : u.lines[k].key = e)
            <=> (\E k \in 1..n : d.lines[k].key = e) \/ e = key
      <4>1. \A k \in 1..(n + 1) : k \in 1..n \/ k = n + 1
        BY <1>2
      <4>2. n + 1 \in 1..(n + 1) /\ \A k \in 1..n : k \in 1..(n + 1)
        BY <1>2
      <4> QED BY <1>3, <2>3, <4>1, <4>2
    <3> QED BY <2>2, <3>1, <3>2
  <2>10. Clean(u, others, password)
    BY <1>1, <2>4, <2>5, <2>7, <2>8, <2>9 DEF Clean
  <2>11. ASSUME NEW f, Before(d, f) PROVE At(u, f)
    <3>1. f = n + 1 /\ \A k \in 1..n : ~IsCredential(d.lines[k])
      BY <1>1, <1>2, <2>11 DEF Before, IsCredential, n
    <3>2. \A k \in DOMAIN u.lines : k < f => k \in 1..n
      BY <1>2, <2>3, <3>1
    <3>3. f \in DOMAIN u.lines /\ IsCredential(u.lines[f])
      BY <1>1, <1>2, <1>3, <2>3, <3>1 DEF IsCredential
    <3>4. \A k \in DOMAIN u.lines : k < f => ~IsCredential(u.lines[k])
      BY <2>3, <3>1, <3>2 DEF IsCredential
    <3> QED BY <2>2, <3>3, <3>4 DEF At
  <2>12. ASSUME NEW f, At(d, f) PROVE At(u, f)
    <3>1. /\ f \in 1..n /\ IsCredential(d.lines[f])
          /\ \A k \in 1..n : k < f => ~IsCredential(d.lines[k])
      BY <1>2, <2>12 DEF At
    <3>2. \A k \in DOMAIN u.lines : k < f => k \in 1..n
      BY <1>2, <2>3, <3>1
    <3>3. f \in DOMAIN u.lines /\ IsCredential(u.lines[f])
      BY <1>2, <2>3, <3>1 DEF IsCredential
    <3>4. \A k \in DOMAIN u.lines : k < f => ~IsCredential(u.lines[k])
      BY <2>3, <3>1, <3>2 DEF IsCredential
    <3> QED BY <2>2, <3>3, <3>4 DEF At
  <2> QED BY <2>2, <2>10, <2>11, <2>12
<1> QED BY <1>4, <1>5

\* The pair, after whichever of its lines is there.
LEMMA PairKeeps ==
  ASSUME NEW d, NEW others, NEW password, Clean(d, others, password),
         NEW u, u = PutPair(d, password)
  PROVE  /\ Clean(u, others, password) /\ u.keys = {"hash", "salt"}
         /\ \A f : Before(d, f) \/ At(d, f) => At(u, f)
<1> DEFINE h == Put(d, "hash", password)
<1>1. Putting(d, others, password, "hash", h)
  BY DEF Putting
<1>2. u = Put(h, "salt", password)
  BY DEF PutPair
<1> HIDE DEF h
<1>3. /\ Clean(h, others, password) /\ h.keys = d.keys \cup {"hash"}
      /\ \A f : Before(d, f) \/ At(d, f) => At(h, f)
  BY <1>1, PutKeeps
<1>4. Putting(h, others, password, "salt", u)
  BY <1>2, <1>3 DEF Putting
<1>5. /\ Clean(u, others, password) /\ u.keys = h.keys \cup {"salt"}
      /\ \A f : Before(h, f) \/ At(h, f) => At(u, f)
  BY <1>4, PutKeeps
<1>6. d.keys \in SUBSET {"hash", "salt"}
  BY DEF Clean, Done
<1> QED BY <1>3, <1>5, <1>6

\* The lines that are no credential, and the first that is one, in the file that is read.
IsFirst(content, f) ==
  /\ f \in 1..(Len(content) + 1)
  /\ f \in DOMAIN content => IsCredential(content[f])
  /\ \A k \in DOMAIN content : k < f => ~IsCredential(content[k])

\* After i lines: the pair starts at f if the file's credentials did before, and is to come
\* there if not.
Rewritten(d, content, i, others, password, f) ==
  /\ Clean(d, others, password) /\ content \in Seq(Line) /\ IsFirst(content, f)
  /\ i \in 0..Len(content)
  /\ IF i < f THEN d.keys = {} /\ Len(d.lines) = i ELSE At(d, f)

OneMore(d, content, i, others, password, f, u) ==
  /\ Rewritten(d, content, i - 1, others, password, f) /\ i \in 1..Len(content)
  /\ u = RewriteLine(d, content[i], password)

\* One line more is copied, or gives way to the pair.
LEMMA LineKeeps ==
  ASSUME NEW d, NEW content, NEW i, NEW others, NEW password, NEW f, NEW u,
         OneMore(d, content, i, others, password, f, u)
  PROVE  Rewritten(u, content, i, IF content[i] \in OtherLine THEN Append(others, content[i])
                                  ELSE others, password, f)
<1> DEFINE line == content[i]
           n == Len(d.lines)
<1>1. /\ Clean(d, others, password) /\ content \in Seq(Line) /\ IsFirst(content, f)
      /\ i \in 1..Len(content) /\ Len(content) \in Nat /\ DOMAIN content = 1..Len(content)
      /\ i - 1 \in 0..Len(content)
      /\ IF i - 1 < f THEN d.keys = {} /\ Len(d.lines) = i - 1 ELSE At(d, f)
      /\ u = RewriteLine(d, line, password)
  BY DEF OneMore, Rewritten
<1>2. line \in Line /\ f \in Nat /\ i \in Nat
  <2>1. line \in Line
    BY <1>1
  <2>2. f \in Nat
    <3>1. f \in 1..(Len(content) + 1) /\ Len(content) \in Nat
      BY <1>1 DEF IsFirst
    <3> QED BY <3>1
  <2>3. i \in Nat
    BY <1>1
  <2> QED BY <2>1, <2>2, <2>3
<1>3. line \in OtherLine <=> ~IsCredential(line)
  BY <1>2 DEF Line, OtherLine, IsCredential
<1>4. i < f => ~IsCredential(line)
  BY <1>1 DEF IsFirst
<1>5. CASE IsCredential(line)
  <2>1. u = IF line.key = "plain" THEN PutPair(d, password) ELSE Put(d, line.key, password)
    BY <1>1, <1>5 DEF RewriteLine, IsCredential
  <2>2. f <= i /\ (Before(d, f) \/ At(d, f))
    <3>1. f <= i
      BY <1>2, <1>4, <1>5
    <3>2. CASE i - 1 < f
      <4>1. f = i
        BY <1>2, <3>1, <3>2
      <4>2. d.keys = {} /\ Len(d.lines) = i - 1
        BY <1>1, <3>2
      <4>3. Len(d.lines) + 1 = f
        BY <1>2, <4>1, <4>2
      <4> QED BY <3>1, <4>2, <4>3 DEF Before
    <3>3. CASE ~ (i - 1 < f)
      BY <1>1, <3>1, <3>3
    <3> QED BY <3>2, <3>3
  <2>3. Clean(u, others, password) /\ At(u, f)
    <3>1. CASE line.key = "plain"
      <4>1. u = PutPair(d, password)
        BY <2>1, <3>1
      <4>2. Clean(u, others, password) /\ \A g : Before(d, g) \/ At(d, g) => At(u, g)
        BY <1>1, <4>1, PairKeeps
      <4> QED BY <2>2, <4>2
    <3>2. CASE line.key # "plain"
      <4>1. Putting(d, others, password, line.key, u)
        BY <1>1, <1>5, <2>1, <3>2 DEF Putting, IsCredential
      <4>2. Clean(u, others, password) /\ \A g : Before(d, g) \/ At(d, g) => At(u, g)
        BY <4>1, PutKeeps
      <4> QED BY <2>2, <4>2
    <3> QED BY <3>1, <3>2
  <2>4. ~ (i < f) /\ i \in 0..Len(content)
    BY <1>1, <1>2, <2>2
  <2> HIDE DEF line
  <2> QED BY <1>1, <1>3, <1>5, <2>3, <2>4 DEF Rewritten, line
<1>6. CASE ~IsCredential(line)
  <2> DEFINE more == Append(others, line)
  <2>1. u = [d EXCEPT !.lines = Append(d.lines, line)]
    BY <1>1, <1>6 DEF RewriteLine, IsCredential
  <2> HIDE DEF line, n
  <2>2. /\ d \in Done /\ password \in Value
        /\ \A k \in DOMAIN d.lines :
             /\ d.lines[k].key # "plain"
             /\ d.lines[k].key \in {"hash", "salt"} => d.lines[k].value = password
        /\ \A e \in {"hash", "salt"} :
             e \in d.keys <=> \E k \in DOMAIN d.lines : d.lines[k].key = e
        /\ SelectIn(d.lines, OtherLine) = others /\ others \in Seq(OtherLine)
        /\ Len(d.lines) = Len(others) + Count(d.keys)
    BY <1>1 DEF Clean
  <2>3. /\ d.lines \in Seq(Line) /\ d.keys \in SUBSET {"hash", "salt"} /\ n \in Nat
        /\ DOMAIN d.lines = 1..n
    BY <2>2 DEF Done, n
  <2>4. u.lines = Append(d.lines, line) /\ u.keys = d.keys /\ u \in Done
    <3>1. Append(d.lines, line) \in Seq(Line)
      BY <1>2, <2>3, AppendedLast
    <3> QED BY <2>1, <2>2, <3>1 DEF Done
  <2>5. /\ Len(u.lines) = n + 1 /\ DOMAIN u.lines = 1..(n + 1)
        /\ u.lines[n + 1] = line /\ \A k \in 1..n : u.lines[k] = d.lines[k]
    BY <1>2, <2>3, <2>4, AppendedLast DEF n
  <2>6. SelectIn(u.lines, OtherLine) = more
    BY <1>2, <1>3, <1>6, <2>2, <2>3, <2>4, SelectInAppend, SMTT(30)
  <2>7. more \in Seq(OtherLine) /\ Len(more) = Len(others) + 1 /\ Len(others) \in Nat
    BY <1>3, <1>6, <2>2, AppendedLast
  <2> HIDE DEF more
  <2>8. Len(u.lines) = Len(more) + Count(u.keys)
    <3>1. Count(d.keys) \in Nat
      BY DEF Count
    <3> QED BY <2>2, <2>4, <2>5, <2>7, <3>1 DEF n
  <2>9. ASSUME NEW k \in DOMAIN u.lines
        PROVE  /\ u.lines[k].key # "plain"
               /\ u.lines[k].key \in {"hash", "salt"} => u.lines[k].value = password
    <3>1. k = n + 1 \/ k \in 1..n
      BY <2>3, <2>5
    <3> QED BY <1>6, <2>2, <2>3, <2>5, <3>1 DEF IsCredential
  <2>10. ASSUME NEW e \in {"hash", "salt"}
         PROVE  e \in u.keys <=> \E k \in DOMAIN u.lines : u.lines[k].key = e
    <3>1. e \in d.keys <=> \E k \in 1..n : d.lines[k].key = e
      BY <2>2, <2>3
    <3>2. (\E k \in DOMAIN u.lines : u.lines[k].key = e) <=> \E k \in 1..n : d.lines[k].key = e
      <4>1. \A k \in 1..(n + 1) : k \in 1..n \/ k = n + 1
        BY <2>3
      <4>2. \A k \in 1..n : k \in 1..(n + 1)
        BY <2>3
      <4>3. u.lines[n + 1].key # e
        BY <1>6, <2>5 DEF IsCredential
      <4> QED BY <2>5, <4>1, <4>2, <4>3
    <3> QED BY <2>4, <3>1, <3>2
  <2>11. Clean(u, more, password)
    BY <2>2, <2>4, <2>6, <2>7, <2>8, <2>9, <2>10 DEF Clean
  <2>12. IF i < f THEN u.keys = {} /\ Len(u.lines) = i ELSE At(u, f)
    <3>1. CASE i < f
      <4>1. i - 1 < f
        BY <1>2, <3>1
      <4>2. d.keys = {} /\ n = i - 1
        BY <1>1, <4>1 DEF n
      <4>3. Len(u.lines) = i
        BY <1>2, <2>5, <4>2
      <4> QED BY <2>4, <3>1, <4>2, <4>3
    <3>2. CASE ~ (i < f)
      <4>1. f # i
        BY <1>1, <1>6 DEF IsFirst, line
      <4>2. ~ (i - 1 < f)
        BY <1>2, <3>2, <4>1
      <4>3. At(d, f)
        BY <1>1, <4>2
      <4>4. /\ f \in 1..n /\ IsCredential(d.lines[f]) /\ d.keys # {}
            /\ \A k \in 1..n : k < f => ~IsCredential(d.lines[k])
        BY <2>3, <4>3 DEF At
      <4>5. \A k \in DOMAIN u.lines : k < f => k \in 1..n
        BY <2>3, <2>5, <4>4
      <4>6. f \in DOMAIN u.lines /\ IsCredential(u.lines[f])
        BY <2>3, <2>5, <4>4 DEF IsCredential
      <4>7. \A k \in DOMAIN u.lines : k < f => ~IsCredential(u.lines[k])
        BY <2>5, <4>4, <4>5 DEF IsCredential
      <4>8. At(u, f)
        BY <2>4, <4>4, <4>6, <4>7 DEF At
      <4> QED BY <3>2, <4>8
    <3> QED BY <3>1, <3>2
  <2>13. i \in 0..Len(content)
    BY <1>1
  <2> QED BY <1>1, <1>3, <1>6, <2>11, <2>12, <2>13 DEF Rewritten, more, line
<1> QED BY <1>5, <1>6

\* There is a first credential, or the end of the file in its place.
LEMMA FirstExists ==
  ASSUME NEW content \in Seq(Line)
  PROVE  IsFirst(content, FirstCredential(content))
<1> DEFINE I == {i \in 1..Len(content) : IsCredential(content[i])}
           n == Len(content)
<1>1. n \in Nat /\ DOMAIN content = 1..n
  OBVIOUS
<1>2. FirstCredential(content) = LET i == IF I # {} THEN Min(I) ELSE 0
                                 IN  IF i = 0 THEN Len(content) + 1 ELSE i
  BY DEF FirstCredential, SelectInSeq
<1>3. CASE I = {}
  <2>1. FirstCredential(content) = n + 1
    BY <1>2, <1>3
  <2>2. \A k \in DOMAIN content : ~IsCredential(content[k])
    BY <1>1, <1>3
  <2>3. n + 1 \in 1..(n + 1) /\ n + 1 \notin DOMAIN content
    BY <1>1
  <2> HIDE DEF n
  <2> QED BY <2>1, <2>2, <2>3 DEF IsFirst, n
<1>4. CASE I # {}
  <2>1. PICK f \in I : \A k \in I : f <= k
    <3>1. /\ I \subseteq Nat
      OBVIOUS
    <3> HIDE DEF I
    <3> QED BY <1>4, <3>1, LeastIn
  <2>2. Min(I) = f
    <3>1. \A k \in I : (\A x \in I : k <= x) => k = f
      BY <1>1, <2>1
    <3> HIDE DEF I
    <3> QED BY <2>1, <3>1 DEF Min
  <2>3. f \in 1..n /\ IsCredential(content[f]) /\ f # 0
    BY <1>1, <2>1
  <2>4. FirstCredential(content) = f
    <3> HIDE DEF I
    <3> QED BY <1>2, <1>4, <2>2, <2>3
  <2>5. \A k \in DOMAIN content : k < f => ~IsCredential(content[k])
    BY <1>1, <2>1, <2>3
  <2>6. f \in 1..(n + 1) /\ f \in DOMAIN content
    BY <1>1, <2>3
  <2> HIDE DEF n
  <2> QED BY <2>3, <2>4, <2>5, <2>6 DEF IsFirst, n
<1> QED BY <1>3, <1>4

\* The others up to line i, as a selection leaves them.
OthersTo(h, content) == h \in [0..Len(content) -> Seq(Line \cap OtherLine)]
                          /\ SelectsBy(h, content, OtherLine)

\* Nothing is put before the first line.
LEMMA NothingYet ==
  ASSUME NEW content \in Seq(Line), NEW password \in Value, NEW f, IsFirst(content, f)
  PROVE  Rewritten([lines |-> <<>>, keys |-> {}], content, 0, <<>>, password, f)
<1> DEFINE d == [lines |-> <<>>, keys |-> {}]
<1>1. d.lines = <<>> /\ d.keys = {} /\ d \in Done
  BY DEF Done
<1>2. SelectIn(<<>>, OtherLine) = <<>>
  BY SelectInEmpty
<1>3. Count({}) = 0 /\ Len(<<>>) = 0 /\ <<>> \in Seq(OtherLine) /\ DOMAIN <<>> = {}
  BY DEF Count
<1> HIDE DEF d
<1>4. Clean(d, <<>>, password)
  BY <1>1, <1>2, <1>3 DEF Clean
<1>5. 0 < f /\ 0 \in 0..Len(content)
  <2>1. f \in 1..(Len(content) + 1) /\ Len(content) \in Nat
    BY DEF IsFirst
  <2> QED BY <2>1
<1>6. Rewritten(d, content, 0, <<>>, password, f)
  BY <1>1, <1>3, <1>4, <1>5 DEF Rewritten
<1> QED BY <1>6 DEF d

\* The whole file, line by line.
LEMMA FileKeeps ==
  ASSUME NEW content \in Seq(Line), NEW password \in Value
  PROVE  LET done == FoldLeft(LAMBDA sofar, line : RewriteLine(sofar, line, password),
                              [lines |-> <<>>, keys |-> {}], content)
         IN  Rewritten(done, content, Len(content), SelectIn(content, OtherLine), password,
                       FirstCredential(content))
<1> DEFINE n == Len(content)
           c == FirstCredential(content)
           base == [lines |-> <<>>, keys |-> {}]
           step == [i \in 1..n |-> [d \in Done |-> RewriteLine(d, content[i], password)]]
           Fold(g) == [S \in SUBSET (1..n) |->
                         IF S = {} THEN base
                         ELSE RewriteLine(g[S \ {Max(S)}], content[Max(S)], password)]
           f == CHOOSE g : g = Fold(g)
<1>1. n \in Nat /\ DOMAIN content = 1..n /\ \A i \in 1..n : content[i] \in Line
  OBVIOUS
<1>2. FoldLeft(LAMBDA sofar, line : RewriteLine(sofar, line, password), base, content) = f[1..n]
  BY <1>1 DEF FoldLeft, MapThenFoldSet
<1>3. \E g : g = Fold(g)
  <2>1. IsLeftFoldable(n, Done, base, step)
    <3>1. ASSUME NEW d \in Done, NEW line \in Line
          PROVE  RewriteLine(d, line, password) \in Done
      <4>1. ASSUME NEW e \in Done, NEW key \in {"hash", "salt"}
            PROVE  Put(e, key, password) \in Done
        <5>1. L(key, password) \in Line /\ e.lines \in Seq(Line)
          BY DEF L, Line, Done
        <5>2. Append(e.lines, L(key, password)) \in Seq(Line)
          BY <5>1, AppendedLast
        <5> QED BY <5>2 DEF Put, Done
      <4>2. [d EXCEPT !.lines = Append(d.lines, line)] \in Done
        <5>1. Append(d.lines, line) \in Seq(Line)
          BY AppendedLast DEF Done
        <5> QED BY <5>1 DEF Done
      <4>3. PutPair(d, password) \in Done
        BY <4>1 DEF PutPair
      <4> QED BY <4>1, <4>2, <4>3 DEF RewriteLine
    <3>2. base \in Done
      BY DEF Done
    <3> QED BY <1>1, <3>1, <3>2 DEF IsLeftFoldable
  <2>2. PICK g \in [SUBSET (1..n) -> Done] : IsLeftFold(g, n, base, step)
    <3> HIDE DEF step, n, base
    <3> QED BY <2>1, FoldLeftExists
  <2>3. ASSUME NEW S \in SUBSET (1..n), S # {}
        PROVE  step[Max(S)][g[S \ {Max(S)}]] = Fold(g)[S]
    <3>1. Max(S) \in 1..n /\ g[S \ {Max(S)}] \in Done
      BY <1>1, <2>2, <2>3, MaxOfIndices
    <3> QED BY <2>3, <3>1
  <2>4. g = Fold(g)
    <3> HIDE DEF step, n, base
    <3> QED BY <2>2, <2>3 DEF IsLeftFold
  <2> QED BY <2>4
<1>4. f = Fold(f)
  <2> HIDE DEF Fold
  <2> QED BY <1>3
<1>5. PICK h : OthersTo(h, content) /\ SelectIn(content, OtherLine) = h[n]
  BY SelectInSteps DEF OthersTo
<1>6. IsFirst(content, c)
  BY FirstExists
<1> DEFINE W == {i \in 0..n : Rewritten(f[1..i], content, i, h[i], password, c)}
<1>7. 0 \in W
  <2>1. f[{}] = base /\ 1..0 = {} /\ 0 \in 0..n
    <3> HIDE DEF f, base
    <3> QED BY <1>1, <1>4
  <2>2. h[0] = <<>>
    BY <1>5 DEF OthersTo, SelectsBy
  <2>3. Rewritten(base, content, 0, <<>>, password, c)
    <3> HIDE DEF c
    <3> QED BY <1>6, NothingYet
  <2> HIDE DEF f, base
  <2> QED BY <2>1, <2>2, <2>3
<1>8. ASSUME NEW i \in 1..n, i - 1 \in W PROVE i \in W
  <2>1. /\ 1..i \in SUBSET (1..n) /\ 1..i # {} /\ i \in 0..n
        /\ Max(1..i) = i /\ (1..i) \ {i} = 1..(i - 1)
    BY <1>1, MaxOfIndices
  <2>2. f[1..i] = RewriteLine(f[1..(i - 1)], content[i], password)
    <3> HIDE DEF f, n, base
    <3> QED BY <1>4, <2>1
  <2>3. Rewritten(f[1..(i - 1)], content, i - 1, h[i - 1], password, c)
    BY <1>8
  <2>4. h[i] = IF content[i] \in OtherLine THEN Append(h[i - 1], content[i]) ELSE h[i - 1]
    BY <1>5 DEF OthersTo, SelectsBy
  <2> DEFINE d == f[1..(i - 1)]
             u == f[1..i]
             o == h[i - 1]
  <2>5. OneMore(d, content, i, o, password, c, u)
    BY <2>2, <2>3 DEF OneMore
  <2>6. Rewritten(u, content, i, IF content[i] \in OtherLine THEN Append(o, content[i])
                                 ELSE o, password, c)
    <3> HIDE DEF d, u, o, c
    <3> QED BY <2>5, LineKeeps
  <2> QED BY <2>1, <2>4, <2>6
<1>9. n \in W
  <2> HIDE DEF W, n
  <2>1. 0..n \subseteq W
    BY <1>1, <1>7, <1>8, PrefixInduction
  <2> QED BY <1>1, <2>1
<1> QED BY <1>2, <1>5, <1>9

\* Only one line is the first.
LEMMA FirstUnique ==
  ASSUME NEW lines \in Seq(Line), NEW f, NEW g, IsFirst(lines, f), IsFirst(lines, g)
  PROVE  f = g
<1>1. Len(lines) \in Nat /\ DOMAIN lines = 1..Len(lines)
  OBVIOUS
<1>2. /\ f \in 1..(Len(lines) + 1) /\ g \in 1..(Len(lines) + 1)
  BY DEF IsFirst
<1>3. ~ (f < g)
  <2> SUFFICES ASSUME f < g PROVE FALSE
    OBVIOUS
  <2>1. f \in DOMAIN lines
    BY <1>1, <1>2
  <2> QED BY <2>1 DEF IsFirst
<1>4. ~ (g < f)
  <2> SUFFICES ASSUME g < f PROVE FALSE
    OBVIOUS
  <2>1. g \in DOMAIN lines
    BY <1>1, <1>2
  <2> QED BY <2>1 DEF IsFirst
<1> QED BY <1>1, <1>2, <1>3, <1>4

\* A reset puts the pair in the place of the first credential, once, and changes nothing else.
LEMMA ResetResult ==
  ASSUME NEW content \in Seq(Line), NEW password \in Generated
  PROVE  LET lines == rewriteCredentialLines(content, password) IN
         /\ lines \in Seq(Line) /\ Has(lines, "hash", password) /\ Has(lines, "salt", password)
         /\ Others(lines) = Others(content) /\ Len(lines) = Len(Others(lines)) + 2
         /\ FirstCredential(lines) = FirstCredential(content)
<1> DEFINE done == FoldLeft(LAMBDA sofar, line : RewriteLine(sofar, line, password),
                            [lines |-> <<>>, keys |-> {}], content)
           u == PutPair(done, password)
           o == SelectIn(content, OtherLine)
           f == FirstCredential(content)
           n == Len(content)
<1>0. password \in Value
  BY DEF Value
<1>1. Rewritten(done, content, n, o, password, f)
  BY <1>0, FileKeeps
<1>2. rewriteCredentialLines(content, password) = u.lines
  BY DEF rewriteCredentialLines
<1> HIDE DEF done, u
<1>3. /\ Clean(u, o, password) /\ u.keys = {"hash", "salt"}
      /\ \A g : Before(done, g) \/ At(done, g) => At(u, g)
  <2>1. Clean(done, o, password)
    BY <1>1 DEF Rewritten
  <2> QED BY <2>1, PairKeeps DEF u
<1>4. Before(done, f) \/ At(done, f)
  <2>1. /\ f \in 1..(n + 1) /\ n \in Nat
        /\ IF n < f THEN done.keys = {} /\ Len(done.lines) = n ELSE At(done, f)
    <3>1. IsFirst(content, f) /\ IF n < f THEN done.keys = {} /\ Len(done.lines) = n
                                 ELSE At(done, f)
      BY <1>1 DEF Rewritten
    <3> QED BY <3>1 DEF IsFirst
  <2> HIDE DEF f, n
  <2>2. n < f => n + 1 = f
    BY <2>1
  <2> QED BY <2>1, <2>2 DEF Before
<1>5. At(u, f)
  BY <1>3, <1>4
<1>6. /\ u.lines \in Seq(Line) /\ SelectIn(u.lines, OtherLine) = o
      /\ Len(u.lines) = Len(o) + Count(u.keys) /\ Len(o) \in Nat
      /\ \A k \in DOMAIN u.lines :
           u.lines[k].key \in {"hash", "salt"} => u.lines[k].value = password
      /\ \A key \in {"hash", "salt"} : \E k \in DOMAIN u.lines : u.lines[k].key = key
  BY <1>3 DEF Clean, Done
<1>7. Count(u.keys) = 2
  BY <1>3 DEF Count
<1>8. Has(u.lines, "hash", password) /\ Has(u.lines, "salt", password)
  BY <1>6 DEF Has
<1>9. Others(u.lines) = o /\ Others(content) = o
  BY <1>6 DEF Others, OtherLine
<1>10. FirstCredential(u.lines) = f
  <2>1. IsFirst(u.lines, FirstCredential(u.lines))
    BY <1>6, FirstExists
  <2>2. IsFirst(u.lines, f)
    <3>1. DOMAIN u.lines = 1..Len(u.lines) /\ Len(u.lines) \in Nat
      BY <1>6
    <3>2. f \in DOMAIN u.lines /\ f \in 1..(Len(u.lines) + 1)
      BY <1>5, <3>1 DEF At
    <3> HIDE DEF f
    <3> QED BY <1>5, <3>2 DEF At, IsFirst
  <2> HIDE DEF f
  <2> QED BY <1>6, <2>1, <2>2, FirstUnique
<1>11. Len(u.lines) = Len(Others(u.lines)) + 2
  BY <1>6, <1>7, <1>9
<1> QED BY <1>2, <1>6, <1>8, <1>9, <1>10, <1>11

-----------------------------------------------------------------------------------
(* The command that runs, and the password that is shown. *)

Counts == {"starts", "commands", "faults", "edits"}
Counting == used \in [Counts -> Nat] /\ used["commands"] <= MaxCommands

\* A command knows the password it will print, and the file accepts it once it is written.
Running ==
  /\ cmd \in [name : {NULL, "init", "install", "reset"}, content : Seq(Line),
              step : {"idle", "ready", "truncated", "written"}, password : Generated \cup {NULL}]
  /\ cmd.step = "idle" => cmd = Idle
  /\ cmd.step # "idle" => cmd.name \in {"init", "install", "reset"} /\ cmd.password \in Generated
  /\ cmd.step = "truncated" => shown = NULL
  /\ cmd.step = "written" => Accepts(env, cmd.password)

PasswordInv == /\ env \in Seq(Line) \cup {NULL} /\ Counting /\ Running
               /\ shown # NULL => Accepts(env, shown)

\* A command that begins has a password of its own.
LEMMA CountingKept ==
  ASSUME Counting, NEW what \in Counts, NEW bound, Begins(what, bound),
         what = "commands" => bound = MaxCommands
  PROVE  Counting' /\ (what = "commands" => used'.commands \in Generated)
<1>1. used' = [used EXCEPT ![what] = used[what] + 1] /\ used[what] < bound
  BY DEF Begins
<1>2. used' \in [Counts -> Nat]
  BY <1>1 DEF Counting
<1>3. CASE what = "commands"
  <2>1. used'["commands"] = used["commands"] + 1 /\ used["commands"] < MaxCommands
    BY <1>1, <1>3 DEF Counting
  <2>2. used["commands"] \in Nat
    BY DEF Counting, Counts
  <2>3. used'["commands"] \in 1..MaxCommands
    BY <2>1, <2>2, CredentialsAssumption
  <2>4. used'["commands"] \in Generated
    BY <2>3, CredentialsAssumption DEF Generated
  <2> QED BY <1>2, <2>3, <2>4, CredentialsAssumption DEF Counting
<1>4. CASE what # "commands"
  <2>1. used'["commands"] = used["commands"]
    BY <1>1, <1>4 DEF Counting, Counts
  <2> QED BY <1>2, <1>4, <2>1 DEF Counting
<1> QED BY <1>3, <1>4
\* The steps that leave alone the file, the command and the password that is shown.
Aside ==
  \/ \E p \in Processes : \/ Start(p) \/ CreateSecretFile(p) \/ WriteSecretFile(p) \/ Stop(p)
                          \/ Login(p) \/ Logout(p) \/ ApiLogout(p)
  \/ Tick

\* A file that is written accepts the password of the command that wrote it.
LEMMA WrittenAccepts ==
  ASSUME PasswordInv, writeEnvFile
  PROVE  /\ env' \in Seq(Line) /\ Accepts(env', cmd.password)
         /\ cmd.name = "reset" => env' = rewriteCredentialLines(cmd.content, cmd.password)
<1> DEFINE password == cmd.password
           content == cmd.content
<1>1. /\ cmd.step = "truncated" /\ cmd.name \in {"init", "install", "reset"}
      /\ content \in Seq(Line) /\ password \in Generated
  BY DEF writeEnvFile, PasswordInv, Running
<1>2. L("hash", password) \in Line /\ L("salt", password) \in Line
      /\ L("plain", password) \in Line /\ L("other", Own) \in Line
  BY <1>1 DEF L, Line, Value
<1>3. env' = CASE cmd.name = "init" -> renderPlainEnvFile(password)
               [] cmd.name = "install" -> renderEnvFileContent(password)
               [] cmd.name = "reset" -> rewriteCredentialLines(content, password)
  BY DEF writeEnvFile
<1> HIDE DEF password, content
<1>4. CASE cmd.name = "init"
  <2>1. env' = <<L("other", Own), L("plain", password)>>
    BY <1>3, <1>4 DEF renderPlainEnvFile
  <2>2. /\ env' \in Seq(Line) /\ DOMAIN env' = {1, 2}
        /\ env'[1] = L("other", Own) /\ env'[2] = L("plain", password)
    BY <1>2, <2>1
  <2>3. Lacks(env', "hash") /\ Lacks(env', "salt") /\ Has(env', "plain", password)
    BY <2>2 DEF Lacks, Has, L
  <2> QED BY <1>1, <1>4, <2>2, <2>3 DEF Accepts, password
<1>5. CASE cmd.name = "install"
  <2>1. env' = <<L("other", Own), L("hash", password), L("salt", password), L("other", Own)>>
    BY <1>3, <1>5 DEF renderEnvFileContent
  <2>2. /\ env' \in Seq(Line) /\ DOMAIN env' = {1, 2, 3, 4}
        /\ env'[1] = L("other", Own) /\ env'[2] = L("hash", password)
        /\ env'[3] = L("salt", password) /\ env'[4] = L("other", Own)
    BY <1>2, <2>1
  <2>3. Has(env', "hash", password) /\ Has(env', "salt", password)
    BY <2>2 DEF Has, L
  <2> QED BY <1>1, <1>5, <2>2, <2>3 DEF Accepts, password
<1>6. CASE cmd.name = "reset"
  <2>1. env' = rewriteCredentialLines(content, password)
    BY <1>3, <1>6
  <2>2. env' \in Seq(Line) /\ Has(env', "hash", password) /\ Has(env', "salt", password)
    BY <1>1, <2>1, ResetResult
  <2> QED BY <1>1, <2>1, <2>2 DEF Accepts, password, content
<1> QED BY <1>1, <1>4, <1>5, <1>6

\* Nothing but the password of the command that wrote the file last is shown.
LEMMA PasswordInvNext ==
  ASSUME PasswordInv, Next
  PROVE  PasswordInv'
<1> DEFINE Command == [name : {NULL, "init", "install", "reset"}, content : Seq(Line),
                       step : {"idle", "ready", "truncated", "written"},
                       password : Generated \cup {NULL}]
<1>1. /\ env \in Seq(Line) \cup {NULL} /\ Counting /\ cmd \in Command
      /\ cmd.step = "idle" => cmd = Idle
      /\ cmd.step # "idle" => cmd.name \in {"init", "install", "reset"} /\ cmd.password \in Generated
      /\ cmd.step = "truncated" => shown = NULL
      /\ cmd.step = "written" => Accepts(env, cmd.password)
      /\ shown # NULL => Accepts(env, shown)
  BY DEF PasswordInv, Running
<1>2. Idle \in Command /\ Idle.step = "idle" /\ <<>> \in Seq(Line)
  BY DEF Idle
<1>3. shown # NULL => env # NULL
  BY <1>1, FilesAssumption DEF Accepts
<1>4. CASE Aside
  <2>1. UNCHANGED <<env, cmd, shown>>
    BY <1>4 DEF Aside, Start, CreateSecretFile, WriteSecretFile, Stop, Login, Logout,
       ApiLogout, Tick, files
  <2>2. UNCHANGED used \/ Begins("starts", MaxStarts) \/ Begins("faults", MaxFaults)
    BY <1>4 DEF Aside, Start, CreateSecretFile, WriteSecretFile, Stop, Login, Logout,
       ApiLogout, Tick, Fault
  <2>3. Counting'
    BY <1>1, <2>2, CountingKept DEF Counting, Counts
  <2> QED BY <1>1, <2>1, <2>3 DEF PasswordInv, Running
<1>5. ASSUME Begins("commands", MaxCommands)
      PROVE  Counting' /\ used'.commands \in Generated
  BY <1>1, <1>5, CountingKept DEF Counts
<1>6. ASSUME NEW name \in {"init", "install", "reset"}, NEW step \in {"ready", "truncated"},
             NEW content \in Seq(Line), NEW password \in Generated,
             cmd' = [name |-> name, step |-> step, content |-> content, password |-> password]
      PROVE  /\ cmd' \in Command /\ cmd'.step = step /\ cmd'.name = name
             /\ cmd'.password = password /\ cmd'.step # "idle" /\ cmd'.step # "written"
             /\ cmd'.name \in {"init", "install", "reset"}
  BY <1>6
<1>7. ASSUME NEW force \in BOOLEAN, RunInit(force) PROVE PasswordInv'
  <2>1. /\ UNCHANGED <<env, shown>> /\ Begins("commands", MaxCommands)
        /\ cmd' = [name |-> "init", step |-> "ready", content |-> <<>>,
                   password |-> used'.commands]
    BY <1>7 DEF RunInit
  <2>2. Counting' /\ used'.commands \in Generated
    BY <1>5, <2>1
  <2>3. /\ cmd' \in Command /\ cmd'.step = "ready" /\ cmd'.name \in {"init", "install", "reset"}
        /\ cmd'.password \in Generated
    BY <1>2, <1>6, <2>1, <2>2
  <2> QED BY <1>1, <2>1, <2>2, <2>3 DEF PasswordInv, Running
<1>8. CASE InstallService
  <2>1. /\ UNCHANGED shown /\ Begins("commands", MaxCommands) /\ env = NULL /\ env' = <<>>
        /\ cmd' = [name |-> "install", step |-> "truncated", content |-> <<>>,
                   password |-> used'.commands]
    BY <1>8 DEF InstallService
  <2>2. Counting' /\ used'.commands \in Generated
    BY <1>5, <2>1
  <2>3. /\ cmd' \in Command /\ cmd'.step = "truncated" /\ cmd'.name \in {"init", "install", "reset"}
        /\ cmd'.password \in Generated
    BY <1>2, <1>6, <2>1, <2>2
  <2>4. shown' = NULL /\ env' \in Seq(Line)
    BY <1>2, <1>3, <2>1
  <2> QED BY <2>2, <2>3, <2>4 DEF PasswordInv, Running
<1>9. CASE ResetPassword
  <2>1. /\ UNCHANGED <<env, shown>> /\ Begins("commands", MaxCommands) /\ env # NULL
        /\ cmd' = [name |-> "reset", step |-> "ready", content |-> env,
                   password |-> used'.commands]
    BY <1>9 DEF ResetPassword
  <2>2. Counting' /\ used'.commands \in Generated
    BY <1>5, <2>1
  <2>3. /\ cmd' \in Command /\ cmd'.step = "ready" /\ cmd'.name \in {"init", "install", "reset"}
        /\ cmd'.password \in Generated
    <3>1. env \in Seq(Line)
      BY <1>1, <2>1
    <3> QED BY <1>6, <2>1, <2>2, <3>1
  <2> QED BY <1>1, <2>1, <2>2, <2>3 DEF PasswordInv, Running
<1>10. ASSUME NEW step \in {"truncated", "written"}, cmd' = [cmd EXCEPT !.step = step]
       PROVE  /\ cmd' \in Command /\ cmd'.step = step /\ cmd'.name = cmd.name
              /\ cmd'.password = cmd.password
  BY <1>1, <1>10
<1>11. CASE TruncateEnvFile
  <2>1. /\ env' = <<>> /\ shown' = NULL /\ UNCHANGED used /\ cmd.step = "ready"
        /\ cmd' = [cmd EXCEPT !.step = "truncated"]
    BY <1>11 DEF TruncateEnvFile
  <2>2. /\ cmd' \in Command /\ cmd'.step = "truncated" /\ cmd'.name = cmd.name
        /\ cmd'.password = cmd.password
    BY <1>10, <2>1
  <2> QED BY <1>1, <1>2, <2>1, <2>2 DEF PasswordInv, Running, Counting
<1>12. CASE writeEnvFile
  <2>1. /\ UNCHANGED <<shown, used>> /\ cmd.step = "truncated"
        /\ cmd' = [cmd EXCEPT !.step = "written"]
    BY <1>12 DEF writeEnvFile
  <2>2. /\ cmd' \in Command /\ cmd'.step = "written" /\ cmd'.name = cmd.name
        /\ cmd'.password = cmd.password
    BY <1>10, <2>1
  <2>3. env' \in Seq(Line) /\ Accepts(env', cmd.password)
    BY <1>12, WrittenAccepts
  <2> QED BY <1>1, <2>1, <2>2, <2>3 DEF PasswordInv, Running, Counting
<1>13. CASE PrintPassword
  <2>1. /\ UNCHANGED <<env, used>> /\ cmd.step = "written" /\ shown' = cmd.password /\ cmd' = Idle
    BY <1>13 DEF PrintPassword, files
  <2>2. cmd'.step = "idle" /\ cmd' \in Command
    BY <1>2, <2>1
  <2> QED BY <1>1, <2>1, <2>2 DEF PasswordInv, Running, Counting
<1>14. CASE KillCommand
  <2>1. UNCHANGED <<env, shown>> /\ cmd' = Idle /\ Begins("faults", MaxFaults)
    BY <1>14 DEF KillCommand, files, Fault
  <2>2. Counting'
    BY <1>1, <2>1, CountingKept DEF Counts
  <2>3. cmd'.step = "idle" /\ cmd' \in Command
    BY <1>2, <2>1
  <2> QED BY <1>1, <2>1, <2>2, <2>3 DEF PasswordInv, Running
<1>15. CASE Edit
  <2>1. /\ UNCHANGED cmd /\ shown' = NULL /\ Begins("edits", MaxEdits) /\ cmd = Idle /\ env # NULL
        /\ \/ \E line \in HandLines : env' = Append(env, line)
           \/ \E i \in DOMAIN env : env' = RemoveAt(env, i)
    BY <1>15 DEF Edit
  <2>2. Counting'
    BY <1>1, <2>1, CountingKept DEF Counts
  <2>3. env' \in Seq(Line)
    <3>1. env \in Seq(Line)
      BY <1>1, <2>1
    <3>2. CASE \E line \in HandLines : env' = Append(env, line)
      BY <3>1, <3>2, FilesAssumption, AppendedLast
    <3>3. ASSUME NEW i \in DOMAIN env, env' = RemoveAt(env, i) PROVE env' \in Seq(Line)
      <4>1. /\ Len(env) \in Nat /\ DOMAIN env = 1..Len(env) /\ i \in 1..Len(env)
        BY <3>1, <3>3
      <4>2. SubSeq(env, 1, i - 1) \in Seq(Line) /\ SubSeq(env, i + 1, Len(env)) \in Seq(Line)
        BY <3>1, <4>1
      <4> QED BY <3>3, <4>2 DEF RemoveAt
    <3> QED BY <2>1, <3>2, <3>3
  <2>4. cmd'.step = "idle" /\ cmd' \in Command
    BY <1>2, <2>1
  <2> QED BY <1>1, <2>1, <2>2, <2>3, <2>4 DEF PasswordInv, Running
<1> QED BY <1>4, <1>7, <1>8, <1>9, <1>11, <1>12, <1>13, <1>14, <1>15 DEF Next, Aside

(* What a command shows is a password the file accepts, and no other.               *)
THEOREM PasswordInvariant == Spec => []PasswordInv
<1>1. Init => PasswordInv
  <2> SUFFICES ASSUME Init PROVE PasswordInv
    OBVIOUS
  <2>1. /\ env \in {NULL} \cup HandFiles /\ cmd = Idle /\ shown = NULL
        /\ used = [starts |-> 0, commands |-> 0, faults |-> 0, edits |-> 0]
    BY DEF Init
  <2>2. Counting
    <3>1. used["commands"] = 0 /\ used \in [Counts -> Nat]
      BY <2>1 DEF Counts
    <3> QED BY <3>1, CredentialsAssumption DEF Counting
  <2>3. Running
    BY <2>1 DEF Running, Idle
  <2> QED BY <2>1, <2>2, <2>3, FilesAssumption DEF PasswordInv
<1>2. PasswordInv /\ [Next]_vars => PasswordInv'
  <2>1. CASE UNCHANGED vars
    BY <2>1 DEF vars, files, PasswordInv, Running, Counting
  <2> QED BY <2>1, PasswordInvNext
<1> QED BY <1>1, <1>2, PTL DEF Spec

(* The password a command printed is the one the next start accepts, whatever was   *)
(* in the file before it (resetPassword.ts, init.ts, installService.ts).            *)
THEOREM ResetEffective == Spec => []ResetTakesEffect
<1>1. PasswordInv => ResetTakesEffect
  BY AcceptedLoads DEF PasswordInv, ResetTakesEffect
<1> QED BY <1>1, PasswordInvariant, PTL

\* The same of the file that a step leaves.
LEMMA LastAgreesThen ==
  (\A key, value : env \in Seq(Line) /\ Has(env, key, value) => Variable(key) = value)'
<1>1. \A key, value : env \in Seq(Line) /\ Has(env, key, value) => Variable(key) = value
  BY LastAgrees
<1> QED BY <1>1, PTL

\* A file that is written holds the pair once, in the place of the first credential.
LEMMA WrittenPair ==
  ASSUME PasswordInv, Next, cmd.name = "reset", cmd.step = "truncated", cmd'.step = "written"
  PROVE  /\ Others(env') = Others(cmd.content)
         /\ Len(env') = Len(Others(env')) + 2
         /\ FirstCredential(env') = FirstCredential(cmd.content)
         /\ Variable("hash")' = cmd.password /\ Variable("salt")' = cmd.password
<1>1. /\ cmd.content \in Seq(Line) /\ cmd.password \in Generated
      /\ cmd \in [name : {NULL, "init", "install", "reset"}, content : Seq(Line),
                  step : {"idle", "ready", "truncated", "written"},
                  password : Generated \cup {NULL}]
  BY DEF PasswordInv, Running
<1>2. writeEnvFile
  <2>1. cmd' # cmd /\ cmd # Idle
    BY DEF Idle
  <2>2. ~KillCommand /\ ~TruncateEnvFile /\ ~PrintPassword
    BY DEF KillCommand, TruncateEnvFile, PrintPassword, Idle
  <2> QED BY <2>1, <2>2 DEF Next, Start, CreateSecretFile, WriteSecretFile, Stop, Login, Logout,
          ApiLogout, RunInit, InstallService, ResetPassword, Edit, Tick
<1>3. env' = rewriteCredentialLines(cmd.content, cmd.password)
  BY <1>2, WrittenAccepts
<1>4. /\ env' \in Seq(Line) /\ Has(env', "hash", cmd.password) /\ Has(env', "salt", cmd.password)
      /\ Others(env') = Others(cmd.content) /\ Len(env') = Len(Others(env')) + 2
      /\ FirstCredential(env') = FirstCredential(cmd.content)
  BY <1>1, <1>3, ResetResult
<1>5. \A key, value : env' \in Seq(Line) /\ Has(env', key, value) => Variable(key)' = value
  BY LastAgreesThen
<1> QED BY <1>4, <1>5

(* A reset rewrites the credential and nothing else (resetPassword.ts).             *)
THEOREM OnlyCredentials == Spec => OnlyCredentialsChange
<1>1. PasswordInv /\ [Next]_vars =>
        [cmd.name = "reset" /\ cmd.step = "truncated" /\ cmd'.step = "written" =>
           /\ Others(env') = Others(cmd.content)
           /\ Len(env') = Len(Others(env')) + 2
           /\ FirstCredential(env') = FirstCredential(cmd.content)
           /\ Variable("hash")' = cmd.password /\ Variable("salt")' = cmd.password]_vars
  BY WrittenPair
<1> QED BY <1>1, PasswordInvariant, PTL DEF Spec, OnlyCredentialsChange

===================================================================================
