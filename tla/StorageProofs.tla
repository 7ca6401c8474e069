------------------------------ MODULE StorageProofs ------------------------------
(* TLAPS proofs about Storage, for every set of rows, migrations, servers and      *)
(* ports, and any number of commands, starts and faults.                           *)
EXTENDS Storage, TLAPS

-----------------------------------------------------------------------------------
(* The invariant. *)

DiskTyped == DOMAIN disk \subseteq Name /\ disk \in [DOMAIN disk -> Content]
ServersTyped ==
  srv \in [Servers -> [phase : {"down", "opened", "migrated", "up"},
                       known : SUBSET Migrations, port : 0..PortCount]]
RestoreTyped ==
  /\ restore \in [step : RestoreSteps, src : Name, aside : Name, moved : BOOLEAN,
                  port : 1..(PortCount + 1), force : BOOLEAN, missed : BOOLEAN,
                  verified : Content \cup {NULL}]
  /\ restore.step = "probe" => restore.port \in 1..PortCount
CommandsTyped ==
  /\ backup \in [step : {"idle", "writing"}, name : Name,
                 rows : SUBSET Rows, applied : SUBSET Migrations]
  /\ RestoreTyped
  /\ status \in [step : StatusSteps, port : 1..PortCount, answering : BOOLEAN,
                 missed : BOOLEAN]
FlatTyped ==
  /\ wal \in Journal \cup {NULL} /\ nextId \in Nat /\ now \in 0..MaxNow
  /\ committed \subseteq Rows /\ clobbered \subseteq Rows
ObservedTyped ==
  /\ busy \in {{}, Foreign} /\ watched \subseteq Servers /\ disturbed \in BOOLEAN
  /\ attended \in [all : SUBSET Servers, any : BOOLEAN] /\ stored \subseteq Rows
Types == DiskTyped /\ ServersTyped /\ CommandsTyped /\ FlatTyped /\ ObservedTyped

\* What a backup is writing is a part, and holds no rows yet.
BackupIsPart ==
  backup.step = "writing" =>
    /\ Exists(backup.name) /\ backup.name.kind = "backup"
    /\ ~disk[backup.name].whole /\ disk[backup.name].rows = {}

\* A file moved aside is given a name of its own kind.
AsideIsNamed ==
  restore.step \in {"move"} \cup Replacing => restore.aside.kind = "aside"

\* A server has a file open; while a restore replaces it no server is there.
OpenHasFile == Open # {} => Exists(Live)
ReplacesClosed == restore.step \in Replacing => Open = {}
\* From the move to the copy there is no live file, from the removal on no journal.
MovedIsGone == restore.step \in {"unlink", "copy"} => ~Exists(Live)
JournalIsGone == restore.step \in {"copy", "copying"} => wal = NULL
CopyHasFiles ==
  restore.step = "copying" => Exists(Live) /\ Exists(restore.src) /\ restore.src # Live
\* The journal is the live file's, and holds at least its rows.
JournalExtends ==
  Exists(Live) /\ wal # NULL => wal.of = disk[Live].id /\ disk[Live].rows \subseteq wal.rows
FilesFit ==
  ~disturbed => /\ OpenHasFile /\ ReplacesClosed /\ MovedIsGone /\ JournalIsGone
                /\ CopyHasFiles /\ JournalExtends

IInv == Types /\ BackupIsPart /\ AsideIsNamed /\ FilesFit

-----------------------------------------------------------------------------------
(* What the assumptions say of ports and of the clock. *)
LEMMA Bounds ==
  /\ PortCount \in Nat /\ 1 \in 1..PortCount /\ 1 \in 1..(PortCount + 1)
  /\ MaxNow \in Nat /\ 0 \in 0..MaxNow
BY StorageAssumption

(* Writing a file anew: the name is added, every other file is as it was.          *)
LEMMA WrittenTyped ==
  ASSUME DiskTyped, NEW name \in Name, NEW file \in Content
  PROVE  /\ Written(name, file) \in [DOMAIN disk \cup {name} -> Content]
         /\ DOMAIN Written(name, file) = DOMAIN disk \cup {name}
         /\ DOMAIN Written(name, file) \subseteq Name
         /\ Written(name, file)[name] = file
         /\ \A other \in DOMAIN disk : other # name => Written(name, file)[other] = disk[other]
BY DEF Written, DiskTyped

-----------------------------------------------------------------------------------
(* The database starts out whole, closed and without a journal. *)
LEMMA InitInv == Init => IInv
<1> SUFFICES ASSUME Init PROVE IInv
  OBVIOUS
<1> USE DEF Live, BackupName, AsideName
<1>1. Types
  <2>disk. DiskTyped
    <3>1. PICK old \in BOOLEAN :
            disk = [name \in {BackupName(0)} \cup IF old THEN {Live} ELSE {} |->
                      File(IF name = Live THEN 0 ELSE 1, {}, Installed, TRUE)]
      BY DEF Init
    <3>2. BackupName(0) \in Name /\ Live \in Name
      BY StorageAssumption DEF Name
    <3>3. \A id \in Nat : File(id, {}, Installed, TRUE) \in Content
      BY StorageAssumption DEF File, Content
    <3> QED BY <3>1, <3>2, <3>3 DEF DiskTyped
  <2>servers. ServersTyped
    BY StorageAssumption DEF Init, ServersTyped, Down
  <2>commands. CommandsTyped
    BY StorageAssumption DEF Init, CommandsTyped, RestoreTyped, Name, NoRestore, NoStatus,
       RestoreSteps, StatusSteps
  <2>flat. FlatTyped
    BY StorageAssumption DEF Init, FlatTyped
  <2>observed. ObservedTyped
    BY DEF Init, ObservedTyped, Unattended
  <2> QED BY <2>disk, <2>servers, <2>commands, <2>flat, <2>observed DEF Types
<1>2. BackupIsPart
  BY DEF Init, BackupIsPart
<1>3. AsideIsNamed
  BY DEF Init, AsideIsNamed, NoRestore, Replacing
<1>4. FilesFit
  BY DEF Init, FilesFit, OpenHasFile, ReplacesClosed, MovedIsGone, JournalIsGone,
     CopyHasFiles, JournalExtends, Open, Down, NoRestore, Replacing
<1> QED BY <1>1, <1>2, <1>3, <1>4 DEF IInv

-----------------------------------------------------------------------------------
(* Types. *)

(* What the observers see stays what it is. *)
LEMMA ObservesTyped ==
  ASSUME Types, DiskTyped', ServersTyped', Observe
  PROVE  ObservedTyped'
<1>1. busy' \in {{}, Foreign}
  BY DEF Types, ObservedTyped, Observe
<1>2. Running' \subseteq Servers
  BY DEF Running
<1>3. watched' \subseteq Servers
  BY <1>2 DEF Types, ObservedTyped, Observe
<1>4. attended' \in [all : SUBSET Servers, any : BOOLEAN]
  <2>1. attended \in [all : SUBSET Servers, any : BOOLEAN]
    BY DEF Types, ObservedTyped
  <2>2. CASE ~Looking'
    BY <2>2 DEF Observe, Unattended
  <2>3. CASE Looking'
    <3>1. attended' = [all |-> IF Looking THEN attended.all \cap Running' ELSE Running',
                       any |-> attended.any \/ Running' # {}]
      BY <2>3 DEF Observe
    <3> QED BY <2>1, <3>1, <1>2
  <2> QED BY <2>2, <2>3
<1>5. disturbed' \in BOOLEAN
  BY DEF Observe
<1>6. stored' \subseteq Rows
  <2>1. Live \in DOMAIN disk' => disk'[Live].rows \subseteq Rows
    BY DEF DiskTyped, Content
  <2> QED BY <2>1 DEF Types, ObservedTyped, Observe
<1> QED BY <1>1, <1>3, <1>4, <1>5, <1>6 DEF ObservedTyped

(* What a connection reads, whenever the database is there to be read. *)
LEMMA CurrentTyped ==
  ASSUME Types, Exists(Live)
  PROVE  Current.rows \subseteq Rows /\ Current.applied \subseteq Migrations
BY DEF Types, DiskTyped, FlatTyped, Current, Exists, Content, Journal

(* A commit makes a journal. *)
LEMMA CommitTyped ==
  ASSUME Types, Exists(Live), NEW rows \in SUBSET Rows, NEW applied \in SUBSET Migrations,
         Commit(rows, applied)
  PROVE  wal' \in Journal /\ wal' # NULL
BY NoJournalAssumption DEF Types, DiskTyped, Exists, Content, Commit, Journal

(* A checkpoint changes what the live file holds, and nothing else about it. *)
LEMMA CheckpointTyped ==
  ASSUME Types, Exists(Live), wal # NULL
  PROVE  /\ Checkpointed \in [DOMAIN disk -> Content] /\ DOMAIN Checkpointed = DOMAIN disk
         /\ Checkpointed[Live].id = disk[Live].id
         /\ Checkpointed[Live].whole = disk[Live].whole
         /\ Checkpointed[Live].rows = wal.rows /\ Checkpointed[Live].applied = wal.applied
         /\ \A name \in DOMAIN disk : name # Live => Checkpointed[name] = disk[name]
<1> DEFINE file == File(disk[Live].id, wal.rows, wal.applied, disk[Live].whole)
<1>1. disk[Live] \in Content /\ wal \in Journal
  BY DEF Types, DiskTyped, FlatTyped, Exists
<1>2. file \in Content
  BY <1>1 DEF Content, Journal, File
<1>3. Checkpointed = [disk EXCEPT ![Live] = file]
  BY DEF Checkpointed
<1> HIDE DEF file
<1>4. /\ Checkpointed \in [DOMAIN disk -> Content] /\ DOMAIN Checkpointed = DOMAIN disk
      /\ Checkpointed[Live] = file
      /\ \A name \in DOMAIN disk : name # Live => Checkpointed[name] = disk[name]
  BY <1>2, <1>3 DEF Types, DiskTyped, Exists
<1> QED BY <1>4 DEF file, File

(* The last connection to close leaves files of the same types. *)
LEMMA DisconnectTyped ==
  ASSUME Types, Exists(Live), NEW p \in Servers, Disconnect(p)
  PROVE  DiskTyped' /\ wal' \in Journal \cup {NULL}
<1>1. CASE disk' = Checkpointed /\ wal' = NULL /\ wal # NULL
  BY <1>1, CheckpointTyped DEF Types, DiskTyped
<1>2. CASE UNCHANGED <<disk, wal>>
  BY <1>2 DEF Types, DiskTyped, FlatTyped
<1> QED BY <1>1, <1>2 DEF Disconnect

TypedStep == DiskTyped' /\ ServersTyped' /\ CommandsTyped' /\ FlatTyped'

(* A step that leaves a variable alone leaves its type alone. *)
LEMMA DiskKeepsType == ASSUME Types, UNCHANGED disk PROVE DiskTyped'
BY DEF Types, DiskTyped
(* The same for the servers, *)
LEMMA ServersKeepType == ASSUME Types, UNCHANGED srv PROVE ServersTyped'
BY DEF Types, ServersTyped
(* the commands, *)
LEMMA CommandsKeepType == ASSUME Types, UNCHANGED commands PROVE CommandsTyped'
BY DEF Types, CommandsTyped, RestoreTyped, commands
(* the restore, *)
LEMMA RestoreKeepsType == ASSUME Types, UNCHANGED restore PROVE RestoreTyped'
BY DEF Types, CommandsTyped, RestoreTyped
(* and everything else. *)
LEMMA FlatKeepsType == ASSUME Types, UNCHANGED <<wal, nextId, now, history>> PROVE FlatTyped'
BY DEF Types, FlatTyped, history

(* A file written is a file. *)
LEMMA WritesTyped ==
  ASSUME Types, NEW name \in Name, NEW file \in Content, disk' = Written(name, file)
  PROVE  DiskTyped'
<1>1. /\ disk' \in [DOMAIN disk \cup {name} -> Content]
      /\ DOMAIN disk' = DOMAIN disk \cup {name} /\ DOMAIN disk' \subseteq Name
  BY WrittenTyped DEF Types
<1> QED BY <1>1 DEF DiskTyped

(* Opening creates the file when there is none, and takes up its journal. *)
LEMMA OpenDatabaseTyped ==
  ASSUME Types, NEW p \in Servers, OpenDatabase(p)
  PROVE  TypedStep
<1>1. CommandsTyped'
  BY CommandsKeepType DEF OpenDatabase
<1>2. ServersTyped'
  <2>1. (IF Exists(Live) THEN Current.applied ELSE {}) \subseteq Migrations
    BY CurrentTyped
  <2>2. CASE UNCHANGED srv
    BY <2>2, ServersKeepType
  <2>3. CASE srv' = [srv EXCEPT ![p].phase = "opened",
                                ![p].known = IF Exists(Live) THEN Current.applied ELSE {}]
    BY <2>1, <2>3 DEF Types, ServersTyped
  <2> QED BY <2>2, <2>3 DEF OpenDatabase
<1>3. DiskTyped' /\ FlatTyped'
  <2>1. CASE Exists(Live)
    BY <2>1, DiskKeepsType, FlatKeepsType DEF OpenDatabase
  <2>2. CASE ~Exists(Live)
    <3>1. File(nextId, {}, {}, TRUE) \in Content /\ Live \in Name
      BY StorageAssumption DEF Types, FlatTyped, File, Content, Live, Name
    <3>2. disk' = Written(Live, File(nextId, {}, {}, TRUE))
      BY <2>2 DEF OpenDatabase
    <3>3. DiskTyped'
      BY <3>1, <3>2, WritesTyped
    <3>4. FlatTyped'
      BY <2>2 DEF OpenDatabase, FlatTyped, Types, history
    <3> QED BY <3>3, <3>4
  <2> QED BY <2>1, <2>2
<1> QED BY <1>1, <1>2, <1>3 DEF TypedStep

(* The migrations a process applies are those of its release. *)
LEMMA ApplyMigrationsTyped ==
  ASSUME Types, NEW p \in Servers, OpenHasFile, ApplyMigrations(p)
  PROVE  TypedStep
<1>1. CommandsTyped' /\ DiskTyped'
  BY CommandsKeepType, DiskKeepsType DEF ApplyMigrations
<1>2. Exists(Live)
  BY DEF OpenHasFile, Open, ApplyMigrations, At
<1>3. ServersTyped'
  <2>1. Down \in [phase : {"down", "opened", "migrated", "up"},
                  known : SUBSET Migrations, port : 0..PortCount]
    BY StorageAssumption DEF Down
  <2>2. \/ srv' = [srv EXCEPT ![p].phase = "migrated"]
        \/ srv' = [srv EXCEPT ![p] = Down]
    BY DEF ApplyMigrations
  <2> QED BY <2>1, <2>2 DEF Types, ServersTyped
<1>4. wal' \in Journal \cup {NULL}
  <2>1. CASE UNCHANGED wal
    BY <2>1 DEF Types, FlatTyped
  <2>2. CASE Commit(Current.rows, Current.applied \cup Pending(srv[p].known))
    <3>1. Pending(srv[p].known) \subseteq Migrations
      BY DEF Pending
    <3> QED BY <1>2, <2>2, <3>1, CurrentTyped, CommitTyped
  <2> QED BY <2>1, <2>2 DEF ApplyMigrations
<1>5. FlatTyped'
  BY <1>4 DEF Types, FlatTyped, ApplyMigrations, history
<1> QED BY <1>1, <1>3, <1>5 DEF TypedStep

(* A bound port is one of the candidates. *)
LEMMA BindPortTyped ==
  ASSUME Types, NEW p \in Servers, OpenHasFile, BindPort(p)
  PROVE  TypedStep
<1>1. CommandsTyped'
  BY CommandsKeepType DEF BindPort
<1>2. Exists(Live)
  BY DEF OpenHasFile, Open, BindPort, At
<1>3. CASE UNCHANGED <<disk, wal>>
           /\ \E port \in 1..PortCount :
                srv' = [srv EXCEPT ![p].phase = "up", ![p].port = port]
  <2>1. ServersTyped'
    <3>1. PICK port \in 1..PortCount :
            srv' = [srv EXCEPT ![p].phase = "up", ![p].port = port]
      BY <1>3
    <3>2. port \in 0..PortCount
      BY StorageAssumption
    <3> QED BY <3>1, <3>2 DEF Types, ServersTyped
  <2>2. DiskTyped' /\ FlatTyped'
    BY <1>3, DiskKeepsType, FlatKeepsType DEF BindPort
  <2> QED BY <1>1, <2>1, <2>2 DEF TypedStep
<1>4. CASE Disconnect(p) /\ srv' = [srv EXCEPT ![p] = Down]
  <2>1. ServersTyped'
    BY <1>4, StorageAssumption DEF Types, ServersTyped, Down
  <2>2. DiskTyped' /\ wal' \in Journal \cup {NULL}
    BY <1>2, <1>4, DisconnectTyped
  <2>3. FlatTyped'
    BY <2>2 DEF Types, FlatTyped, BindPort, history
  <2> QED BY <1>1, <2>1, <2>2, <2>3 DEF TypedStep
<1> QED BY <1>3, <1>4 DEF BindPort

(* A request adds a row to the journal. *)
LEMMA RecordTyped ==
  ASSUME Types, NEW p \in Servers, NEW r \in Rows, OpenHasFile, Record(p, r)
  PROVE  TypedStep
<1>1. CommandsTyped' /\ DiskTyped' /\ ServersTyped'
  BY CommandsKeepType, DiskKeepsType, ServersKeepType DEF Record
<1>2. Exists(Live)
  BY DEF OpenHasFile, Open, Record, At
<1>3. wal' \in Journal
  BY <1>2, CurrentTyped, CommitTyped DEF Record
<1>4. FlatTyped'
  BY <1>3 DEF Types, FlatTyped, Record
<1> QED BY <1>1, <1>4 DEF TypedStep

(* Closing, checkpointing or dying leaves files and servers well formed. *)
LEMMA CloseTyped ==
  ASSUME Types, NEW p \in Servers, OpenHasFile, Close(p) \/ Kill(p) \/ Checkpoint
  PROVE  TypedStep
<1>1. CommandsTyped'
  BY CommandsKeepType DEF Close, Kill, Checkpoint
<1>2. ServersTyped'
  <2>1. UNCHANGED srv \/ srv' = [srv EXCEPT ![p] = Down]
    BY DEF Close, Kill, Checkpoint
  <2> QED BY <2>1, StorageAssumption DEF Types, ServersTyped, Down
<1>3. DiskTyped' /\ wal' \in Journal \cup {NULL}
  <2>1. CASE Close(p)
    <3>1. Exists(Live)
      BY <2>1 DEF OpenHasFile, Open, Close, At
    <3> QED BY <2>1, <3>1, DisconnectTyped DEF Close
  <2>2. CASE Kill(p)
    BY <2>2, DiskKeepsType DEF Kill, Types, FlatTyped
  <2>3. CASE Checkpoint
    <3>1. Exists(Live)
      BY <2>3 DEF OpenHasFile, Checkpoint
    <3> QED BY <2>3, <3>1, CheckpointTyped DEF Checkpoint, Types, DiskTyped, FlatTyped
  <2> QED BY <2>1, <2>2, <2>3
<1>4. FlatTyped'
  BY <1>3 DEF Types, FlatTyped, Close, Kill, Checkpoint, history
<1> QED BY <1>1, <1>2, <1>3, <1>4 DEF TypedStep

(* So does each step of a backup, *)
LEMMA BackupTyped ==
  ASSUME Types, BackupIsPart, BackupBegin \/ BackupEnd \/ BackupCrash
  PROVE  TypedStep
<1>1. ServersTyped'
  BY ServersKeepType DEF BackupBegin, BackupEnd, BackupCrash
<1>2. CASE BackupBegin
  <2> DEFINE name == BackupName(now)
             file == File(nextId, {}, Current.applied, FALSE)
  <2>1. name \in Name /\ Current.rows \subseteq Rows /\ Current.applied \subseteq Migrations
    BY <1>2, CurrentTyped DEF BackupBegin, BackupName, Name, Types, FlatTyped
  <2>2. file \in Content
    BY <2>1 DEF File, Content, Types, FlatTyped
  <2>3. disk' = Written(name, file)
    BY <1>2 DEF BackupBegin
  <2> HIDE DEF file
  <2>4. DiskTyped'
    BY <2>1, <2>2, <2>3, WritesTyped
  <2>5. CommandsTyped'
    BY <1>2, <2>1, RestoreKeepsType DEF BackupBegin, Types, CommandsTyped
  <2>6. FlatTyped'
    BY <1>2 DEF BackupBegin, Types, FlatTyped, history
  <2> QED BY <1>1, <2>4, <2>5, <2>6 DEF TypedStep
<1>3. CASE BackupEnd
  <2> DEFINE file == File(disk[backup.name].id, backup.rows, backup.applied, TRUE)
  <2>1. file \in Content
    BY <1>3 DEF BackupEnd, BackupIsPart, Types, DiskTyped, CommandsTyped, File, Content, Exists
  <2>2. disk' = [disk EXCEPT ![backup.name] = file]
    BY <1>3 DEF BackupEnd
  <2> HIDE DEF file
  <2>3. DiskTyped'
    BY <2>1, <2>2 DEF Types, DiskTyped
  <2>4. CommandsTyped'
    BY <1>3, RestoreKeepsType DEF BackupEnd, Types, CommandsTyped
  <2>5. FlatTyped'
    BY <1>3, FlatKeepsType DEF BackupEnd
  <2> QED BY <1>1, <2>3, <2>4, <2>5 DEF TypedStep
<1>4. CASE BackupCrash
  <2>1. CommandsTyped'
    BY <1>4, RestoreKeepsType DEF BackupCrash, Types, CommandsTyped
  <2> QED BY <1>1, <1>4, <2>1, DiskKeepsType, FlatKeepsType DEF BackupCrash, TypedStep
<1> QED BY <1>2, <1>3, <1>4

\* The steps of restore that only move it on.
Moves ==
  \/ \E src \in DOMAIN disk, force \in BOOLEAN : RestoreBegin(src, force)
  \/ Probe \/ Verify \/ RestoreCrash

(* each step of a restore before it touches the database, *)
LEMMA MovesTyped ==
  ASSUME Types, Moves
  PROVE  TypedStep
<1>1. UNCHANGED <<disk, srv, wal, nextId, now, history>>
  BY DEF Moves, RestoreBegin, Probe, Verify, RestoreCrash
<1>2. CommandsTyped'
  <2>1. UNCHANGED <<backup, status>>
    BY DEF Moves, RestoreBegin, Probe, Verify, RestoreCrash
  <2>2. RestoreTyped'
    <3> USE DEF Types, CommandsTyped, RestoreTyped, RestoreSteps, Goto
    <3>1. ASSUME NEW src \in DOMAIN disk, NEW force \in BOOLEAN, RestoreBegin(src, force)
          PROVE  RestoreTyped'
      <4>1. src \in Name /\ Live \in Name /\ 1 \in 1..(PortCount + 1)
        BY StorageAssumption DEF DiskTyped, Live, Name
      <4>2. restore' = [step |-> IF force THEN "verify" ELSE "probe", src |-> src, aside |-> Live,
                        moved |-> FALSE, port |-> 1, force |-> force, missed |-> FALSE,
                        verified |-> NULL]
        BY <3>1 DEF RestoreBegin, NoRestore
      <4> QED BY <4>1, <4>2, StorageAssumption
    <3>2. CASE Probe
      <4> DEFINE next == NextProbe(restore.port)
                 step == IF next > PortCount THEN "verify" ELSE "probe"
      <4>1. /\ next \in 1..(PortCount + 1) /\ step \in RestoreSteps
            /\ step = "probe" => next \in 1..PortCount
        BY <3>2, StorageAssumption DEF NextProbe, Probe, Restoring
      <4>2. \/ restore' = [restore EXCEPT !.step = "idle"]
            \/ restore' = [restore EXCEPT !.port = next, !.step = step, !.missed = TRUE]
            \/ restore' = [restore EXCEPT !.port = next, !.step = step]
        BY <3>2 DEF Probe
      <4> HIDE DEF next, step
      <4> QED BY <4>1, <4>2, ZenonT(60)
    <3>3. CASE Verify
      <4>1. AsideName(now) \in Name
        BY DEF AsideName, Name, FlatTyped
      <4>2. Exists(restore.src) => disk[restore.src] \in Content
        BY DEF DiskTyped, Exists
      <4>3. \/ restore' = [restore EXCEPT !.step = "idle"]
            \/ /\ Exists(restore.src)
               /\ restore' = [restore EXCEPT !.step = "move", !.aside = AsideName(now),
                                             !.verified = disk[restore.src]]
        BY <3>3 DEF Verify
      <4> QED BY <4>1, <4>2, <4>3, ZenonT(60)
    <3>4. CASE RestoreCrash
      BY <3>4 DEF RestoreCrash
    <3> QED BY <3>1, <3>2, <3>3, <3>4 DEF Moves
  <2> QED BY <2>1, <2>2 DEF Types, CommandsTyped
<1> QED BY <1>1, <1>2, DiskKeepsType, ServersKeepType, FlatKeepsType DEF TypedStep

(* A step of restore, in the record's other fields. *)
LEMMA GotoTyped ==
  ASSUME Types, NEW step \in RestoreSteps \ {"probe"}, Goto(step), UNCHANGED <<backup, status>>
  PROVE  CommandsTyped'
BY DEF Types, CommandsTyped, RestoreTyped, Goto

(* each step after that, *)
LEMMA ReplaceTyped ==
  ASSUME Types, FilesFit, MoveAside \/ RemoveSidecars \/ CopyBegin \/ CopyEnd
  PROVE  TypedStep
<1> USE DEF Replacing, RestoreSteps
<1>1. ServersTyped'
  BY ServersKeepType DEF MoveAside, RemoveSidecars, CopyBegin, CopyEnd
<1>2. CASE MoveAside
  <2>1. CommandsTyped'
    <3>1. restore' = [restore EXCEPT !.step = "unlink", !.moved = Exists(Live)]
          /\ Exists(Live) \in BOOLEAN /\ UNCHANGED <<backup, status>>
      BY <1>2 DEF MoveAside, Exists
    <3> HIDE DEF Exists
    <3> QED BY <3>1 DEF Types, CommandsTyped, RestoreTyped
  <2>2. restore.aside \in Name
    BY DEF Types, CommandsTyped, RestoreTyped
  <2>3. DiskTyped'
    <3>1. CASE Exists(Live)
      <4>1. disk[Live] \in Content /\ \A name \in DOMAIN disk : disk[name] \in Content
        BY <3>1 DEF Types, DiskTyped, Exists
      <4>2. \A name \in (DOMAIN disk \cup {restore.aside}) \ {Live} :
              (IF name = restore.aside THEN disk[Live] ELSE disk[name]) \in Content
        BY <4>1
      <4>3. Renamed \in [(DOMAIN disk \cup {restore.aside}) \ {Live} -> Content]
        BY <4>2 DEF Renamed
      <4>4. disk' = Renamed /\ DOMAIN Renamed \subseteq Name
        BY <1>2, <3>1, <2>2, <4>3 DEF MoveAside, Types, DiskTyped
      <4> QED BY <4>3, <4>4 DEF DiskTyped
    <3>2. CASE ~Exists(Live)
      BY <1>2, <3>2, DiskKeepsType DEF MoveAside
    <3> QED BY <3>1, <3>2
  <2>4. clobbered' \subseteq Rows
    <3>1. Exists(restore.aside) => disk[restore.aside].rows \subseteq Rows
      BY DEF Types, DiskTyped, Exists, Content
    <3> QED BY <1>2, <3>1 DEF MoveAside, Types, FlatTyped
  <2>5. FlatTyped'
    BY <1>2, <2>4 DEF MoveAside, Types, FlatTyped
  <2> QED BY <1>1, <2>1, <2>3, <2>5 DEF TypedStep
<1>3. CASE RemoveSidecars
  <2>1. CommandsTyped'
    BY <1>3, GotoTyped DEF RemoveSidecars
  <2>2. FlatTyped'
    BY <1>3 DEF RemoveSidecars, Unlinked, Types, FlatTyped, history
  <2> QED BY <1>1, <1>3, <2>1, <2>2, DiskKeepsType DEF RemoveSidecars, TypedStep
<1>4. CASE CopyBegin
  <2>1. CommandsTyped'
    BY <1>4, GotoTyped DEF CopyBegin
  <2>2. DiskTyped'
    <3>1. CASE Exists(restore.src)
      <4> DEFINE file == File(nextId, {}, disk[restore.src].applied, FALSE)
      <4>1. file \in Content
        BY <3>1 DEF Types, DiskTyped, FlatTyped, Exists, Content, File
      <4>2. disk' = Written(Live, file)
        BY <1>4, <3>1 DEF CopyBegin
      <4>3. Live \in Name
        BY StorageAssumption DEF Live, Name
      <4> HIDE DEF file
      <4> QED BY <4>1, <4>2, <4>3, WritesTyped
    <3>2. CASE ~Exists(restore.src)
      BY <1>4, <3>2, DiskKeepsType DEF CopyBegin
    <3> QED BY <3>1, <3>2
  <2>3. FlatTyped'
    <3>1. UNCHANGED <<wal, now, history>> /\ (nextId' = nextId + 1 \/ nextId' = nextId)
      BY <1>4 DEF CopyBegin
    <3> QED BY <3>1 DEF Types, FlatTyped, history
  <2> QED BY <1>1, <2>1, <2>2, <2>3 DEF TypedStep
<1>5. CASE CopyEnd
  <2>1. CommandsTyped' /\ FlatTyped'
    BY <1>5, GotoTyped, FlatKeepsType DEF CopyEnd
  <2>2. Exists(Live) /\ Exists(restore.src)
    BY <1>5 DEF CopyEnd, Observe, FilesFit, CopyHasFiles, Restoring
  <2> DEFINE file == Copied(disk[restore.src])
  <2>3. file \in Content
    BY <2>2 DEF Types, DiskTyped, Exists, Content, Copied, File
  <2>4. disk' = [disk EXCEPT ![Live] = file]
    BY <1>5 DEF CopyEnd
  <2> HIDE DEF file
  <2>5. DiskTyped'
    BY <2>3, <2>4 DEF Types, DiskTyped
  <2> QED BY <1>1, <2>1, <2>5 DEF TypedStep
<1> QED BY <1>2, <1>3, <1>4, <1>5

\* The steps of status, and the passing of time: no file changes.
Watches == StatusBegin \/ StatusProbe \/ Inspect \/ Tick

(* and each step of status. *)
LEMMA WatchesTyped ==
  ASSUME Types, Watches
  PROVE  TypedStep
<1>1. UNCHANGED <<disk, wal, nextId, srv, backup, restore, history>>
  BY DEF Watches, StatusBegin, StatusProbe, Inspect, Tick, commands
<1>2. now' \in 0..MaxNow
  <2>1. UNCHANGED now \/ (now < MaxNow /\ now' = now + 1)
    BY DEF Watches, StatusBegin, StatusProbe, Inspect, Tick
  <2> QED BY <2>1, Bounds DEF Types, FlatTyped
<1>3. status' \in [step : StatusSteps, port : 1..PortCount, answering : BOOLEAN,
                   missed : BOOLEAN]
  <2> USE DEF Types, CommandsTyped, StatusSteps
  <2>idle. \A step \in StatusSteps :
             [step |-> step, port |-> 1, answering |-> FALSE, missed |-> FALSE]
               \in [step : StatusSteps, port : 1..PortCount, answering : BOOLEAN,
                    missed : BOOLEAN]
    BY Bounds
  <2>begin. CASE StatusBegin
    BY <2>idle, <2>begin DEF StatusBegin, NoStatus
  <2>probe. CASE StatusProbe
    <3> DEFINE next == NextProbe(status.port)
    <3>1. status.port \in 1..PortCount
      OBVIOUS
    <3>2. next = status.port + 1
      BY DEF NextProbe
    <3>3. (next > PortCount \/ next \in 1..PortCount) /\ 1 \in 1..PortCount
      <4> HIDE DEF next, Types
      <4> QED BY <3>1, <3>2, Bounds
    <3>4. \/ status' = [status EXCEPT !.step = "inspect", !.port = 1, !.answering = TRUE]
          \/ status' = [status EXCEPT !.step = "inspect", !.port = 1]
          \/ next \in 1..PortCount /\ status' = [status EXCEPT !.port = next]
          \/ status' = [status EXCEPT !.step = "inspect", !.port = 1, !.missed = TRUE]
          \/ next \in 1..PortCount /\ status' = [status EXCEPT !.port = next, !.missed = TRUE]
      BY <2>probe, <3>3 DEF StatusProbe
    <3> HIDE DEF next
    <3> QED BY <3>3, <3>4
  <2>inspect. CASE Inspect
    BY <2>idle, <2>inspect DEF Inspect, NoStatus
  <2>tick. CASE Tick
    BY <2>tick DEF Tick, commands
  <2> QED BY <2>begin, <2>probe, <2>inspect, <2>tick DEF Watches
<1>4. CommandsTyped'
  BY <1>1, <1>3, RestoreKeepsType DEF Types, CommandsTyped
<1>5. FlatTyped'
  BY <1>1, <1>2 DEF Types, FlatTyped, history
<1> QED BY <1>1, <1>4, <1>5, DiskKeepsType, ServersKeepType DEF TypedStep

-----------------------------------------------------------------------------------
(* Effects of the steps on the files. *)

\* The steps of a server that has the database open.
ServerStep(p) ==
  \/ ApplyMigrations(p) \/ BindPort(p) \/ Close(p) \/ Kill(p) \/ Checkpoint
  \/ \E r \in Rows : Record(p, r)

NextDisjuncts ==
  \/ \E p \in Servers : OpenDatabase(p) \/ ServerStep(p)
  \/ BackupBegin \/ BackupEnd \/ BackupCrash
  \/ Moves \/ MoveAside \/ RemoveSidecars \/ CopyBegin \/ CopyEnd \/ Watches

(* The next-state relation, by groups.  A checkpoint needs a server. *)
LEMMA NextByGroups == ASSUME Next PROVE NextDisjuncts
<1>1. Checkpoint => \E p \in Servers : Checkpoint
  BY DEF Checkpoint, Open
<1> QED BY <1>1 DEF Next, NextDisjuncts, ServerStep, Moves, Watches

(* Each is taken while nothing is disturbed, and is observed. *)
LEMMA NextObserves == ASSUME Next PROVE Observe /\ ~disturbed
BY DEF Next, OpenDatabase, ApplyMigrations, BindPort, Close, Kill, Record, Checkpoint,
   BackupBegin, BackupEnd, BackupCrash, RestoreBegin, Probe, Verify, MoveAside,
   RemoveSidecars, CopyBegin, CopyEnd, RestoreCrash, StatusBegin, StatusProbe, Inspect,
   Tick, Observe

(* The live file keeps its identity under a server: the journal stays, grows by a  *)
(* commit, or goes into the file.                                                  *)
LEMMA ServerEffect ==
  ASSUME IInv, NEW p \in Servers, ServerStep(p), ~disturbed
  PROVE  /\ UNCHANGED <<commands, nextId, clobbered>> /\ Open # {} /\ Exists(Live)
         /\ \/ UNCHANGED <<disk, wal>>
            \/ /\ UNCHANGED disk
               /\ \E rows \in SUBSET Rows, applied \in SUBSET Migrations :
                    /\ Commit(rows, applied)
                    /\ Current.rows \subseteq rows /\ Current.applied \subseteq applied
            \/ wal # NULL /\ disk' = Checkpointed /\ (UNCHANGED wal \/ wal' = NULL)
<1>1. UNCHANGED <<commands, nextId, clobbered>>
  BY DEF ServerStep, ApplyMigrations, BindPort, Close, Kill, Checkpoint, Record, history
<1>2. Open # {}
  BY DEF ServerStep, ApplyMigrations, BindPort, Close, Kill, Checkpoint, Record, Open, At
<1>3. Exists(Live)
  BY <1>2 DEF IInv, FilesFit, OpenHasFile
<1>4. /\ Current.rows \subseteq Rows /\ Current.applied \subseteq Migrations
      /\ Pending(srv[p].known) \subseteq Migrations
  BY <1>3, CurrentTyped DEF IInv, Pending
<1>5. CASE ApplyMigrations(p)
  <2>1. CASE UNCHANGED wal
    BY <1>1, <1>2, <1>3, <1>5, <2>1 DEF ApplyMigrations
  <2>2. CASE Commit(Current.rows, Current.applied \cup Pending(srv[p].known))
    <3>1. Current.applied \cup Pending(srv[p].known) \in SUBSET Migrations
      BY <1>4
    <3>2. \E rows \in SUBSET Rows, applied \in SUBSET Migrations :
            /\ Commit(rows, applied)
            /\ Current.rows \subseteq rows /\ Current.applied \subseteq applied
      BY <1>4, <2>2, <3>1
    <3> QED BY <1>1, <1>2, <1>3, <1>5, <3>2 DEF ApplyMigrations
  <2> QED BY <1>5, <2>1, <2>2 DEF ApplyMigrations
<1>6. CASE BindPort(p) \/ Close(p)
  <2>1. UNCHANGED <<disk, wal>> \/ Disconnect(p)
    BY <1>6 DEF BindPort, Close
  <2> QED BY <1>1, <1>2, <1>3, <2>1 DEF Disconnect
<1>7. CASE Kill(p)
  BY <1>1, <1>2, <1>3, <1>7 DEF Kill
<1>8. CASE Checkpoint
  BY <1>1, <1>2, <1>3, <1>8 DEF Checkpoint
<1>9. ASSUME NEW r \in Rows, Record(p, r)
      PROVE  UNCHANGED disk /\ \E rows \in SUBSET Rows, applied \in SUBSET Migrations :
                    /\ Commit(rows, applied)
                    /\ Current.rows \subseteq rows /\ Current.applied \subseteq applied
  <2>1. Current.rows \cup {r} \in SUBSET Rows
    BY <1>4
  <2> QED BY <1>4, <1>9, <2>1 DEF Record
<1> QED BY <1>1, <1>2, <1>3, <1>5, <1>6, <1>7, <1>8, <1>9 DEF ServerStep

(* No file but the live one is lost or changed, unless a backup ends writing it or *)
(* another is moved onto it.                                                       *)
LEMMA OthersKept ==
  ASSUME IInv, Next, NEW name \in DOMAIN disk, name # Live,
         BackupEnd => name # backup.name, MoveAside => name # restore.aside
  PROVE  name \in DOMAIN disk' /\ disk'[name] = disk[name]
<1>1. ASSUME NEW p \in Servers, OpenDatabase(p)
      PROVE  name \in DOMAIN disk' /\ disk'[name] = disk[name]
  BY <1>1 DEF OpenDatabase, Written
<1>2. ASSUME NEW p \in Servers, ServerStep(p)
      PROVE  name \in DOMAIN disk' /\ disk'[name] = disk[name]
  <2>1. \/ UNCHANGED disk
        \/ wal # NULL /\ Exists(Live) /\ disk' = Checkpointed
    BY <1>2, ServerEffect, NextObserves
  <2> QED BY <2>1, CheckpointTyped DEF IInv
<1>3. CASE BackupBegin
  BY <1>3 DEF BackupBegin, Written, Exists
<1>4. CASE BackupEnd
  BY <1>4 DEF BackupEnd
<1>5. CASE BackupCrash \/ Moves \/ RemoveSidecars \/ Watches
  BY <1>5 DEF BackupCrash, Moves, RestoreBegin, Probe, Verify, RestoreCrash, RemoveSidecars,
     Watches, StatusBegin, StatusProbe, Inspect, Tick
<1>6. CASE MoveAside
  BY <1>6 DEF MoveAside, Renamed
<1>7. CASE CopyBegin
  BY <1>7 DEF CopyBegin, Written
<1>8. CASE CopyEnd
  BY <1>8 DEF CopyEnd
<1> QED BY <1>1, <1>2, <1>3, <1>4, <1>5, <1>6, <1>7, <1>8, NextByGroups DEF NextDisjuncts

-----------------------------------------------------------------------------------
(* The invariant is kept, part by part. *)

(* Every step keeps the types. *)
LEMMA TypesNext ==
  ASSUME IInv, Next
  PROVE  Types'
<1> USE DEF IInv
<1>1. TypedStep
  <2>1. ASSUME NEW p \in Servers, OpenDatabase(p) PROVE TypedStep
    BY <2>1, OpenDatabaseTyped
  <2>2. ASSUME NEW p \in Servers, ServerStep(p) PROVE TypedStep
    <3>1. OpenHasFile
      BY NextObserves DEF FilesFit
    <3> QED BY <2>2, <3>1, ApplyMigrationsTyped, BindPortTyped, CloseTyped, RecordTyped
            DEF ServerStep
  <2> QED BY <2>1, <2>2, NextByGroups, BackupTyped, MovesTyped, ReplaceTyped, WatchesTyped
          DEF NextDisjuncts
<1>2. ObservedTyped'
  BY <1>1, NextObserves, ObservesTyped DEF TypedStep
<1> QED BY <1>1, <1>2 DEF TypedStep, Types

(* A backup under way writes a file of its own, which is not whole. *)
LEMMA BackupIsPartNext ==
  ASSUME IInv, Next
  PROVE  BackupIsPart'
<1>1. CASE BackupBegin
  <2> DEFINE name == BackupName(now)
             file == File(nextId, {}, Current.applied, FALSE)
  <2>1. disk' = Written(name, file) /\ backup'.name = name
    BY <1>1 DEF BackupBegin
  <2>2. name \in DOMAIN disk' /\ disk'[name] = file
    BY <2>1 DEF Written
  <2>3. name.kind = "backup" /\ ~file.whole /\ file.rows = {}
    BY DEF BackupName, File
  <2> HIDE DEF name, file
  <2> QED BY <2>1, <2>2, <2>3 DEF BackupIsPart, Exists
<1>2. CASE BackupEnd \/ BackupCrash
  <2>1. backup'.step = "idle"
    BY <1>2 DEF BackupEnd, BackupCrash, IInv, Types, CommandsTyped
  <2> QED BY <2>1 DEF BackupIsPart
<1>3. CASE ~(BackupBegin \/ BackupEnd \/ BackupCrash)
  <2> SUFFICES ASSUME backup'.step = "writing" PROVE BackupIsPart'
    BY DEF BackupIsPart
  <2>1. UNCHANGED backup
    BY <1>3 DEF Next, OpenDatabase, ApplyMigrations, BindPort, Close, Kill, Record, Checkpoint,
       RestoreBegin, Probe, Verify, MoveAside, RemoveSidecars, CopyBegin, CopyEnd,
       RestoreCrash, StatusBegin, StatusProbe, Inspect, Tick, commands
  <2>2. /\ Exists(backup.name) /\ backup.name.kind = "backup"
        /\ ~disk[backup.name].whole /\ disk[backup.name].rows = {}
    BY <2>1 DEF IInv, BackupIsPart
  <2>3. backup.name # Live
    BY <2>2 DEF Live
  <2>4. MoveAside => backup.name # restore.aside
    BY <2>2 DEF MoveAside, Restoring, IInv, AsideIsNamed
  <2>5. backup.name \in DOMAIN disk' /\ disk'[backup.name] = disk[backup.name]
    BY <1>3, <2>2, <2>3, <2>4, OthersKept DEF Exists
  <2> QED BY <2>1, <2>2, <2>5 DEF BackupIsPart, Exists
<1> QED BY <1>1, <1>2, <1>3

(* The name to move the database to is chosen when the copy has been verified. *)
LEMMA AsideIsNamedNext ==
  ASSUME IInv, Next
  PROVE  AsideIsNamed'
<1> USE DEF Replacing, AsideIsNamed
<1>1. restore \in [step : RestoreSteps, src : Name, aside : Name, moved : BOOLEAN,
                   port : 1..(PortCount + 1), force : BOOLEAN, missed : BOOLEAN,
                   verified : Content \cup {NULL}]
  BY DEF IInv, Types, CommandsTyped, RestoreTyped
<1>2. CASE UNCHANGED restore
  BY <1>2 DEF IInv
<1>3. CASE Moves
  <2>1. ASSUME NEW src \in DOMAIN disk, NEW force \in BOOLEAN, RestoreBegin(src, force)
        PROVE  AsideIsNamed'
    <3>1. restore'.step \in {"verify", "probe"}
      BY <2>1 DEF RestoreBegin, NoRestore
    <3> QED BY <3>1
  <2>2. CASE Probe \/ RestoreCrash
    <3>1. restore'.step \in {"verify", "probe", "idle"}
      BY <1>1, <2>2 DEF Probe, RestoreCrash, Goto
    <3> QED BY <3>1
  <2>3. CASE Verify
    <3>1. restore'.step = "idle" \/ restore'.aside = AsideName(now)
      BY <1>1, <2>3 DEF Verify, Goto
    <3> QED BY <3>1 DEF AsideName
  <2> QED BY <1>3, <2>1, <2>2, <2>3 DEF Moves
<1>4. CASE MoveAside \/ RemoveSidecars \/ CopyBegin \/ CopyEnd
  <2>1. restore'.aside = restore.aside /\ restore.step \in {"move"} \cup Replacing
    BY <1>1, <1>4 DEF MoveAside, RemoveSidecars, CopyBegin, CopyEnd, Goto, Restoring
  <2> QED BY <2>1 DEF IInv
<1>5. ASSUME NEW p \in Servers, OpenDatabase(p) \/ ServerStep(p)
      PROVE  UNCHANGED restore
  BY <1>5, ServerEffect, NextObserves DEF OpenDatabase, commands
<1>6. BackupBegin \/ BackupEnd \/ BackupCrash \/ Watches => UNCHANGED restore
  BY DEF BackupBegin, BackupEnd, BackupCrash, Watches, StatusBegin, StatusProbe, Inspect, Tick,
     commands
<1> QED BY <1>2, <1>3, <1>4, <1>5, <1>6, NextByGroups DEF NextDisjuncts

(* While a restore replaces the database nobody has it open, unless somebody disturbed it. *)
LEMMA FilesFitNext ==
  ASSUME IInv, Next
  PROVE  FilesFit'
<1> SUFFICES ASSUME ~disturbed'
             PROVE  /\ OpenHasFile' /\ ReplacesClosed' /\ MovedIsGone' /\ JournalIsGone'
                    /\ CopyHasFiles' /\ JournalExtends'
  BY DEF FilesFit
<1> USE DEF Replacing
<1>1. /\ OpenHasFile /\ ReplacesClosed /\ MovedIsGone /\ JournalIsGone
      /\ CopyHasFiles /\ JournalExtends
  BY NextObserves DEF IInv, FilesFit
<1>2. ReplacesClosed'
  BY NextObserves DEF Observe, ReplacesClosed, Open
<1>3. restore \in [step : RestoreSteps, src : Name, aside : Name, moved : BOOLEAN,
                   port : 1..(PortCount + 1), force : BOOLEAN, missed : BOOLEAN,
                   verified : Content \cup {NULL}]
  BY DEF IInv, Types, CommandsTyped, RestoreTyped
<1>4. ASSUME NEW p \in Servers, OpenDatabase(p)
      PROVE  /\ OpenHasFile' /\ MovedIsGone' /\ JournalIsGone' /\ CopyHasFiles'
             /\ JournalExtends'
  <2>1. UNCHANGED restore /\ Exists(Live)'
    BY <1>4 DEF OpenDatabase, commands, Written, Exists
  <2>2. OpenHasFile'
    BY <2>1 DEF OpenHasFile
  <2>3. CASE Exists(Live)
    <3>1. UNCHANGED <<disk, wal>>
      BY <1>4, <2>3 DEF OpenDatabase
    <3> QED BY <1>1, <2>1, <2>2, <3>1
            DEF MovedIsGone, JournalIsGone, CopyHasFiles, JournalExtends, Exists
  <2>4. CASE ~Exists(Live)
    <3>1. wal' = NULL /\ srv' = [srv EXCEPT ![p].phase = "opened",
                ![p].known = IF Exists(Live) THEN Current.applied ELSE {}]
      BY <1>4, <2>4 DEF OpenDatabase
    <3>2. Open' # {}
      BY <3>1 DEF Open, IInv, Types, ServersTyped
    <3>3. restore'.step \notin Replacing
      BY <1>2, <3>2 DEF ReplacesClosed
    <3> QED BY <2>2, <3>1, <3>3 DEF MovedIsGone, JournalIsGone, CopyHasFiles, JournalExtends
  <2> QED BY <2>3, <2>4
<1>5. ASSUME NEW p \in Servers, ServerStep(p)
      PROVE  /\ OpenHasFile' /\ MovedIsGone' /\ JournalIsGone' /\ CopyHasFiles'
             /\ JournalExtends'
  <2>1. UNCHANGED restore /\ Open # {} /\ Exists(Live)
    BY <1>5, ServerEffect, NextObserves DEF commands
  <2>2. MovedIsGone' /\ JournalIsGone' /\ CopyHasFiles'
    BY <1>1, <2>1 DEF ReplacesClosed, MovedIsGone, JournalIsGone, CopyHasFiles
  <2>3. CASE UNCHANGED <<disk, wal>>
    BY <1>1, <2>1, <2>2, <2>3 DEF OpenHasFile, JournalExtends, Exists
  <2>4. CASE UNCHANGED disk /\ \E rows \in SUBSET Rows, applied \in SUBSET Migrations :
                                 Commit(rows, applied) /\ Current.rows \subseteq rows
    <3>1. disk[Live].rows \subseteq Current.rows
      BY <1>1, <2>1 DEF JournalExtends, Current
    <3>2. wal'.of = disk[Live].id /\ Current.rows \subseteq wal'.rows
      BY <2>4 DEF Commit
    <3> QED BY <2>1, <2>2, <2>4, <3>1, <3>2 DEF OpenHasFile, JournalExtends, Exists
  <2>5. CASE wal # NULL /\ disk' = Checkpointed /\ (UNCHANGED wal \/ wal' = NULL)
    <3>1. /\ DOMAIN disk' = DOMAIN disk /\ disk'[Live].id = disk[Live].id
          /\ disk'[Live].rows = wal.rows
      BY <2>1, <2>5, CheckpointTyped DEF IInv
    <3> QED BY <1>1, <2>1, <2>2, <2>5, <3>1 DEF OpenHasFile, JournalExtends, Exists
  <2> QED BY <1>5, <2>3, <2>4, <2>5, ServerEffect, NextObserves
<1>6. CASE BackupBegin \/ BackupEnd
  <2>1. UNCHANGED <<wal, srv, restore>>
    BY <1>6 DEF BackupBegin, BackupEnd
  <2>2. /\ Exists(Live)' <=> Exists(Live)
        /\ Exists(Live) => disk'[Live] = disk[Live]
    <3>1. CASE BackupBegin
      BY <3>1 DEF BackupBegin, BackupName, Live, Written, Exists
    <3>2. CASE BackupEnd
      <4>1. backup.name # Live /\ DOMAIN disk' = DOMAIN disk
        BY <3>2 DEF BackupEnd, IInv, BackupIsPart, Live
      <4> QED BY <3>2, <4>1 DEF BackupEnd, Exists
    <3> QED BY <1>6, <3>1, <3>2
  <2>3. restore.step = "copying" => Exists(restore.src)'
    <3>1. restore.src \in DOMAIN disk => restore.src \in DOMAIN disk'
      BY <1>6 DEF BackupBegin, BackupEnd, Written
    <3> QED BY <1>1, <2>1, <3>1 DEF CopyHasFiles, Exists
  <2> QED BY <1>1, <1>2, <2>1, <2>2, <2>3 DEF OpenHasFile, MovedIsGone, JournalIsGone,
             CopyHasFiles, JournalExtends, Open
<1>7. CASE BackupCrash \/ Moves \/ Watches
  <2>1. UNCHANGED <<disk, wal, srv>>
    BY <1>7 DEF BackupCrash, Moves, RestoreBegin, Probe, Verify, RestoreCrash,
       Watches, StatusBegin, StatusProbe, Inspect, Tick
  <2>2. UNCHANGED restore \/ restore'.step \notin Replacing
    <3>1. CASE BackupCrash \/ Watches
      BY <3>1 DEF BackupCrash, Watches, StatusBegin, StatusProbe, Inspect, Tick, commands
    <3>2. ASSUME NEW src \in DOMAIN disk, NEW force \in BOOLEAN, RestoreBegin(src, force)
          PROVE  restore'.step \notin Replacing
      BY <3>2 DEF RestoreBegin, NoRestore
    <3>3. CASE Probe \/ Verify \/ RestoreCrash
      BY <1>3, <3>3 DEF Probe, Verify, RestoreCrash, Goto
    <3> QED BY <1>7, <3>1, <3>2, <3>3 DEF Moves
  <2> QED BY <1>1, <1>2, <2>1, <2>2 DEF OpenHasFile, MovedIsGone, JournalIsGone, CopyHasFiles,
             JournalExtends, Open, Exists
<1>8. CASE MoveAside
  <2>1. restore'.step = "unlink" /\ UNCHANGED <<wal, srv>>
    BY <1>3, <1>8 DEF MoveAside
  <2>2. ~Exists(Live)'
    BY <1>8 DEF MoveAside, Renamed, Exists
  <2>3. Open' = {}
    BY <1>2, <2>1 DEF ReplacesClosed
  <2> QED BY <1>2, <2>1, <2>2, <2>3 DEF OpenHasFile, MovedIsGone, JournalIsGone, CopyHasFiles,
             JournalExtends
<1>9. CASE RemoveSidecars
  <2>1. /\ restore.step = "unlink" /\ restore'.step = "copy" /\ wal' = NULL
        /\ UNCHANGED <<disk, srv>>
    BY <1>3, <1>9 DEF RemoveSidecars, Restoring, Goto, Unlinked
  <2> QED BY <1>1, <1>2, <2>1 DEF OpenHasFile, MovedIsGone, JournalIsGone, CopyHasFiles,
             JournalExtends, Open, Exists
<1>10. CASE CopyBegin
  <2>1. restore.step = "copy" /\ UNCHANGED <<wal, srv>> /\ wal = NULL /\ ~Exists(Live)
    BY <1>1, <1>10 DEF CopyBegin, Restoring, JournalIsGone, MovedIsGone
  <2>2. CASE Exists(restore.src)
    <3>1. /\ restore'.step = "copying" /\ restore'.src = restore.src
          /\ Exists(Live)' /\ Exists(restore.src)' /\ restore.src # Live
      BY <1>3, <1>10, <2>1, <2>2 DEF CopyBegin, Goto, Exists, Written
    <3> QED BY <1>2, <2>1, <3>1 DEF OpenHasFile, MovedIsGone, JournalIsGone, CopyHasFiles,
               JournalExtends, Exists
  <2>3. CASE ~Exists(restore.src)
    <3>1. restore'.step = "idle" /\ UNCHANGED disk
      BY <1>3, <1>10, <2>3 DEF CopyBegin, Goto
    <3> QED BY <1>1, <1>2, <2>1, <3>1 DEF OpenHasFile, MovedIsGone, JournalIsGone, CopyHasFiles,
               JournalExtends, Open, Exists
  <2> QED BY <2>2, <2>3
<1>11. CASE CopyEnd
  <2>1. /\ restore'.step = "done" /\ UNCHANGED <<wal, srv>> /\ wal = NULL
        /\ DOMAIN disk' = DOMAIN disk
    BY <1>1, <1>3, <1>11 DEF CopyEnd, Restoring, Goto, JournalIsGone
  <2> QED BY <1>1, <1>2, <2>1 DEF OpenHasFile, MovedIsGone, JournalIsGone, CopyHasFiles,
             JournalExtends, Open, Exists
<1> QED BY <1>2, <1>4, <1>5, <1>6, <1>7, <1>8, <1>9, <1>10, <1>11, NextByGroups
        DEF NextDisjuncts

-----------------------------------------------------------------------------------
(* The invariant holds in every reachable state. *)
THEOREM StorageInvariant == Spec => []IInv
<1>1. IInv /\ [Next]_vars => IInv'
  <2> SUFFICES ASSUME IInv, [Next]_vars PROVE IInv'
    OBVIOUS
  <2>1. CASE Next
    BY <2>1, TypesNext, BackupIsPartNext, AsideIsNamedNext, FilesFitNext DEF IInv
  <2>2. CASE UNCHANGED vars
    BY <2>2 DEF vars, commands, history, IInv, Types, DiskTyped, ServersTyped, CommandsTyped,
       RestoreTyped, FlatTyped, ObservedTyped, BackupIsPart, AsideIsNamed, FilesFit,
       OpenHasFile, ReplacesClosed, MovedIsGone, JournalIsGone, CopyHasFiles,
       JournalExtends, Exists, Open
  <2> QED BY <2>1, <2>2
<1> QED BY <1>1, InitInv, PTL DEF Spec

(* No database ever starts from another database's journal, whatever was killed or  *)
(* restored before (restore.ts:110-112).                                            *)
THEOREM JournalIsItsOwn == Spec => []JournalBelongs
<1>1. IInv => JournalBelongs
  BY DEF IInv, FilesFit, JournalExtends, JournalBelongs
<1> QED BY <1>1, StorageInvariant, PTL

-----------------------------------------------------------------------------------
(* Ports. *)

\* A server has a port exactly while it is up, and no two have the same.
PortsFit ==
  /\ \A p \in Servers : srv[p].port # 0 <=> srv[p].phase = "up"
  /\ \A p, q \in Servers : p # q /\ srv[p].port # 0 => srv[p].port # srv[q].port

(* What a step may do to the servers. *)
LEMMA ServersChange ==
  ASSUME IInv, PortsFit, Next
  PROVE  \/ UNCHANGED srv
         \/ \E p \in Servers :
              \/ srv' = [srv EXCEPT ![p] = Down]
              \/ /\ srv[p].phase # "up" /\ srv'[p].phase \in {"opened", "migrated"}
                 /\ \E known \in SUBSET Migrations, phase \in {"opened", "migrated"} :
                      srv' = [srv EXCEPT ![p].phase = phase, ![p].known = known]
              \/ /\ srv[p].phase # "up"
                 /\ \E port \in 1..PortCount :
                      /\ \A q \in Servers : srv[q].port # port
                      /\ srv' = [srv EXCEPT ![p].phase = "up", ![p].port = port]
<1> DEFINE Goal == \E p \in Servers :
              \/ srv' = [srv EXCEPT ![p] = Down]
              \/ /\ srv[p].phase # "up" /\ srv'[p].phase \in {"opened", "migrated"}
                 /\ \E known \in SUBSET Migrations, phase \in {"opened", "migrated"} :
                      srv' = [srv EXCEPT ![p].phase = phase, ![p].known = known]
              \/ /\ srv[p].phase # "up"
                 /\ \E port \in 1..PortCount :
                      /\ \A q \in Servers : srv[q].port # port
                      /\ srv' = [srv EXCEPT ![p].phase = "up", ![p].port = port]
<1>1. srv \in [Servers -> [phase : {"down", "opened", "migrated", "up"},
                           known : SUBSET Migrations, port : 0..PortCount]]
  BY DEF IInv, Types, ServersTyped
<1>2. ASSUME NEW p \in Servers, OpenDatabase(p) PROVE UNCHANGED srv \/ Goal
  <2>1. CASE UNCHANGED srv
    BY <2>1
  <2>2. CASE srv' = [srv EXCEPT ![p].phase = "opened",
                                ![p].known = IF Exists(Live) THEN Current.applied ELSE {}]
    <3> DEFINE known == IF Exists(Live) THEN Current.applied ELSE {}
    <3>1. known \in SUBSET Migrations
      BY CurrentTyped DEF IInv
    <3>2. srv[p].phase # "up"
      BY <1>2 DEF OpenDatabase
    <3>3. srv' = [srv EXCEPT ![p].phase = "opened", ![p].known = known]
      BY <2>2
    <3> HIDE DEF known
    <3>4. srv'[p].phase = "opened"
      BY <1>1, <3>3
    <3> QED BY <3>1, <3>2, <3>3, <3>4
  <2> QED BY <1>2, <2>1, <2>2 DEF OpenDatabase
<1>3. ASSUME NEW p \in Servers, ApplyMigrations(p) PROVE Goal
  <2>1. CASE srv' = [srv EXCEPT ![p].phase = "migrated"]
    <3>1. srv' = [srv EXCEPT ![p].phase = "migrated", ![p].known = srv[p].known]
          /\ srv[p].known \in SUBSET Migrations /\ srv'[p].phase = "migrated"
      BY <1>1, <2>1
    <3>2. srv[p].phase # "up"
      BY <1>3 DEF ApplyMigrations, At
    <3> QED BY <3>1, <3>2
  <2>2. CASE srv' = [srv EXCEPT ![p] = Down]
    BY <2>2
  <2> QED BY <1>3, <2>1, <2>2 DEF ApplyMigrations
<1>4. ASSUME NEW p \in Servers, BindPort(p) PROVE Goal
  <2>1. CASE srv' = [srv EXCEPT ![p] = Down]
    BY <2>1
  <2>2. CASE \E port \in {port \in 1..PortCount : ~Taken(port)} :
               srv' = [srv EXCEPT ![p].phase = "up", ![p].port = port]
    <3>1. PICK port \in 1..PortCount :
            ~Taken(port) /\ srv' = [srv EXCEPT ![p].phase = "up", ![p].port = port]
      BY <2>2
    <3>2. \A q \in Servers : srv[q].port # port
      BY <3>1 DEF Taken, Answering
    <3>3. srv[p].phase # "up"
      BY <1>4 DEF BindPort, At
    <3> QED BY <3>1, <3>2, <3>3
  <2> QED BY <1>4, <2>1, <2>2 DEF BindPort
<1>5. ASSUME NEW p \in Servers, Close(p) \/ Kill(p) PROVE Goal
  BY <1>5 DEF Close, Kill
<1>6. ASSUME NEW p \in Servers, \E r \in Rows : Record(p, r) PROVE UNCHANGED srv
  BY <1>6 DEF Record
<1>7. Checkpoint \/ BackupBegin \/ BackupEnd \/ BackupCrash \/ Moves \/ MoveAside
        \/ RemoveSidecars \/ CopyBegin \/ CopyEnd \/ Watches
      => UNCHANGED srv
  BY DEF Checkpoint, BackupBegin, BackupEnd, BackupCrash, Moves, RestoreBegin, Probe, Verify,
     RestoreCrash, MoveAside, RemoveSidecars, CopyBegin, CopyEnd, Watches, StatusBegin,
     StatusProbe, Inspect, Tick
<1> HIDE DEF Goal
<1>8. UNCHANGED srv \/ Goal
  BY <1>2, <1>3, <1>4, <1>5, <1>6, <1>7, NextByGroups DEF NextDisjuncts, ServerStep
<1> QED BY <1>8 DEF Goal

(* Only BindPort takes a port, and only one that nobody holds. *)
LEMMA PortsFitNext ==
  ASSUME IInv, PortsFit, Next
  PROVE  PortsFit'
<1>1. srv \in [Servers -> [phase : {"down", "opened", "migrated", "up"},
                           known : SUBSET Migrations, port : 0..PortCount]]
  BY DEF IInv, Types, ServersTyped
<1>2. CASE UNCHANGED srv
  BY <1>2 DEF PortsFit
<1>3. ASSUME NEW p \in Servers, srv' = [srv EXCEPT ![p] = Down] PROVE PortsFit'
  BY <1>1, <1>3 DEF PortsFit, Down
<1>4. ASSUME NEW p \in Servers, srv[p].phase # "up",
             NEW known \in SUBSET Migrations, NEW phase \in {"opened", "migrated"},
             srv' = [srv EXCEPT ![p].phase = phase, ![p].known = known]
      PROVE  PortsFit'
  <2>1. /\ \A q \in Servers : srv'[q].port = srv[q].port
        /\ \A q \in Servers : q # p => srv'[q] = srv[q]
        /\ srv'[p].phase # "up"
    BY <1>1, <1>4
  <2>2. ASSUME NEW q \in Servers PROVE srv'[q].port # 0 <=> srv'[q].phase = "up"
    BY <1>4, <2>1 DEF PortsFit
  <2>3. ASSUME NEW q \in Servers, NEW o \in Servers, q # o, srv'[q].port # 0
        PROVE  srv'[q].port # srv'[o].port
    BY <2>1, <2>3 DEF PortsFit
  <2> QED BY <2>2, <2>3 DEF PortsFit
<1>5. ASSUME NEW p \in Servers, NEW port \in 1..PortCount,
             \A q \in Servers : srv[q].port # port,
             srv' = [srv EXCEPT ![p].phase = "up", ![p].port = port]
      PROVE  PortsFit'
  <2>1. /\ \A q \in Servers : q # p => srv'[q] = srv[q]
        /\ srv'[p].phase = "up" /\ srv'[p].port = port /\ port # 0
    BY <1>1, <1>5, Bounds
  <2>2. ASSUME NEW q \in Servers PROVE srv'[q].port # 0 <=> srv'[q].phase = "up"
    BY <2>1 DEF PortsFit
  <2>3. ASSUME NEW q \in Servers, NEW o \in Servers, q # o, srv'[q].port # 0
        PROVE  srv'[q].port # srv'[o].port
    <3>1. CASE q = p
      BY <1>5, <2>1, <2>3, <3>1
    <3>2. CASE o = p
      BY <1>5, <2>1, <2>3, <3>2
    <3>3. CASE q # p /\ o # p
      BY <2>1, <2>3, <3>3 DEF PortsFit
    <3> QED BY <3>1, <3>2, <3>3
  <2> QED BY <2>2, <2>3 DEF PortsFit
<1> QED BY <1>2, <1>3, <1>4, <1>5, ServersChange

(* No two servers answer on one port (bindPort.ts:63-78). *)
THEOREM PortsAreOwn == Spec => []PortsFit
<1>1. Init => PortsFit
  BY DEF Init, PortsFit, Down
<1>2. IInv /\ PortsFit /\ [Next]_vars => PortsFit'
  BY PortsFitNext DEF PortsFit, vars
<1> QED BY <1>1, <1>2, StorageInvariant, PTL DEF Spec

(* Every variable has its type, and no two servers answer on one port, however     *)
(* starts, kills and other programs interleave (bindPort.ts:63-78).                *)
THEOREM TypeCorrect == Spec => []TypeOK
<1>1. IInv /\ PortsFit => TypeOK
  BY DEF IInv, Types, DiskTyped, ServersTyped, CommandsTyped, RestoreTyped, FlatTyped,
     ObservedTyped, PortsFit, TypeOK
<1> QED BY <1>1, StorageInvariant, PortsAreOwn, PTL

-----------------------------------------------------------------------------------
(* Migrations. *)

\* What a server read as applied is applied, and once it has migrated everything is.
MigrationsFit ==
  ~disturbed =>
    \A p \in Servers :
      /\ srv[p].phase = "opened" => srv[p].known \subseteq Current.applied
      /\ srv[p].phase \in {"migrated", "up"} => Migrations \subseteq Current.applied

(* While a server has the database open, no step takes a migration away.           *)
LEMMA AppliedGrows ==
  ASSUME IInv, Next, ~disturbed', FilesFit', Open # {}, Open' # {}
  PROVE  Current.applied \subseteq Current'.applied
<1>1. Exists(Live) /\ restore.step \notin Replacing /\ restore'.step \notin Replacing
  BY NextObserves DEF IInv, FilesFit, OpenHasFile, ReplacesClosed
<1>2. CASE UNCHANGED <<disk, wal>>
  BY <1>2 DEF Current
<1>3. ASSUME NEW p \in Servers, OpenDatabase(p) PROVE UNCHANGED <<disk, wal>>
  BY <1>1, <1>3 DEF OpenDatabase
<1>4. ASSUME NEW p \in Servers, ServerStep(p)
      PROVE  Current.applied \subseteq Current'.applied
  <2>1. ASSUME NEW rows \in SUBSET Rows, NEW applied \in SUBSET Migrations,
               Commit(rows, applied), Current.applied \subseteq applied
        PROVE  Current.applied \subseteq Current'.applied
    <3>1. wal' # NULL
      BY <1>1, <2>1, CommitTyped DEF IInv
    <3>2. wal'.applied = applied
      BY <2>1 DEF Commit
    <3> QED BY <2>1, <3>1, <3>2 DEF Current
  <2>2. CASE wal # NULL /\ disk' = Checkpointed /\ (UNCHANGED wal \/ wal' = NULL)
    <3>1. disk'[Live].applied = wal.applied
      BY <1>1, <2>2, CheckpointTyped DEF IInv
    <3> QED BY <2>2, <3>1 DEF Current
  <2> QED BY <1>2, <1>4, <2>1, <2>2, ServerEffect, NextObserves
<1>5. CASE BackupBegin \/ BackupEnd
  <2>1. UNCHANGED wal /\ disk'[Live] = disk[Live]
    <3>1. CASE BackupBegin
      BY <1>1, <3>1 DEF BackupBegin, BackupName, Live, Written, Exists
    <3>2. CASE BackupEnd
      <4>1. backup.name # Live
        BY <3>2 DEF BackupEnd, IInv, BackupIsPart, Live
      <4> QED BY <1>1, <3>2, <4>1 DEF BackupEnd, Exists
    <3> QED BY <1>5, <3>1, <3>2
  <2> QED BY <2>1 DEF Current
<1>6. BackupCrash \/ Moves \/ Watches => UNCHANGED <<disk, wal>>
  BY DEF BackupCrash, Moves, RestoreBegin, Probe, Verify, RestoreCrash, Watches, StatusBegin,
     StatusProbe, Inspect, Tick
<1>7. ~(RemoveSidecars \/ CopyBegin \/ CopyEnd)
  BY <1>1 DEF RemoveSidecars, CopyBegin, CopyEnd, Restoring, Replacing
<1>8. ~MoveAside
  <2>1. MoveAside => restore'.step = "unlink"
    BY DEF MoveAside, IInv, Types, CommandsTyped, RestoreTyped
  <2> QED BY <1>1, <2>1 DEF Replacing
<1> QED BY <1>2, <1>3, <1>4, <1>5, <1>6, <1>7, <1>8, NextByGroups DEF NextDisjuncts

(* A migration is marked as applied in the transaction that applies it. *)
LEMMA MigrationsFitNext ==
  ASSUME IInv, FilesFit', MigrationsFit, Next
  PROVE  MigrationsFit'
<1> SUFFICES ASSUME ~disturbed', NEW q \in Servers
             PROVE  /\ srv'[q].phase = "opened" => srv'[q].known \subseteq Current'.applied
                    /\ srv'[q].phase \in {"migrated", "up"} =>
                         Migrations \subseteq Current'.applied
  BY DEF MigrationsFit
<1>1. srv \in [Servers -> [phase : {"down", "opened", "migrated", "up"},
                           known : SUBSET Migrations, port : 0..PortCount]]
  BY DEF IInv, Types, ServersTyped
<1>2. /\ srv[q].phase = "opened" => srv[q].known \subseteq Current.applied
      /\ srv[q].phase \in {"migrated", "up"} => Migrations \subseteq Current.applied
  BY NextObserves DEF MigrationsFit
<1>3. CASE srv'[q].phase = "down"
  BY <1>3
<1>4. CASE srv'[q] = srv[q] /\ srv[q].phase # "down"
  <2>1. Open # {} /\ Open' # {}
    BY <1>4 DEF Open
  <2> QED BY <1>2, <1>4, <2>1, AppliedGrows
<1>5. ASSUME OpenDatabase(q), srv'[q].phase # "down"
      PROVE  srv'[q].phase = "opened" /\ srv'[q].known \subseteq Current'.applied
  <2>1. srv' = [srv EXCEPT ![q].phase = "opened",
                           ![q].known = IF Exists(Live) THEN Current.applied ELSE {}]
    BY <1>5 DEF OpenDatabase
  <2>2. /\ srv'[q].phase = "opened"
        /\ srv'[q].known = IF Exists(Live) THEN Current.applied ELSE {}
    BY <1>1, <2>1
  <2>3. CASE Exists(Live)
    BY <1>5, <2>2, <2>3 DEF OpenDatabase, Current
  <2>4. CASE ~Exists(Live)
    BY <2>2, <2>4
  <2> QED BY <2>2, <2>3, <2>4
<1>6. ASSUME ApplyMigrations(q), srv'[q].phase # "down"
      PROVE  srv'[q].phase = "migrated" /\ Migrations \subseteq Current'.applied
  <2> DEFINE pending == Pending(srv[q].known)
  <2>1. /\ srv[q].phase = "opened" /\ srv[q].known \subseteq Current.applied
        /\ Exists(Live)
    BY <1>2, <1>6, NextObserves DEF ApplyMigrations, At, IInv, FilesFit, OpenHasFile, Open
  <2>2. \/ pending = {} /\ UNCHANGED wal
        \/ Commit(Current.rows, Current.applied \cup pending)
    BY <1>1, <1>6 DEF ApplyMigrations, Down
  <2>3. srv'[q].phase = "migrated"
    BY <1>1, <1>6 DEF ApplyMigrations, Down
  <2>4. CASE pending = {} /\ UNCHANGED wal
    BY <1>6, <2>1, <2>3, <2>4 DEF ApplyMigrations, Current, Pending
  <2>5. CASE Commit(Current.rows, Current.applied \cup pending)
    <3>1. /\ Current.rows \subseteq Rows /\ Current.applied \subseteq Migrations
          /\ pending \subseteq Migrations
      BY <2>1, CurrentTyped DEF IInv, Pending
    <3>2. wal' # NULL
      BY <2>1, <2>5, <3>1, CommitTyped DEF IInv
    <3>3. Current'.applied = Current.applied \cup pending
      BY <2>5, <3>2 DEF Commit, Current
    <3> QED BY <2>1, <2>3, <3>3 DEF Pending
  <2> QED BY <2>2, <2>4, <2>5
<1>7. ASSUME BindPort(q), srv'[q].phase # "down"
      PROVE  srv'[q].phase = "up" /\ Migrations \subseteq Current'.applied
  <2>1. srv[q].phase = "migrated" /\ Migrations \subseteq Current.applied
    BY <1>2, <1>7 DEF BindPort, At
  <2>2. srv'[q].phase = "up"
    BY <1>1, <1>7 DEF BindPort, Down
  <2>3. Open # {} /\ Open' # {}
    BY <2>1, <2>2 DEF Open
  <2> QED BY <2>1, <2>2, <2>3, AppliedGrows
<1>8. \/ srv'[q] = srv[q] \/ srv'[q].phase = "down"
      \/ OpenDatabase(q) \/ ApplyMigrations(q) \/ BindPort(q)
  <2>1. ASSUME NEW p \in Servers,
               OpenDatabase(p) \/ ApplyMigrations(p) \/ BindPort(p) \/ Close(p) \/ Kill(p)
        PROVE  \/ srv'[q] = srv[q] \/ srv'[q].phase = "down"
               \/ OpenDatabase(q) \/ ApplyMigrations(q) \/ BindPort(q)
    <3>1. CASE p = q
      BY <1>1, <2>1, <3>1 DEF Close, Kill, Down
    <3>2. CASE p # q
      BY <1>1, <2>1, <3>2 DEF OpenDatabase, ApplyMigrations, BindPort, Close, Kill
    <3> QED BY <3>1, <3>2
  <2>2. \A p \in Servers, r \in Rows : Record(p, r) => UNCHANGED srv
    BY DEF Record
  <2>3. Checkpoint \/ BackupBegin \/ BackupEnd \/ BackupCrash \/ Moves \/ MoveAside
          \/ RemoveSidecars \/ CopyBegin \/ CopyEnd \/ Watches
        => UNCHANGED srv
    BY DEF Checkpoint, BackupBegin, BackupEnd, BackupCrash, Moves, RestoreBegin, Probe, Verify,
       RestoreCrash, MoveAside, RemoveSidecars, CopyBegin, CopyEnd, Watches, StatusBegin,
       StatusProbe, Inspect, Tick
  <2> QED BY <2>1, <2>2, <2>3, NextByGroups DEF NextDisjuncts, ServerStep
<1> QED BY <1>3, <1>4, <1>5, <1>6, <1>7, <1>8

(* A server that is up found, or left, its own release's migrations in the file. *)
THEOREM MigrationsAreKnown == Spec => []MigrationsFit
<1>1. Init => MigrationsFit
  BY DEF Init, MigrationsFit, Down
<1>2. IInv /\ IInv' /\ MigrationsFit /\ [Next]_vars => MigrationsFit'
  <2>1. CASE UNCHANGED vars
    BY <2>1 DEF vars, MigrationsFit, Current
  <2>2. IInv' => FilesFit'
    BY DEF IInv
  <2> QED BY <2>1, <2>2, MigrationsFitNext
<1> QED BY <1>1, <1>2, StorageInvariant, PTL DEF Spec

(* A server that answers has every migration of its release, on whatever file it   *)
(* was started and whoever else migrated it (migrations/index.ts:176-193).         *)
THEOREM ServersAreMigrated == Spec => []ServerRunsMigrated
<1>1. MigrationsFit => ServerRunsMigrated
  BY DEF MigrationsFit, ServerRunsMigrated
<1> QED BY <1>1, MigrationsAreKnown, PTL

-----------------------------------------------------------------------------------
(* What a restore leaves. *)

\* From its verification on, a whole source is there and as it was verified.  The live file
\* is excepted, which a server may write, and a file that the database was moved onto.
SourceIsKept ==
  /\ ~disturbed
  /\ restore.step \in {"move"} \cup Replacing
  /\ restore.src # restore.aside /\ restore.src # Live /\ restore.verified.whole
  => Exists(restore.src) /\ disk[restore.src] = restore.verified

(* Which steps change what a restore has found. *)
LEMMA RestoreChange ==
  ASSUME IInv, Next
  PROVE  \/ restore'.step \notin {"move"} \cup Replacing
         \/ Verify /\ Exists(restore.src) /\ restore'.src = restore.src
              /\ restore'.verified = disk[restore.src]
         \/ /\ restore.step \in {"move"} \cup Replacing
            /\ restore'.src = restore.src /\ restore'.aside = restore.aside
            /\ restore'.verified = restore.verified
<1> USE DEF Replacing
<1>1. restore \in [step : RestoreSteps, src : Name, aside : Name, moved : BOOLEAN,
                   port : 1..(PortCount + 1), force : BOOLEAN, missed : BOOLEAN,
                   verified : Content \cup {NULL}]
  BY DEF IInv, Types, CommandsTyped, RestoreTyped
<1>2. ASSUME NEW p \in Servers, OpenDatabase(p) \/ ServerStep(p)
      PROVE  UNCHANGED restore
  BY <1>2, ServerEffect, NextObserves DEF OpenDatabase, commands
<1>3. BackupBegin \/ BackupEnd \/ BackupCrash \/ Watches => UNCHANGED restore
  BY DEF BackupBegin, BackupEnd, BackupCrash, Watches, StatusBegin, StatusProbe, Inspect, Tick,
     commands
<1>4. CASE Moves
  <2>1. ASSUME NEW src \in DOMAIN disk, NEW force \in BOOLEAN, RestoreBegin(src, force)
        PROVE  restore'.step \notin {"move"} \cup Replacing
    BY <2>1 DEF RestoreBegin, NoRestore
  <2>2. CASE Probe \/ RestoreCrash
    BY <1>1, <2>2, ZenonT(60) DEF Probe, RestoreCrash, Goto
  <2>3. CASE Verify
    <3>1. \/ restore' = [restore EXCEPT !.step = "idle"]
          \/ /\ Exists(restore.src)
             /\ restore' = [restore EXCEPT !.step = "move", !.aside = AsideName(now),
                                           !.verified = disk[restore.src]]
      BY <2>3 DEF Verify, Goto
    <3> QED BY <1>1, <2>3, <3>1
  <2> QED BY <1>4, <2>1, <2>2, <2>3 DEF Moves
<1>5. CASE MoveAside \/ RemoveSidecars \/ CopyBegin \/ CopyEnd
  BY <1>1, <1>5 DEF MoveAside, RemoveSidecars, CopyBegin, CopyEnd, Goto, Restoring
<1> QED BY <1>2, <1>3, <1>4, <1>5, NextByGroups DEF NextDisjuncts

(* No step of another process writes to a whole backup. *)
LEMMA SourceIsKeptNext ==
  ASSUME IInv, SourceIsKept, Next
  PROVE  SourceIsKept'
<1> SUFFICES ASSUME restore'.step \in {"move"} \cup Replacing,
                    restore'.src # restore'.aside, restore'.src # Live,
                    restore'.verified.whole
             PROVE  restore'.src \in DOMAIN disk' /\ disk'[restore'.src] = restore'.verified
  BY DEF SourceIsKept, Exists
<1>1. CASE Verify /\ Exists(restore.src) /\ restore'.src = restore.src
             /\ restore'.verified = disk[restore.src]
  BY <1>1 DEF Verify, Exists
<1>2. CASE /\ restore.step \in {"move"} \cup Replacing
           /\ restore'.src = restore.src /\ restore'.aside = restore.aside
           /\ restore'.verified = restore.verified
  <2>1. restore.src \in DOMAIN disk /\ disk[restore.src] = restore.verified
    BY <1>2, NextObserves DEF SourceIsKept, Exists
  <2>2. BackupEnd => restore.src # backup.name
    BY <1>2, <2>1 DEF BackupEnd, IInv, BackupIsPart
  <2>3. restore.src \in DOMAIN disk' /\ disk'[restore.src] = disk[restore.src]
    BY <1>2, <2>1, <2>2, OthersKept
  <2> QED BY <1>2, <2>1, <2>3
<1> QED BY <1>1, <1>2, RestoreChange

(* A restore copies the very file it verified (restore.ts:165-185). *)
THEOREM SourcesAreKept == Spec => []SourceIsKept
<1>1. Init => SourceIsKept
  BY DEF Init, SourceIsKept, NoRestore, Replacing
<1>2. IInv /\ SourceIsKept /\ [Next]_vars => SourceIsKept'
  <2>1. CASE UNCHANGED vars
    BY <2>1 DEF vars, commands, SourceIsKept, Exists
  <2> QED BY <2>1, SourceIsKeptNext
<1> QED BY <1>1, <1>2, StorageInvariant, PTL DEF Spec

(* A restore that ends well leaves what it verified, with no journal to read over  *)
(* it, whatever restores before it were cut short (restore.ts:165-185).            *)
THEOREM RestoreLeavesTheBackup == Spec => RestoredIsTheBackup
<1> DEFINE Restored ==
      restore.step = "copying" /\ restore'.step = "done" /\ restore.src # restore.aside
       => LET live == disk'[Live]
          IN /\ ~disturbed' /\ restore.verified.whole =>
                  /\ live.whole /\ live.rows = restore.verified.rows
                  /\ live.applied = restore.verified.applied
             /\ wal' = NULL
<1>1. IInv /\ SourceIsKept /\ [Next]_vars => [Restored]_vars
  <2> SUFFICES ASSUME IInv, SourceIsKept, Next,
                      restore.step = "copying", restore'.step = "done",
                      restore.src # restore.aside
               PROVE  Restored
    OBVIOUS
  <2>1. restore \in [step : RestoreSteps, src : Name, aside : Name, moved : BOOLEAN,
                     port : 1..(PortCount + 1), force : BOOLEAN, missed : BOOLEAN,
                     verified : Content \cup {NULL}]
    BY DEF IInv, Types, CommandsTyped, RestoreTyped
  <2>2. CopyEnd
    <3>1. ASSUME NEW p \in Servers, OpenDatabase(p) \/ ServerStep(p)
          PROVE  UNCHANGED restore
      BY <3>1, ServerEffect, NextObserves DEF OpenDatabase, commands
    <3>2. BackupBegin \/ BackupEnd \/ BackupCrash \/ Watches => UNCHANGED restore
      BY DEF BackupBegin, BackupEnd, BackupCrash, Watches, StatusBegin, StatusProbe, Inspect,
         Tick, commands
    <3>3. ~(MoveAside \/ RemoveSidecars \/ CopyBegin)
      BY DEF MoveAside, RemoveSidecars, CopyBegin, Restoring
    <3>4. ~Moves
      <4>1. RestoreCrash => restore'.step = "idle"
        BY <2>1 DEF RestoreCrash, Goto
      <4> QED BY <4>1 DEF Moves, RestoreBegin, Probe, Verify, Restoring
    <3> QED BY <3>1, <3>2, <3>3, <3>4, NextByGroups DEF NextDisjuncts
  <2>3. Exists(Live) /\ restore.src # Live /\ wal = NULL /\ ~disturbed
    BY NextObserves DEF IInv, FilesFit, CopyHasFiles, JournalIsGone
  <2>4. wal' = NULL
    BY <2>2, <2>3 DEF CopyEnd
  <2>5. disk'[Live] = Copied(disk[restore.src])
    BY <2>2, <2>3 DEF CopyEnd, Exists
  <2>6. restore.verified.whole => disk[restore.src] = restore.verified
    BY <2>3 DEF SourceIsKept, Replacing
  <2> QED BY <2>4, <2>5, <2>6 DEF Copied, File
<1> QED BY <1>1, StorageInvariant, SourcesAreKept, PTL DEF Spec, RestoredIsTheBackup

-----------------------------------------------------------------------------------
(* What was in the database stays in some file. *)

Everything == UNION {disk[name].rows : name \in DOMAIN disk}
\* A copy begins empty.
CopyIsEmpty == ~disturbed /\ restore.step = "copying" => disk[Live].rows = {}
NothingIsLost == ~disturbed => stored \subseteq clobbered \cup Everything

(* Nobody adds rows to a copy that is under way. *)
LEMMA CopyIsEmptyNext ==
  ASSUME IInv, FilesFit', CopyIsEmpty, Next
  PROVE  CopyIsEmpty'
<1> SUFFICES ASSUME ~disturbed', restore'.step = "copying" PROVE disk'[Live].rows = {}
  BY DEF CopyIsEmpty
<1>1. CASE CopyBegin
  <2>1. Exists(restore.src)
    BY <1>1 DEF CopyBegin, Goto, IInv, Types, CommandsTyped, RestoreTyped
  <2> QED BY <1>1, <2>1 DEF CopyBegin, Written, File
<1>2. CASE ~CopyBegin
  <2>1. restore \in [step : RestoreSteps, src : Name, aside : Name, moved : BOOLEAN,
                     port : 1..(PortCount + 1), force : BOOLEAN, missed : BOOLEAN,
                     verified : Content \cup {NULL}]
    BY DEF IInv, Types, CommandsTyped, RestoreTyped
  <2>2. ~(MoveAside \/ RemoveSidecars \/ CopyEnd \/ Moves)
    <3>1. ~(MoveAside \/ RemoveSidecars \/ CopyEnd \/ RestoreCrash)
      BY <2>1 DEF MoveAside, RemoveSidecars, CopyEnd, RestoreCrash, Goto
    <3>2. ~(Probe \/ Verify)
      BY <2>1 DEF Probe, Verify, Goto
    <3>3. \A src \in DOMAIN disk, force \in BOOLEAN : ~RestoreBegin(src, force)
      BY DEF RestoreBegin, NoRestore
    <3> QED BY <3>1, <3>2, <3>3 DEF Moves
  <2>3. /\ \A p \in Servers : ServerStep(p) \/ OpenDatabase(p) => UNCHANGED restore
        /\ BackupBegin \/ BackupEnd \/ BackupCrash \/ Watches => UNCHANGED restore
    BY ServerEffect, NextObserves DEF OpenDatabase, BackupBegin, BackupEnd, BackupCrash,
       Watches, StatusBegin, StatusProbe, Inspect, Tick, commands
  <2>4. restore.step = "copying"
    BY <1>2, <2>2, <2>3, NextByGroups DEF NextDisjuncts
  <2>5. Exists(Live) /\ Open = {} /\ disk[Live].rows = {}
    BY <2>4, NextObserves
    DEF IInv, FilesFit, CopyHasFiles, ReplacesClosed, Replacing, CopyIsEmpty
  <2>6. \A p \in Servers : ~ServerStep(p)
    BY <2>5, ServerEffect, NextObserves
  <2>7. disk'[Live] = disk[Live]
    <3>1. \A p \in Servers : OpenDatabase(p) => UNCHANGED disk
      BY <2>5 DEF OpenDatabase
    <3>2. CASE BackupBegin
      BY <2>5, <3>2 DEF BackupBegin, BackupName, Live, Written, Exists
    <3>3. CASE BackupEnd
      <4>1. backup.name # Live
        BY <3>3 DEF BackupEnd, IInv, BackupIsPart, Live
      <4> QED BY <2>5, <3>3, <4>1 DEF BackupEnd, Exists
    <3>4. BackupCrash \/ Watches => UNCHANGED disk
      BY DEF BackupCrash, Watches, StatusBegin, StatusProbe, Inspect, Tick
    <3> QED BY <1>2, <2>2, <2>6, <3>1, <3>2, <3>3, <3>4, NextByGroups DEF NextDisjuncts
  <2> QED BY <2>5, <2>7
<1> QED BY <1>1, <1>2

(* A file is replaced only by a move onto its name, and a checkpoint or a copy only adds rows. *)
LEMMA NothingIsLostNext ==
  ASSUME IInv, CopyIsEmpty, NothingIsLost, Next
  PROVE  NothingIsLost'
<1> SUFFICES ASSUME ~disturbed', NEW r \in stored' PROVE r \in clobbered' \cup Everything'
  BY DEF NothingIsLost
<1>1. \A name \in DOMAIN disk' : disk'[name].rows \subseteq Everything'
  BY DEF Everything
<1>2. clobbered \subseteq clobbered'
  <2>1. ASSUME NEW p \in Servers, OpenDatabase(p) \/ ServerStep(p)
        PROVE  UNCHANGED clobbered
    BY <2>1, ServerEffect, NextObserves DEF OpenDatabase, history
  <2> QED BY <2>1, NextByGroups
          DEF NextDisjuncts, BackupBegin, BackupEnd, BackupCrash, Moves, RestoreBegin, Probe,
              Verify, RestoreCrash, MoveAside, RemoveSidecars, CopyBegin, CopyEnd, Watches,
              StatusBegin, StatusProbe, Inspect, Tick, history
<1>3. CASE Live \in DOMAIN disk' /\ r \in disk'[Live].rows
  BY <1>1, <1>3
<1>4. CASE r \in stored
  <2>1. r \in clobbered \/ \E name \in DOMAIN disk : r \in disk[name].rows
    BY <1>4, NextObserves DEF NothingIsLost, Everything
  <2>2. ASSUME NEW name \in DOMAIN disk, r \in disk[name].rows, name # Live
        PROVE  r \in clobbered' \cup Everything'
    <3>1. BackupEnd => name # backup.name
      BY <2>2 DEF BackupEnd, IInv, BackupIsPart
    <3>2. CASE MoveAside /\ name = restore.aside
      <4>1. CASE Exists(Live)
        BY <2>2, <3>2, <4>1 DEF MoveAside, Exists
      <4>2. CASE ~Exists(Live)
        BY <1>1, <2>2, <3>2, <4>2 DEF MoveAside
      <4> QED BY <4>1, <4>2
    <3>3. CASE MoveAside => name # restore.aside
      BY <1>1, <2>2, <3>1, <3>3, OthersKept
    <3> QED BY <3>2, <3>3
  <2>3. ASSUME Exists(Live), r \in disk[Live].rows
        PROVE  r \in Everything'
    <3>1. ASSUME NEW p \in Servers, OpenDatabase(p) PROVE r \in Everything'
      BY <1>1, <2>3, <3>1 DEF OpenDatabase, Exists
    <3>2. ASSUME NEW p \in Servers, ServerStep(p) PROVE r \in Everything'
      <4>1. CASE UNCHANGED disk
        BY <1>1, <2>3, <4>1 DEF Exists
      <4>2. CASE wal # NULL /\ disk' = Checkpointed
        <5>1. disk[Live].rows \subseteq wal.rows
          BY <2>3, <4>2, NextObserves DEF IInv, FilesFit, JournalExtends
        <5>2. Live \in DOMAIN disk' /\ disk'[Live].rows = wal.rows
          BY <2>3, <4>2, CheckpointTyped DEF IInv, Exists
        <5> QED BY <1>1, <2>3, <5>1, <5>2
      <4> QED BY <3>2, <4>1, <4>2, ServerEffect, NextObserves
    <3>3. CASE BackupBegin
      BY <1>1, <2>3, <3>3 DEF BackupBegin, BackupName, Live, Written, Exists
    <3>4. CASE BackupEnd
      <4>1. backup.name # Live
        BY <3>4 DEF BackupEnd, IInv, BackupIsPart, Live
      <4> QED BY <1>1, <2>3, <3>4, <4>1 DEF BackupEnd, Exists
    <3>5. CASE MoveAside
      <4>1. restore.aside # Live
        BY <3>5 DEF MoveAside, Restoring, IInv, AsideIsNamed, Live
      <4>2. restore.aside \in DOMAIN disk' /\ disk'[restore.aside] = disk[Live]
        BY <2>3, <3>5, <4>1 DEF MoveAside, Renamed
      <4> QED BY <1>1, <2>3, <4>2
    <3>6. ~CopyBegin
      BY <2>3, NextObserves DEF CopyBegin, Restoring, IInv, FilesFit, MovedIsGone
    <3>7. ~CopyEnd
      BY <2>3, NextObserves DEF CopyEnd, Restoring, CopyIsEmpty
    <3>8. BackupCrash \/ Moves \/ RemoveSidecars \/ Watches => UNCHANGED disk
      BY DEF BackupCrash, Moves, RestoreBegin, Probe, Verify, RestoreCrash, RemoveSidecars,
         Watches, StatusBegin, StatusProbe, Inspect, Tick
    <3>9. CASE UNCHANGED disk
      BY <1>1, <2>3, <3>9 DEF Exists
    <3> QED BY <3>1, <3>2, <3>3, <3>4, <3>5, <3>6, <3>7, <3>8, <3>9, NextByGroups
            DEF NextDisjuncts
  <2> QED BY <1>2, <2>1, <2>2, <2>3 DEF Exists
<1>5. r \in stored \/ (Live \in DOMAIN disk' /\ r \in disk'[Live].rows)
  BY NextObserves DEF Observe
<1> QED BY <1>3, <1>4, <1>5

(* Every row the database file held is in some file, unless a move overwrote it. *)
THEOREM RowsAreKept == Spec => []NothingIsLost
<1>1. Init => CopyIsEmpty /\ NothingIsLost
  BY DEF Init, CopyIsEmpty, NothingIsLost, NoRestore
<1>2. IInv /\ IInv' /\ CopyIsEmpty /\ NothingIsLost /\ [Next]_vars
        => (CopyIsEmpty /\ NothingIsLost)'
  <2>1. CASE UNCHANGED vars
    BY <2>1 DEF vars, commands, history, CopyIsEmpty, NothingIsLost, Everything
  <2>2. IInv' => FilesFit'
    BY DEF IInv
  <2> QED BY <2>1, <2>2, CopyIsEmptyNext, NothingIsLostNext
<1> QED BY <1>1, <1>2, StorageInvariant, PTL DEF Spec

(* Whatever was once in the database file is in some file of the directory for     *)
(* good, unless another was moved onto it within one second (restore.ts:165-172).  *)
THEOREM FilesAreKept == Spec => []FileIsKept
<1>1. NothingIsLost => FileIsKept
  BY DEF NothingIsLost, Everything, FileIsKept
<1> QED BY <1>1, RowsAreKept, PTL

-----------------------------------------------------------------------------------
(* What a search of the ports finds. *)

(* A server that is up before and after a step has the same port.                  *)
LEMMA UpKeepsPort ==
  ASSUME IInv, PortsFit, Next, NEW q \in Servers, srv[q].phase = "up", srv'[q].phase = "up"
  PROVE  srv'[q].port = srv[q].port
<1>1. srv \in [Servers -> [phase : {"down", "opened", "migrated", "up"},
                           known : SUBSET Migrations, port : 0..PortCount]]
  BY DEF IInv, Types, ServersTyped
<1>2. ASSUME NEW p \in Servers, srv' = [srv EXCEPT ![p] = Down]
      PROVE  srv'[q].port = srv[q].port
  BY <1>1, <1>2 DEF Down
<1>3. ASSUME NEW p \in Servers, srv[p].phase # "up",
             NEW known \in SUBSET Migrations, NEW phase \in {"opened", "migrated"},
             srv' = [srv EXCEPT ![p].phase = phase, ![p].known = known]
      PROVE  srv'[q].port = srv[q].port
  BY <1>1, <1>3
<1>4. ASSUME NEW p \in Servers, NEW port \in 1..PortCount, srv[p].phase # "up",
             srv' = [srv EXCEPT ![p].phase = "up", ![p].port = port]
      PROVE  srv'[q].port = srv[q].port
  BY <1>1, <1>4
<1>5. CASE UNCHANGED srv
  BY <1>5
<1>6. CASE ~ UNCHANGED srv
  <2>1. PICK p \in Servers :
          \/ srv' = [srv EXCEPT ![p] = Down]
          \/ /\ srv[p].phase # "up"
             /\ \E known \in SUBSET Migrations, phase \in {"opened", "migrated"} :
                  srv' = [srv EXCEPT ![p].phase = phase, ![p].known = known]
          \/ /\ srv[p].phase # "up"
             /\ \E port \in 1..PortCount : srv' = [srv EXCEPT ![p].phase = "up", ![p].port = port]
    BY <1>6, ServersChange, Zenon
  <2> QED BY <2>1, <1>2, <1>3, <1>4, Zenon
<1> QED BY <1>5, <1>6

(* A port at which nobody answers is not the port of a server that is up.          *)
LEMMA NobodyThere ==
  ASSUME IInv, PortsFit, NEW port \in 1..PortCount, NEW q \in Servers,
         srv[q].phase = "up", srv[q].port >= port, ~Answers(port)
  PROVE  srv[q].port >= NextProbe(port) /\ srv[q].port <= PortCount
<1>1. srv[q].port \in 0..PortCount /\ srv[q].port # port
  BY DEF IInv, Types, ServersTyped, Answers, Answering
<1> QED BY <1>1, Bounds DEF NextProbe

\* A server that was up when the restore began and still is has a port not yet tried; past
\* the search there is none.
SearchFits ==
  /\ watched \subseteq Running
  /\ restore.step = "probe" /\ ~restore.missed =>
       \A q \in watched : srv[q].port >= restore.port
  /\ restore.step \in {"verify", "move"} \cup Replacing /\ ~restore.force /\ ~restore.missed
       => watched = {}

(* A restore tries the ports in order, and servers keep the port they have. *)
LEMMA SearchFitsNext ==
  ASSUME IInv, PortsFit, SearchFits, Next
  PROVE  SearchFits'
<1> USE DEF Replacing
<1>1. restore \in [step : RestoreSteps, src : Name, aside : Name, moved : BOOLEAN,
                   port : 1..(PortCount + 1), force : BOOLEAN, missed : BOOLEAN,
                   verified : Content \cup {NULL}]
  BY DEF IInv, Types, CommandsTyped, RestoreTyped
<1>2. watched' = IF restore.step \in {"idle", "done"} THEN Running' ELSE watched \cap Running'
  BY NextObserves DEF Observe
<1>3. watched' \subseteq Running'
  BY <1>2
<1>4. ASSUME restore.step \notin {"idle", "done"}, NEW q \in watched'
      PROVE  /\ q \in watched /\ q \in Servers /\ srv[q].phase = "up"
             /\ srv'[q].port = srv[q].port
  <2>1. q \in watched /\ q \in Running /\ q \in Running'
    BY <1>2, <1>4 DEF SearchFits
  <2> QED BY <2>1, UpKeepsPort DEF Running
<1>5. CASE UNCHANGED restore
  <2>1. CASE restore.step \in {"idle", "done"}
    BY <1>3, <1>5, <2>1 DEF SearchFits
  <2>2. CASE restore.step \notin {"idle", "done"}
    <3>1. watched' \subseteq watched
      BY <1>2, <2>2
    <3>2. restore'.step = "probe" /\ ~restore'.missed =>
            \A q \in watched' : srv'[q].port >= restore'.port
      BY <1>4, <1>5, <2>2 DEF SearchFits
    <3> QED BY <1>3, <1>5, <3>1, <3>2 DEF SearchFits
  <2> QED BY <2>1, <2>2
<1>6. ASSUME NEW src \in DOMAIN disk, NEW force \in BOOLEAN, RestoreBegin(src, force)
      PROVE  SearchFits'
  <2>1. /\ restore'.step = IF force THEN "verify" ELSE "probe"
        /\ restore'.port = 1 /\ restore'.force = force
    BY <1>6 DEF RestoreBegin, NoRestore
  <2>2. \A q \in watched' : srv'[q].port >= 1
    <3>1. ASSUME NEW q \in watched' PROVE srv[q].port # 0 /\ srv[q].port \in 0..PortCount
      BY <1>3, <1>6, <3>1 DEF RestoreBegin, Running, PortsFit, IInv, Types, ServersTyped
    <3>2. UNCHANGED srv
      BY <1>6 DEF RestoreBegin
    <3> QED BY <3>1, <3>2, Bounds
  <2> QED BY <1>3, <2>1, <2>2 DEF SearchFits
<1>7. CASE Probe
  <2> DEFINE next == NextProbe(restore.port)
             step == IF next > PortCount THEN "verify" ELSE "probe"
  <2>1. restore.step = "probe" /\ UNCHANGED srv /\ restore.port \in 1..PortCount
    BY <1>7 DEF Probe, Restoring, IInv, Types, CommandsTyped, RestoreTyped
  <2>2. \/ restore'.step = "idle" \/ restore'.missed
        \/ /\ ~Answers(restore.port) /\ restore'.port = next /\ restore'.step = step
           /\ restore'.missed = restore.missed
    <3>1. \/ restore' = [restore EXCEPT !.step = "idle"]
          \/ restore' = [restore EXCEPT !.port = next, !.step = step, !.missed = TRUE]
          \/ /\ ~Answers(restore.port)
             /\ restore' = [restore EXCEPT !.port = next, !.step = step]
      BY <1>7 DEF Probe, Goto
    <3> HIDE DEF next, step
    <3> QED BY <1>1, <3>1
  <2>3. CASE restore'.step = "idle" \/ restore'.missed
    BY <1>3, <2>3 DEF SearchFits
  <2>4. CASE /\ ~Answers(restore.port) /\ restore'.port = next /\ restore'.step = step
             /\ restore'.missed = restore.missed
    <3>1. CASE restore.missed
      BY <1>3, <2>4, <3>1 DEF SearchFits
    <3>2. CASE ~restore.missed
      <4>1. ASSUME NEW q \in watched'
            PROVE  srv'[q].port >= next /\ srv[q].port \in 0..PortCount /\ next <= PortCount
        <5>1. /\ q \in watched /\ q \in Servers /\ srv[q].phase = "up"
              /\ srv'[q].port = srv[q].port /\ srv[q].port >= restore.port
          BY <1>4, <2>1, <3>2, <4>1 DEF SearchFits
        <5>2. srv[q].port >= next /\ srv[q].port <= PortCount
          BY <2>1, <2>4, <5>1, NobodyThere
        <5>3. srv[q].port \in 0..PortCount
          BY <5>1 DEF IInv, Types, ServersTyped
        <5> QED BY <2>1, <5>1, <5>2, <5>3, Bounds DEF NextProbe
      <4>2. next \in Nat
        BY <2>1, Bounds DEF NextProbe
      <4> HIDE DEF next
      <4>3. step = "verify" => watched' = {}
        BY <4>1, <4>2, Bounds
      <4> HIDE DEF step
      <4>4. step \in {"verify", "probe"}
        BY DEF step
      <4> QED BY <1>3, <2>4, <4>1, <4>3, <4>4 DEF SearchFits
    <3> QED BY <3>1, <3>2
  <2> QED BY <2>2, <2>3, <2>4
<1>8. CASE Verify \/ MoveAside \/ RemoveSidecars \/ CopyBegin \/ CopyEnd
  <2>1. /\ restore.step \in {"verify", "move"} \cup Replacing
        /\ restore'.force = restore.force /\ restore'.missed = restore.missed
        /\ restore'.step # "probe"
    <3>1. CASE Verify
      <4>1. \/ restore' = [restore EXCEPT !.step = "idle"]
            \/ restore' = [restore EXCEPT !.step = "move", !.aside = AsideName(now),
                                          !.verified = disk[restore.src]]
        BY <3>1 DEF Verify, Goto
      <4> QED BY <1>1, <3>1, <4>1 DEF Verify, Restoring
    <3>2. CASE MoveAside
      BY <1>1, <3>2 DEF MoveAside, Restoring
    <3>3. CASE RemoveSidecars \/ CopyBegin \/ CopyEnd
      <4>1. \E to \in {"idle", "copy", "copying", "done"} :
              restore' = [restore EXCEPT !.step = to]
        BY <3>3 DEF RemoveSidecars, CopyBegin, CopyEnd, Goto
      <4> QED BY <1>1, <3>3, <4>1 DEF RemoveSidecars, CopyBegin, CopyEnd, Restoring
    <3> QED BY <1>8, <3>1, <3>2, <3>3
  <2>2. watched' \subseteq watched
    BY <1>2, <2>1
  <2> QED BY <1>3, <2>1, <2>2 DEF SearchFits
<1>9. CASE RestoreCrash
  <2>1. restore'.step = "idle"
    BY <1>1, <1>9 DEF RestoreCrash, Goto
  <2> QED BY <1>3, <2>1 DEF SearchFits
<1>10. ASSUME NEW p \in Servers, OpenDatabase(p) \/ ServerStep(p)
      PROVE  UNCHANGED restore
  BY <1>10, ServerEffect, NextObserves DEF OpenDatabase, commands
<1>11. BackupBegin \/ BackupEnd \/ BackupCrash \/ Watches => UNCHANGED restore
  BY DEF BackupBegin, BackupEnd, BackupCrash, Watches, StatusBegin, StatusProbe, Inspect, Tick,
     commands
<1> QED BY <1>5, <1>6, <1>7, <1>8, <1>9, <1>10, <1>11, NextByGroups DEF NextDisjuncts, Moves

(* A restore without --force never goes on past a server that was up when it began *)
(* and answers in time, whichever port that server had to take (restore.ts:74-81). *)
THEOREM RestoreSeesRunning == Spec => []RestoreRefusesRunning
<1>1. Init => SearchFits
  BY DEF Init, SearchFits, NoRestore, Replacing
<1>2. IInv /\ PortsFit /\ SearchFits /\ [Next]_vars => SearchFits'
  <2>1. CASE UNCHANGED vars
    BY <2>1 DEF vars, commands, SearchFits, Running
  <2> QED BY <2>1, SearchFitsNext
<1>3. SearchFits => RestoreRefusesRunning
  BY DEF SearchFits, RestoreRefusesRunning
<1> QED BY <1>1, <1>2, <1>3, StorageInvariant, PortsAreOwn, PTL DEF Spec

\* While status looks: whoever was up throughout has a port not yet tried, past a search
\* without an answer there is none, and who answered, or is up, was seen.
LookFits ==
  Looking =>
    /\ attended.all \subseteq Running
    /\ status.answering \/ Running # {} => attended.any
    /\ status.step = "probe" /\ ~status.missed =>
         \A q \in attended.all : srv[q].port >= status.port
    /\ status.step = "inspect" /\ ~status.missed /\ ~status.answering => attended.all = {}

(* So does status, which also counts whoever starts or stops meanwhile. *)
LEMMA LookFitsNext ==
  ASSUME IInv, PortsFit, LookFits, Next
  PROVE  LookFits'
<1> SUFFICES ASSUME Looking' PROVE LookFits'
  BY DEF LookFits
<1>1. status \in [step : StatusSteps, port : 1..PortCount, answering : BOOLEAN,
                  missed : BOOLEAN]
  BY DEF IInv, Types, CommandsTyped
<1>2. attended' = [all |-> IF Looking THEN attended.all \cap Running' ELSE Running',
                   any |-> attended.any \/ Running' # {}]
  BY NextObserves DEF Observe
<1>3. attended'.all \subseteq Running' /\ (Running' # {} => attended'.any)
  BY <1>2
<1>4. ASSUME Looking, NEW q \in attended'.all
      PROVE  /\ q \in attended.all /\ q \in Servers /\ srv[q].phase = "up"
             /\ srv'[q].port = srv[q].port
  <2>1. q \in attended.all /\ q \in Running /\ q \in Running'
    BY <1>2, <1>4 DEF LookFits
  <2> QED BY <2>1, UpKeepsPort DEF Running
<1>5. Looking /\ attended.any => attended'.any
  BY <1>2
<1>6. CASE UNCHANGED status
  <2>1. Looking
    BY <1>6 DEF Looking
  <2>2. attended'.all \subseteq attended.all
    BY <1>2, <2>1
  <2>3. status'.step = "probe" /\ ~status'.missed =>
          \A q \in attended'.all : srv'[q].port >= status'.port
    BY <1>4, <1>6, <2>1 DEF LookFits
  <2> QED BY <1>3, <1>5, <1>6, <2>1, <2>2, <2>3 DEF LookFits
<1>7. CASE StatusBegin
  <2>1. /\ status' = [step |-> "probe", port |-> 1, answering |-> FALSE, missed |-> FALSE]
        /\ UNCHANGED srv
    BY <1>7 DEF StatusBegin, NoStatus
  <2>2. ASSUME NEW q \in attended'.all PROVE srv'[q].port >= 1
    <3>1. srv[q].port # 0 /\ srv[q].port \in 0..PortCount
      BY <1>3, <2>1, <2>2 DEF Running, PortsFit, IInv, Types, ServersTyped
    <3> QED BY <2>1, <3>1, Bounds
  <2> QED BY <1>3, <2>1, <2>2 DEF LookFits
<1>8. CASE StatusProbe
  <2> DEFINE next == NextProbe(status.port)
  <2>1. status.step = "probe" /\ UNCHANGED srv /\ Looking /\ status.port \in 1..PortCount
    BY <1>1, <1>8 DEF StatusProbe, Looking
  <2>2. \/ /\ Answers(status.port) /\ status'.step = "inspect" /\ status'.answering
        \/ /\ status'.missed /\ status'.answering = status.answering
        \/ /\ ~Answers(status.port) /\ status'.answering = status.answering
           /\ status'.missed = status.missed
           /\ \/ next > PortCount /\ status'.step = "inspect"
              \/ ~(next > PortCount) /\ status'.step = "probe" /\ status'.port = next
    <3>1. \/ /\ Answers(status.port)
             /\ status' = [status EXCEPT !.step = "inspect", !.port = 1, !.answering = TRUE]
          \/ status' = [status EXCEPT !.step = "inspect", !.port = 1, !.missed = TRUE]
          \/ status' = [status EXCEPT !.port = next, !.missed = TRUE]
          \/ /\ ~Answers(status.port) /\ next > PortCount
             /\ status' = [status EXCEPT !.step = "inspect", !.port = 1]
          \/ /\ ~Answers(status.port) /\ ~(next > PortCount)
             /\ status' = [status EXCEPT !.port = next]
      BY <1>1, <1>8 DEF StatusProbe
    <3> HIDE DEF next
    <3> QED BY <1>1, <2>1, <3>1
  <2>3. CASE Answers(status.port) /\ status'.step = "inspect" /\ status'.answering
    <3>1. PICK q \in Servers : srv[q].port = status.port
      BY <2>3 DEF Answers, Answering
    <3>2. q \in Running'
      BY <1>1, <2>1, <3>1, Bounds DEF Running, PortsFit
    <3> QED BY <1>3, <2>3, <3>2 DEF LookFits
  <2>4. CASE status'.missed /\ status'.answering = status.answering
    BY <1>3, <1>5, <2>1, <2>4 DEF LookFits
  <2>5. CASE /\ ~Answers(status.port) /\ status'.answering = status.answering
             /\ status'.missed = status.missed
             /\ \/ next > PortCount /\ status'.step = "inspect"
                \/ ~(next > PortCount) /\ status'.step = "probe" /\ status'.port = next
    <3>1. CASE status.missed
      BY <1>3, <1>5, <2>1, <2>5, <3>1 DEF LookFits
    <3>2. CASE ~status.missed
      <4>1. ASSUME NEW q \in attended'.all
            PROVE  srv'[q].port >= next /\ ~(next > PortCount)
        <5>1. /\ q \in Servers /\ srv[q].phase = "up"
              /\ srv'[q].port = srv[q].port /\ srv[q].port >= status.port
          BY <1>4, <2>1, <3>2, <4>1 DEF LookFits
        <5>2. srv[q].port >= next /\ srv[q].port <= PortCount
          BY <2>1, <2>5, <5>1, NobodyThere
        <5>3. srv[q].port \in 0..PortCount /\ next \in Nat
          BY <2>1, <5>1, Bounds DEF NextProbe, IInv, Types, ServersTyped
        <5> HIDE DEF next
        <5> QED BY <5>1, <5>2, <5>3, Bounds
      <4> HIDE DEF next
      <4> QED BY <1>3, <1>5, <2>1, <2>5, <4>1 DEF LookFits
    <3> QED BY <3>1, <3>2
  <2> QED BY <2>2, <2>3, <2>4, <2>5
<1>9. ~Inspect
  BY DEF Inspect, NoStatus, Looking
<1>10. Tick => UNCHANGED status
  BY DEF Tick, commands
<1>11. ASSUME NEW p \in Servers, OpenDatabase(p) \/ ServerStep(p)
      PROVE  UNCHANGED status
  BY <1>11, ServerEffect, NextObserves DEF OpenDatabase, commands
<1>12. BackupBegin \/ BackupEnd \/ BackupCrash \/ Moves \/ MoveAside \/ RemoveSidecars
         \/ CopyBegin \/ CopyEnd => UNCHANGED status
  BY DEF BackupBegin, BackupEnd, BackupCrash, Moves, RestoreBegin, Probe, Verify, RestoreCrash,
     MoveAside, RemoveSidecars, CopyBegin, CopyEnd
<1> QED BY <1>6, <1>7, <1>8, <1>9, <1>10, <1>11, <1>12, NextByGroups DEF NextDisjuncts, Watches

(* What status has seen so far is what was there to be seen. *)
THEOREM LooksAreSound == Spec => []LookFits
<1>1. Init => LookFits
  BY DEF Init, LookFits, Looking, NoStatus
<1>2. IInv /\ PortsFit /\ LookFits /\ [Next]_vars => LookFits'
  <2>1. CASE UNCHANGED vars
    BY <2>1 DEF vars, commands, LookFits, Looking, Running
  <2> QED BY <2>1, LookFitsNext
<1> QED BY <1>1, <1>2, StorageInvariant, PortsAreOwn, PTL DEF Spec

(* `tadoru status` ends with 0 only if a server was up while it looked, and does   *)
(* so whenever one was up all the time and answered in time (status.ts:471-501).   *)
THEOREM StatusTellsTheTruth == Spec => StatusIsHonest
<1> DEFINE Honest ==
      status.step = "inspect" /\ ~Looking' =>
       /\ status'.step = "exit 0" => attended.any
       /\ attended.all # {} /\ ~status.missed /\ disk[Live].whole
            => status'.step = "exit 0"
<1>1. IInv /\ LookFits /\ MigrationsFit /\ [Next]_vars => [Honest]_vars
  <2> SUFFICES ASSUME IInv, LookFits, MigrationsFit, Next, status.step = "inspect", ~Looking'
               PROVE  Honest
    OBVIOUS
  <2>1. Looking
    BY DEF Looking
  <2>2. Inspect
    <3>1. UNCHANGED status => Looking'
      BY <2>1 DEF Looking
    <3>2. ~StatusBegin /\ ~StatusProbe
      BY <2>1 DEF StatusBegin, StatusProbe
    <3>3. Tick => UNCHANGED status
      BY DEF Tick, commands
    <3>4. ASSUME NEW p \in Servers, OpenDatabase(p) \/ ServerStep(p)
          PROVE  UNCHANGED status
      BY <3>4, ServerEffect, NextObserves DEF OpenDatabase, commands
    <3>5. BackupBegin \/ BackupEnd \/ BackupCrash \/ Moves \/ MoveAside \/ RemoveSidecars
            \/ CopyBegin \/ CopyEnd => UNCHANGED status
      BY DEF BackupBegin, BackupEnd, BackupCrash, Moves, RestoreBegin, Probe, Verify,
         RestoreCrash, MoveAside, RemoveSidecars, CopyBegin, CopyEnd
    <3> QED BY <3>1, <3>2, <3>3, <3>4, <3>5, NextByGroups DEF NextDisjuncts, Watches
  <2> DEFINE readable == Exists(Live) /\ Current.applied # {}
  <2>3. \/ readable /\ status.answering /\ status'.step = "exit 0"
        \/ (readable => ~disk[Live].whole \/ ~status.answering) /\ status'.step = "exit 1"
    BY <2>2 DEF Inspect, NoStatus
  <2>4. status'.step = "exit 0" => attended.any
    BY <2>1, <2>3 DEF LookFits
  <2>5. ASSUME attended.all # {}, ~status.missed, disk[Live].whole
        PROVE  status'.step = "exit 0"
    <3>1. status.answering
      BY <2>1, <2>5 DEF LookFits
    <3>2. PICK q \in Servers : srv[q].phase = "up"
      BY <2>1, <2>5 DEF LookFits, Running
    <3>3. Exists(Live)
      BY <3>2, NextObserves DEF IInv, FilesFit, OpenHasFile, Open
    <3>4. Current.applied # {}
      BY <3>2, NextObserves, StorageAssumption DEF MigrationsFit
    <3> QED BY <2>3, <2>5, <3>1, <3>3, <3>4
  <2> QED BY <2>4, <2>5
<1> QED BY <1>1, StorageInvariant, LooksAreSound, MigrationsAreKnown, PTL
        DEF Spec, StatusIsHonest
===================================================================================
