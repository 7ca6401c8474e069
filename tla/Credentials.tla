------------------------------- MODULE Credentials -------------------------------
(* The administrator's password and session: the file tadoru.env as init,             *)
(* install-service, reset-password and the operator's editor leave it, the            *)
(* configuration a process loads from it, the session secret in the data directory,   *)
(* and the cookie of a browser.  A command is killed between any two of its system    *)
(* calls; the processes that load the configuration (`start`; `status` and `restore`  *)
(* end after it) run beside it.  systemd, or the shell, which makes the environment   *)
(* of the file, is external.                                                          *)
EXTENDS Integers, Selection

CONSTANTS Processes,    \* processes that load the configuration
          HandLines,    \* lines an operator writes by hand
          HandFiles,    \* files made without install-service, or by an earlier release
          Own,          \* a password, or a session secret, of the operator's own
          Example,      \* a password of KNOWN_EXAMPLE_ADMIN_PASSWORDS
          Placeholder,  \* a hash or a salt that is not hexadecimal of the right length
          Blank, NULL

CONSTANTS MaxNow, MaxStarts, MaxCommands, MaxFaults, MaxEdits  \* bounds

ASSUME CredentialsAssumption ==
  /\ MaxNow \in Nat /\ MaxStarts \in Nat /\ MaxCommands \in Nat /\ MaxFaults \in Nat
  /\ MaxEdits \in Nat /\ NULL \notin Nat /\ Blank \notin Nat

VARIABLES
  env,         \* the lines of tadoru.env, or NULL when there is no such file
  configFile,  \* "adminPassword" of tadoru.config.json, Blank without it, or NULL without a file
  baks,        \* the dated copies of tadoru.env, by the second in their name
  secretFile,  \* the file session-secret: NULL, Blank or a secret
  cmd,         \* init, install-service or reset-password: name, step, content read, password
  proc,        \* the processes: phase, credential, secret, TADORU_SESSION_SECRET
  jar,         \* the cookie of the administrator's browser, or NULL
  shown,       \* the password a command that ended printed, and nobody edited since, or NULL
  now,         \* the second that names files
  used,        \* starts, commands, faults and edits so far (bounds)
  replaced,    \* contents that a reset has begun to replace (history)
  clobbered,   \* copies that another reset of the same second overwrote (history)
  raced        \* two processes generated a secret at the same time (history)

history == <<replaced, clobbered, raced>>
files == <<env, configFile, baks, secretFile>>
vars == <<files, cmd, proc, jar, shown, now, used, history>>

\* A generated password or secret is a number; a hash and a salt stand for the password
\* they were made of, so that they match when they are equal.
Generated == 1..(MaxStarts + MaxCommands)
Value == Generated \cup {Own, Example, Placeholder, Blank}
Line == [key : {"hash", "salt", "plain", "secret", "other"}, value : Value]
L(key, value) == [key |-> key, value |-> value]
Set(value) == value \notin {NULL, Blank}

\* A generated value is neither an example nor a placeholder.
ASSUME FilesAssumption ==
  /\ {Example, Placeholder} \cap Nat = {} /\ NULL \notin Seq(Line)
  /\ HandLines \subseteq Line /\ HandFiles \subseteq Seq(Line)

Idle == [name |-> NULL, step |-> "idle", content |-> <<>>, password |-> NULL]
Down == [phase |-> "down", admin |-> NULL, secret |-> NULL, setting |-> NULL]
Up(p) == proc[p].phase = "up"

\* hashPassword, and the two facts the code uses of it.
Hashed(password) == [hash |-> password, salt |-> password]
Usable(admin) == Placeholder \notin {admin.hash, admin.salt}
VerifyPasswordHash(candidate, admin) == Hashed(candidate) = admin

\* No process listens with an empty or a malformed credential.
TypeOK ==
  /\ env = NULL \/ env \in Seq(Line)
  /\ configFile \in {Own, Blank, NULL} /\ secretFile \in Generated \cup {Blank, NULL}
  /\ DOMAIN baks \subseteq 0..MaxNow /\ \A t \in DOMAIN baks : baks[t].content \in Seq(Line)
  /\ cmd.step \in {"idle", "ready", "truncated", "written"}
  /\ \A p \in Processes :
       /\ proc[p].phase \in {"down", "fresh", "creating", "up"}
       /\ Up(p) => /\ Usable(proc[p].admin) /\ Set(proc[p].secret)
                   /\ {proc[p].admin.hash, proc[p].admin.salt} \cap {NULL, Blank} = {}
  /\ jar = NULL \/ jar.secret \in Generated \cup {Own}
  /\ shown \in Generated \cup {NULL} /\ now \in 0..MaxNow /\ raced \in BOOLEAN

Init ==
  /\ env \in {NULL} \cup HandFiles /\ configFile \in {Own, NULL}
  /\ baks = <<>> /\ secretFile = NULL /\ cmd = Idle /\ proc = [p \in Processes |-> Down]
  /\ jar = NULL /\ shown = NULL /\ now = 0
  /\ used = [starts |-> 0, commands |-> 0, faults |-> 0, edits |-> 0]
  /\ replaced = {} /\ clobbered = {} /\ raced = FALSE

Begins(what, bound) == used[what] < bound /\ used' = [used EXCEPT ![what] = @ + 1]
Fault == Begins("faults", MaxFaults)

-----------------------------------------------------------------------------------
(* Loading the configuration. *)

\* systemd: of several assignments to one variable the last one counts.
Variable(key) ==
  LET i == SelectLastInSeq(env, LAMBDA line : line.key = key)
  IN  IF i = 0 THEN NULL ELSE env[i].value

\* The plaintext of the environment counts, even an empty one, before that of the file.
Plaintext == IF Variable("plain") # NULL THEN Variable("plain") ELSE configFile

\* Deliberate fault: the pair is looked at only when there is no plaintext.
PlaintextFirst ==
  LET pair == [hash |-> Variable("hash"), salt |-> Variable("salt")]
  IN  IF Set(Plaintext) THEN IF Plaintext # Example THEN Hashed(Plaintext) ELSE NULL
      ELSE IF Set(pair.hash) /\ Set(pair.salt) /\ Usable(pair) THEN pair ELSE NULL
\* loadConfig: the credential it yields, or NULL when it refuses.
loadConfig ==
  LET pair == [hash |-> Variable("hash"), salt |-> Variable("salt")]
  IN  IF Set(pair.hash) # Set(pair.salt) THEN NULL
      ELSE IF Set(pair.hash) THEN IF Usable(pair) THEN pair ELSE NULL
      ELSE IF Set(Plaintext) /\ Plaintext # Example THEN Hashed(Plaintext) ELSE NULL

\* resolveSessionSecret finds one that is set or stored, or generates one.
Setting == IF Set(Variable("secret")) THEN Variable("secret") ELSE NULL
\* Deliberate fault: the file that is there is not read.
AlwaysGenerated == Setting
resolveSessionSecret == IF Setting # NULL THEN Setting
                        ELSE IF Set(secretFile) THEN secretFile ELSE NULL

Generating(p) == proc[p].phase \in {"fresh", "creating"}
Start(p) ==
  /\ proc[p] = Down /\ env # NULL /\ loadConfig # NULL /\ Begins("starts", MaxStarts)
  /\ proc' = [proc EXCEPT ![p] =
       [phase |-> IF resolveSessionSecret # NULL THEN "up" ELSE "fresh", admin |-> loadConfig,
        secret |-> IF resolveSessionSecret # NULL THEN resolveSessionSecret ELSE used'.starts,
        setting |-> Setting]]
  /\ raced' = (raced \/ \E q \in Processes \ {p} : Generating(q) /\ Generating(p)')
  /\ UNCHANGED <<files, cmd, jar, shown, now, replaced, clobbered>>

\* writeFileSync of the secret: the file is there, empty, before it is written.
CreateSecretFile(p) ==
  /\ proc[p].phase = "fresh"
  /\ secretFile' = Blank
  /\ proc' = [proc EXCEPT ![p].phase = "creating"]
  /\ UNCHANGED <<env, configFile, baks, cmd, jar, shown, now, used, history>>

WriteSecretFile(p) ==
  /\ proc[p].phase = "creating"
  /\ secretFile' = proc[p].secret
  /\ proc' = [proc EXCEPT ![p].phase = "up"]
  /\ UNCHANGED <<env, configFile, baks, cmd, jar, shown, now, used, history>>

\* A server is stopped, a tool has read the configuration it needed; or either is killed.
Stop(p) ==
  /\ IF Up(p) THEN UNCHANGED used ELSE proc[p] # Down /\ Fault
  /\ proc' = [proc EXCEPT ![p] = Down]
  /\ UNCHANGED <<files, cmd, jar, shown, now, history>>

-----------------------------------------------------------------------------------
(* The administrator's session. *)

\* A cookie is the signature of the secret it was made with.
Signed(p) == [secret |-> proc[p].secret, setting |-> proc[p].setting]
VerifySessionValue(cookie, secret) == cookie.secret = secret
IsAuthenticated(p) == jar # NULL /\ VerifySessionValue(jar, proc[p].secret)

\* Both login routes: a session cookie for the one configured password.
Granted(p, password) == password # NULL /\ VerifyPasswordHash(password, proc[p].admin)
Login(p) ==
  /\ Up(p) /\ jar = NULL /\ \E password \in {shown, Own} : Granted(p, password)
  /\ jar' = Signed(p)
  /\ UNCHANGED <<files, cmd, proc, shown, now, used, history>>

\* The dashboard clears the cookie of a session it accepts, the API clears any.
Logout(p) == Up(p) /\ IsAuthenticated(p) /\ jar' = NULL
             /\ UNCHANGED <<files, cmd, proc, shown, now, used, history>>
ApiLogout(p) == Up(p) /\ jar # NULL /\ jar' = NULL
                /\ UNCHANGED <<files, cmd, proc, shown, now, used, history>>

-----------------------------------------------------------------------------------
(* The commands that write tadoru.env. *)

renderEnvFileContent(password) ==
  <<L("other", Own), L("hash", password), L("salt", password), L("other", Own)>>

\* Deliberate fault: what was put once is not remembered (hashInserted, saltInserted).
PutAgain(done, key, password) == [done EXCEPT !.lines = Append(@, L(key, password))]
\* A new line for a key that has none yet.
Put(done, key, password) ==
  IF key \in done.keys THEN done
  ELSE [lines |-> Append(done.lines, L(key, password)), keys |-> done.keys \cup {key}]
PutPair(done, password) == Put(Put(done, "hash", password), "salt", password)

\* One line of rewriteCredentialLines: a key is put where it, or a plaintext, is first found.
RewriteLine(done, line, password) ==
  CASE line.key \in {"hash", "salt"} -> Put(done, line.key, password)
    [] line.key = "plain" -> PutPair(done, password)
    [] OTHER -> [done EXCEPT !.lines = Append(@, line)]

rewriteCredentialLines(content, password) ==
  LET done == FoldLeft(LAMBDA sofar, line : RewriteLine(sofar, line, password),
                       [lines |-> <<>>, keys |-> {}], content)
  IN  PutPair(done, password).lines

\* tadoru init keeps a configuration file that exists unless it is forced, and writes one
\* without a password; what tadoru.env holds is replaced in any case.
renderPlainEnvFile(password) == <<L("other", Own), L("plain", password)>>
RunInit(force) ==
  /\ cmd = Idle /\ (configFile # NULL => force) /\ Begins("commands", MaxCommands)
  /\ configFile' = Blank
  /\ cmd' = [name |-> "init", step |-> "ready", content |-> <<>>, password |-> used'.commands]
  /\ UNCHANGED <<env, baks, secretFile, proc, jar, shown, now, history>>

\* install-service keeps a file that exists; writeFileSync creates an empty one first.
InstallService ==
  /\ cmd = Idle /\ env = NULL /\ Begins("commands", MaxCommands)
  /\ cmd' = [name |-> "install", step |-> "truncated", content |-> <<>>,
             password |-> used'.commands]
  /\ env' = <<>>
  /\ UNCHANGED <<configFile, baks, secretFile, proc, jar, shown, now, history>>

\* Deliberate fault: the copy has one name, whenever it is made.
UndatedName == 0
\* The second in the name of the copy.
envBackupName == now

\* reset-password reads the file and copies it aside.
ResetPassword ==
  /\ cmd = Idle /\ env # NULL /\ Begins("commands", MaxCommands)
  /\ cmd' = [name |-> "reset", step |-> "ready", content |-> env, password |-> used'.commands]
  /\ baks' = [t \in DOMAIN baks \cup {envBackupName} |->
                IF t = envBackupName THEN [content |-> env, at |-> now] ELSE baks[t]]
  /\ replaced' = replaced \cup {env}
  /\ clobbered' = clobbered \cup {baks[t].content : t \in {u \in DOMAIN baks \cap {envBackupName} :
                                                             baks[u].at = now}}
  /\ UNCHANGED <<env, configFile, secretFile, proc, jar, shown, now, raced>>

\* writeFileSync truncates the file before it writes it.
TruncateEnvFile ==
  /\ cmd.step = "ready"
  /\ env' = <<>> /\ shown' = NULL /\ cmd' = [cmd EXCEPT !.step = "truncated"]
  /\ UNCHANGED <<configFile, baks, secretFile, proc, jar, now, used, history>>

writeEnvFile ==
  /\ cmd.step = "truncated"
  /\ env' = CASE cmd.name = "init" -> renderPlainEnvFile(cmd.password)
              [] cmd.name = "install" -> renderEnvFileContent(cmd.password)
              [] cmd.name = "reset" -> rewriteCredentialLines(cmd.content, cmd.password)
  /\ cmd' = [cmd EXCEPT !.step = "written"]
  /\ UNCHANGED <<configFile, baks, secretFile, proc, jar, shown, now, used, history>>

PrintPassword ==
  /\ cmd.step = "written"
  /\ shown' = cmd.password /\ cmd' = Idle
  /\ UNCHANGED <<files, proc, jar, now, used, history>>

KillCommand ==
  /\ cmd # Idle /\ Fault /\ cmd' = Idle
  /\ UNCHANGED <<files, proc, jar, shown, now, history>>

-----------------------------------------------------------------------------------
\* The operator adds a line to the file or removes one, while no command runs.  The order
\* of the lines an editor could make otherwise is left to HandFiles.
Edit ==
  /\ cmd = Idle /\ env # NULL /\ Begins("edits", MaxEdits)
  /\ \/ \E line \in HandLines : env' = Append(env, line)
     \/ \E i \in DOMAIN env : env' = RemoveAt(env, i)
  /\ shown' = NULL
  /\ UNCHANGED <<configFile, baks, secretFile, cmd, proc, jar, now, history>>

Tick ==
  /\ now < MaxNow /\ now' = now + 1
  /\ UNCHANGED <<files, cmd, proc, jar, shown, used, history>>

Next ==
  \/ \E p \in Processes : \/ Start(p) \/ CreateSecretFile(p) \/ WriteSecretFile(p) \/ Stop(p)
                          \/ Login(p) \/ Logout(p) \/ ApiLogout(p)
  \/ \E force \in BOOLEAN : RunInit(force)
  \/ InstallService \/ ResetPassword \/ TruncateEnvFile \/ writeEnvFile \/ PrintPassword
  \/ KillCommand \/ Edit \/ Tick

Spec == Init /\ [][Next]_vars

-----------------------------------------------------------------------------------
(* Properties. *)

\* The password a command printed is the one the next start will accept, whatever was in the
\* file before it: plaintext, half a pair, duplicates, an example, or nothing after a kill.
ResetTakesEffect == shown # NULL => loadConfig = Hashed(shown)

IsCredential(line) == line.key \in {"hash", "salt", "plain"}
Others(lines) == SelectIn(lines, [key : {"secret", "other"}, value : Value])
FirstCredential(lines) ==
  LET i == SelectInSeq(lines, IsCredential) IN IF i = 0 THEN Len(lines) + 1 ELSE i

\* A reset rewrites the credential and nothing else: every other line survives in its order,
\* and the pair takes the place of the first credential line, once.
OnlyCredentialsChange ==
  [][cmd.name = "reset" /\ cmd.step = "truncated" /\ cmd'.step = "written" =>
       /\ Others(env') = Others(cmd.content)
       /\ Len(env') = Len(Others(env')) + 2
       /\ FirstCredential(env') = FirstCredential(cmd.content)
       /\ Variable("hash")' = cmd.password /\ Variable("salt")' = cmd.password]_vars

\* What a reset replaced is still there in a dated copy, however the reset ended, unless a
\* second reset of the same second overwrote the copy.
BackupsAreKept ==
  replaced \subseteq clobbered \cup {baks[t].content : t \in DOMAIN baks}

\* A session outlives restarts and kills of the server, as long as TADORU_SESSION_SECRET is
\* what it was; only a process that generated a secret at the same time as another can end it.
SessionsSurviveRestart ==
  \A p \in Processes :
    ~raced /\ jar # NULL /\ Up(p) /\ proc[p].setting = jar.setting => IsAuthenticated(p)
===================================================================================
