------------------------------ MODULE MCCredentials ------------------------------
EXTENDS Credentials

\* Processes differ in nothing but their name.
Symmetry == Permutations(Processes)

\* Another installation's pair, a placeholder, an empty value, an example, a secret.
MCHandLines ==
  {L("hash", Own), L("salt", Own), L("hash", Placeholder), L("salt", Blank),
   L("plain", Own), L("plain", Example), L("plain", Blank), L("secret", Own)}

\* deploy/tadoru.env.example, a file of an earlier release, one part-way through migration.
MCHandFiles ==
  {<<L("hash", Placeholder), L("salt", Placeholder), L("other", Own)>>,
   <<L("other", Own), L("plain", Own)>>,
   <<L("plain", Own), L("other", Own), L("salt", Own), L("hash", Own)>>}
===================================================================================
