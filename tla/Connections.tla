----------------------------- MODULE Connections -----------------------------
(***************************************************************************)
(* The connections of one workspace.                                       *)
(*                                                                         *)
(* Inbox: the sign-in with the mail provider, pausing, resuming and        *)
(* disconnecting (services/inbox/authorization.py, connection_controls.py  *)
(* over persistence/inbox and connection_persistence).  Each command calls *)
(* the provider between two transactions.                                  *)
(*                                                                         *)
(* Runtime: the action target's connection, which a starting process       *)
(* synchronises with its configuration while members test its health       *)
(* (persistence/connection_repository.py).                                 *)
(***************************************************************************)
EXTENDS Integers, FiniteSets

CONSTANTS
  Accounts,      \* mail accounts
  InboxRows,     \* connection rows an inbox sign-in may use
  SignIns,       \* authorization sessions; each yields at most one grant
  InboxCommands, \* commands that may run at once
  Configs,       \* configuration fingerprints of the action target
  Testers,       \* health tests that may run at once
  MaxConnectionVersion  \* bound: versions of the runtime connection

VARIABLES
  signIn,      \* InboxOAuthSessionModel: "none", "open", "consumed", "gone"
  grant,       \* what the provider gave for it: "none", "live", "revoked"
  account,     \* InboxConnectionProfileModel.provider_account_id, None without a row
  importMode,  \* .import_mode
  credential,  \* ConnectionCredentialEnvelopeModel: the sign-in it is from, or None
  linked,      \* ConnectionModel.credential_status and capabilities: connected or missing
  connecting,  \* where each inbox command is
  using,       \* the sign-in whose grant it holds
  onAccount,   \* the account it found
  onRow,       \* the connection row it works on
  completions, \* history: how often each sign-in was stored
  config, health, tested, connectionVersion,  \* the runtime connection; tested: the configuration health is of
  starting,    \* a starting process's configuration and the row it read, <<>> when none
  overwrote,   \* history: a starting process wrote over a row that had moved since it read it
  testing      \* the configuration and version each health test read, <<>> when none

inboxRows == <<account, importMode, credential, linked>>
inboxCommands == <<connecting, using, onAccount, onRow>>
inboxVars == <<signIn, grant, inboxRows, inboxCommands, completions>>
runtimeVars == <<config, health, tested, connectionVersion, starting, overwrote, testing>>
connectionVars == <<inboxVars, runtimeVars>>

None == "none"

ASSUME SignInsAssumption == None \notin SignIns

InboxConnectionsInit ==
  /\ signIn = [s \in SignIns |-> "none"]
  /\ grant = [s \in SignIns |-> "none"]
  /\ account = [c \in InboxRows |-> None]
  /\ importMode = [c \in InboxRows |-> "paused"]
  /\ credential = [c \in InboxRows |-> None]
  /\ linked = [c \in InboxRows |-> FALSE]
  /\ connecting = [r \in InboxCommands |-> "idle"]
  /\ using = [r \in InboxCommands |-> None]
  /\ onAccount = [r \in InboxCommands |-> None]
  /\ onRow = [r \in InboxCommands |-> None]
  /\ completions = [s \in SignIns |-> 0]

\* The target's connection as it is seeded, before it is configured.
RuntimeConnectionInit ==
  /\ config = None /\ health = "not_configured" /\ tested = None
  /\ connectionVersion = 1
  /\ starting = <<>> /\ overwrote = FALSE
  /\ testing = [t \in Testers |-> <<>>]

ConnectionsInit == InboxConnectionsInit /\ RuntimeConnectionInit

-----------------------------------------------------------------------------
(* Sign-in with the mail provider *)

Becomes(r, stage, s, a, c) ==
  /\ connecting' = [connecting EXCEPT ![r] = stage]
  /\ using' = [using EXCEPT ![r] = s]
  /\ onAccount' = [onAccount EXCEPT ![r] = a]
  /\ onRow' = [onRow EXCEPT ![r] = c]

\* start: the session keeps the hash of its state and expires.
StartSignIn(s) ==
  /\ signIn[s] = "none"
  /\ signIn' = [signIn EXCEPT ![s] = "open"]
  /\ UNCHANGED <<grant, inboxRows, inboxCommands, completions>>

\* consume, under the session's row lock: neither used nor expired.
Consumable(s) == signIn[s] = "open"

ConsumeSignIn(r, s) ==
  /\ connecting[r] = "idle" /\ Consumable(s)
  /\ signIn' = [signIn EXCEPT ![s] = "consumed"]
  /\ Becomes(r, "exchanging", s, None, None)
  /\ UNCHANGED <<grant, inboxRows, completions>>

\* expires_at passes; delete_expired removes the row.
SignInExpires(s) ==
  /\ signIn[s] = "open"
  /\ signIn' = [signIn EXCEPT ![s] = "gone"]
  /\ UNCHANGED <<grant, inboxRows, inboxCommands, completions>>

\* exchange_code and get_account: the code is good once; the account is the
\* one the member signed in with.
ExchangeCode(r, a) ==
  /\ connecting[r] = "exchanging"
  /\ grant[using[r]] = "none"
  /\ grant' = [grant EXCEPT ![using[r]] = "live"]
  /\ Becomes(r, "granted", using[r], a, None)
  /\ UNCHANGED <<signIn, inboxRows, completions>>

Existing == {c \in InboxRows : account[c] # None}

Fresh == InboxRows \ (Existing \union {onRow[r] : r \in InboxCommands})

\* The history of a connection stays one account's.
AccountMatches(c, a) == account[c] = a

Establish(r, c) ==
  /\ account' = [account EXCEPT ![c] = onAccount[r]]
  /\ importMode' = [importMode EXCEPT ![c] = "manual"]
  /\ credential' = [credential EXCEPT ![c] = using[r]]
  /\ linked' = [linked EXCEPT ![c] = TRUE]
  /\ completions' = [completions EXCEPT ![using[r]] = @ + 1]
  /\ Becomes(r, "idle", None, None, None)
  /\ UNCHANGED <<signIn, grant>>

\* connect finds the inbox connection and locks it until establish commits.
Reconnect(r, c) ==
  /\ connecting[r] = "granted"
  /\ c \in Existing /\ AccountMatches(c, onAccount[r])
  /\ Establish(r, c)

\* Without one the insert of a new connection is not seen by others ...
ConnectFirst(r, c) ==
  /\ connecting[r] = "granted"
  /\ Existing = {} /\ c \in Fresh
  /\ Becomes(r, "storing", using[r], onAccount[r], c)
  /\ UNCHANGED <<signIn, grant, inboxRows, completions>>

\* ... until it commits; names and provider accounts are unique.
CommitFirst(r) ==
  /\ connecting[r] = "storing"
  /\ \A c \in InboxRows : account[c] # onAccount[r]
  /\ Establish(r, onRow[r])

-----------------------------------------------------------------------------
(* Pause, resume, disconnect *)

Pause(c) ==
  /\ c \in Existing
  /\ importMode' = [importMode EXCEPT ![c] = "paused"]
  /\ UNCHANGED <<signIn, grant, account, credential, linked, inboxCommands, completions>>

\* refresh_access: the provider still honours the grant.
GrantHonoured(s) == s # None /\ grant[s] = "live"

\* InboxAccessService.access and the account check, outside the transaction.
BeginResume(r, c) ==
  /\ connecting[r] = "idle" /\ c \in Existing
  /\ GrantHonoured(credential[c])
  /\ Becomes(r, "resuming", credential[c], account[c], c)
  /\ UNCHANGED <<signIn, grant, inboxRows, completions>>

\* set_import_mode does not look at the credential again.
Resume(r) ==
  /\ connecting[r] = "resuming"
  /\ importMode' = [importMode EXCEPT ![onRow[r]] = "manual"]
  /\ Becomes(r, "idle", None, None, None)
  /\ UNCHANGED <<signIn, grant, account, credential, linked, completions>>

BeginDisconnect(r, c) ==
  /\ connecting[r] = "idle" /\ c \in Existing /\ credential[c] # None
  /\ Becomes(r, "revoking", credential[c], None, c)
  /\ UNCHANGED <<signIn, grant, inboxRows, completions>>

\* The provider may refuse or not answer; the envelope is deleted anyway.
RevokeGrant(r) ==
  /\ connecting[r] = "revoking"
  /\ grant' \in {grant, [grant EXCEPT ![using[r]] = "revoked"]}
  /\ Becomes(r, "deleting", using[r], None, onRow[r])
  /\ UNCHANGED <<signIn, inboxRows, completions>>

\* Mutant of DeleteCredential: only the connection is marked.
KeepCredential(r) ==
  /\ UNCHANGED credential
  /\ importMode' = [importMode EXCEPT ![onRow[r]] = "paused"]

DeleteCredential(r) ==
  /\ credential' = [credential EXCEPT ![onRow[r]] = None]
  /\ importMode' = [importMode EXCEPT ![onRow[r]] = "paused"]

Disconnect(r) ==
  /\ connecting[r] = "deleting"
  /\ DeleteCredential(r)
  /\ linked' = [linked EXCEPT ![onRow[r]] = FALSE]
  /\ Becomes(r, "idle", None, None, None)
  /\ UNCHANGED <<signIn, grant, account, completions>>

\* The provider fails, a check or a constraint refuses, or the process ends.
InboxCommandEnds(r) ==
  /\ connecting[r] # "idle"
  /\ Becomes(r, "idle", None, None, None)
  /\ UNCHANGED <<signIn, grant, inboxRows, completions>>

-----------------------------------------------------------------------------
(* The action target's connection *)

\* The connection that a starting process's configuration describes.
RuntimeSeeds == Configs

\* synchronize_runtime reads the row without a lock ...
BeginSynchronize(f) ==
  /\ starting = <<>>
  /\ starting' = <<f, config, connectionVersion>>
  /\ UNCHANGED <<config, health, tested, connectionVersion, overwrote, testing>>

\* ... and writes what it computed: another configuration starts unchecked.
\* One starting process at a time holds the advisory lock.
Synchronize ==
  /\ starting # <<>>
  /\ starting[3] < MaxConnectionVersion
  /\ starting' = <<>>
  /\ IF starting[1] = starting[2]
       THEN UNCHANGED <<config, health, tested, connectionVersion, overwrote>>
       ELSE /\ config' = starting[1]
            /\ health' = "not_configured"
            /\ tested' = None
            /\ connectionVersion' = starting[3] + 1
            /\ overwrote' = (overwrote \/ connectionVersion # starting[3])
  /\ UNCHANGED testing

\* A process that starts without an action target turns the connection off,
\* under the row lock.
DeactivateRuntime ==
  /\ starting = <<>> /\ config # None
  /\ connectionVersion < MaxConnectionVersion
  /\ config' = None /\ health' = "not_configured" /\ tested' = None
  /\ connectionVersion' = connectionVersion + 1
  /\ UNCHANGED <<starting, overwrote, testing>>

BeginTest(t) ==
  /\ testing[t] = <<>> /\ config # None
  /\ testing' = [testing EXCEPT ![t] = <<config, connectionVersion>>]
  /\ UNCHANGED <<config, health, tested, connectionVersion, starting, overwrote>>

\* record_health_check: the version it was asked for, under the row lock.
TestStands(t) == connectionVersion = testing[t][2] /\ connectionVersion < MaxConnectionVersion

\* The target answered, or the check failed.
RecordHealthCheck(t) ==
  /\ testing[t] # <<>> /\ TestStands(t)
  /\ health' \in {"healthy", "unavailable"}
  /\ tested' = testing[t][1]
  /\ connectionVersion' = connectionVersion + 1
  /\ testing' = [testing EXCEPT ![t] = <<>>]
  /\ UNCHANGED <<config, starting, overwrote>>

TestEnds(t) ==
  /\ testing[t] # <<>>
  /\ testing' = [testing EXCEPT ![t] = <<>>]
  /\ UNCHANGED <<config, health, tested, connectionVersion, starting, overwrote>>

-----------------------------------------------------------------------------
InboxConnectionNext ==
  /\ \/ \E s \in SignIns : StartSignIn(s) \/ SignInExpires(s)
     \/ \E c \in InboxRows : Pause(c)
     \/ \E r \in InboxCommands :
          \/ \E s \in SignIns : ConsumeSignIn(r, s)
          \/ \E a \in Accounts : ExchangeCode(r, a)
          \/ \E c \in InboxRows : Reconnect(r, c) \/ ConnectFirst(r, c) \/ BeginResume(r, c) \/ BeginDisconnect(r, c)
          \/ CommitFirst(r) \/ Resume(r) \/ RevokeGrant(r) \/ Disconnect(r) \/ InboxCommandEnds(r)
  /\ UNCHANGED runtimeVars

RuntimeConnectionNext ==
  /\ \/ \E f \in RuntimeSeeds : BeginSynchronize(f)
     \/ Synchronize \/ DeactivateRuntime
     \/ \E t \in Testers : BeginTest(t) \/ RecordHealthCheck(t) \/ TestEnds(t)
  /\ UNCHANGED inboxVars

-----------------------------------------------------------------------------
(* Properties *)

\* A connection says it is connected exactly when it has a credential, every
\* stored credential came from its own sign-in, and none was stored twice.
CredentialMatchesConnection ==
  /\ \A c \in InboxRows : linked[c] = (credential[c] # None)
  /\ \A s \in SignIns : completions[s] <= 1
  /\ \A c, d \in InboxRows : credential[c] # None /\ credential[c] = credential[d] => c = d

\* The health a connection shows was measured on the configuration it has,
\* unless a starting process wrote over a row that had moved meanwhile and so
\* gave a version out twice.
HealthIsOfTheConfiguration ==
  health = "healthy" => tested = config \/ overwrote

\* What a connection shows is what it is.
ConnectionShowsTruth == CredentialMatchesConnection /\ HealthIsOfTheConfiguration

=============================================================================
