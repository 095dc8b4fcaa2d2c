------------------------------ MODULE Account ------------------------------
(***************************************************************************)
(* create-account: runCreateAccount in cmd/account.go, which asks three    *)
(* systems in turn (Stripe through internal/billing/stripe.go, Cognito     *)
(* through internal/auth/cognito.go, the platform database through         *)
(* Repository.CreateUser), with nothing that undoes a step when a later    *)
(* one fails. All runs are for one email. They may follow one another, as  *)
(* retries of a run that failed or was killed, or overlap.                 *)
(*                                                                         *)
(* Every run loads its configuration first, all of them the same one; a    *)
(* setting that is missing ends a run where it is needed, not before.      *)
(*                                                                         *)
(* A request that fails may have been carried out. Stripe's search lags    *)
(* behind its writes; Cognito refuses a username it has (both external).   *)
(***************************************************************************)
EXTENDS Naturals, FiniteSets, Config

CONSTANTS
    Runs,     \* runs of the command
    MaxPolls, \* pollMaxAttempts: 30 in the code
    Worlds    \* what the configuration may be loaded from, see module Config

ASSUME AccountAssumption ==
    /\ IsFiniteSet(Runs)
    /\ MaxPolls \in Nat
    /\ \A e \in Worlds : IsWorld(e)

VARIABLES
    world,       \* what the configuration is loaded from
    config,      \* appCfg
    step,        \* the step each run is at
    polls,       \* searches each run has made after its create
    customers,   \* (Stripe) customers with this email
    searchable,  \* (Stripe) how many of them a search finds
    login,       \* (Cognito) the username is taken
    users,       \* (database) user rows with this email
    profiles     \* (database) their user_profile rows

accountVars == <<world, config, step, polls, customers, searchable, login, users, profiles>>
settings == <<world, config>>
stripe == <<customers, searchable>>
database == <<users, profiles>>

\* An email nobody has used, or one with a customer, or a login, of its own.
AccountInit ==
    /\ world \in Worlds
    /\ config = Load(world)
    /\ step = [r \in Runs |-> "idle"]
    /\ polls = [r \in Runs |-> 0]
    /\ customers \in {0, 1}
    /\ searchable = customers
    /\ login \in BOOLEAN
    /\ users = 0
    /\ profiles = 0

-----------------------------------------------------------------------------
(* The steps of a run.                                                     *)

StepTo(r, to) == step' = [step EXCEPT ![r] = to]

\* The root command loads the configuration, runCreateAccount checks its flags.
Start(r) ==
    /\ step[r] = "idle"
    /\ StepTo(r, IF Refused(world) THEN "error" ELSE "find")
    /\ UNCHANGED <<settings, polls, stripe, login, database>>

\* Deliberate faults, here and below, with which the properties must fail.
SkipLogin == "connect"

AfterCustomer == "sign_up"

\* FindOrCreateCustomer, with a key; findCustomer, the first time: use the
\* customer it finds, or create one.
Find(r) ==
    /\ step[r] = "find"
    /\ \/ config.api_key # None /\ StepTo(r, IF searchable > 0 THEN AfterCustomer ELSE "create")
       \/ StepTo(r, "error")
    /\ UNCHANGED <<settings, polls, stripe, login, database>>

\* sc.Customers.New
CreateCustomer(r) ==
    /\ step[r] = "create"
    /\ \/ customers' = customers + 1 /\ (StepTo(r, "poll") \/ StepTo(r, "error"))
       \/ StepTo(r, "error") /\ UNCHANGED customers
    /\ UNCHANGED <<settings, polls, searchable, login, database>>

PollsLeft(r) == polls[r] < MaxPolls

\* findCustomer again and again, until the search shows what was created; an
\* error and the end of the attempts both end the run.
Poll(r) ==
    /\ step[r] = "poll"
    /\ IF PollsLeft(r)
       THEN /\ polls' = [polls EXCEPT ![r] = @ + 1]
            /\ \/ IF searchable > 0 THEN StepTo(r, AfterCustomer) ELSE UNCHANGED step
               \/ StepTo(r, "error")
       ELSE StepTo(r, "error") /\ UNCHANGED polls
    /\ UNCHANGED <<settings, stripe, login, database>>

ExistingLoginAccepted(r) == StepTo(r, "connect")

\* What a run does when Cognito knows the username already.
LoginExists(r) == StepTo(r, "error")

\* auth.SignUp
SignUp(r) ==
    /\ step[r] = "sign_up"
    /\ \/ login /\ LoginExists(r) /\ UNCHANGED login
       \/ /\ config.app_client_id # None /\ ~login
          /\ login' = TRUE
          /\ (StepTo(r, "connect") \/ StepTo(r, "error"))
       \/ StepTo(r, "error") /\ UNCHANGED login
    /\ UNCHANGED <<settings, polls, stripe, database>>

\* database.NewRepository
Connect(r) ==
    /\ step[r] = "connect"
    /\ \/ BuildDSN(config) # {} /\ StepTo(r, "check")
       \/ StepTo(r, "error")
    /\ UNCHANGED <<settings, polls, stripe, login, database>>

\* CreateUser: the row it finds is an error; a query that fails is not.
CheckUser(r) ==
    /\ step[r] = "check"
    /\ \/ users > 0 /\ StepTo(r, "error")
       \/ StepTo(r, "insert_user")
    /\ UNCHANGED <<settings, polls, stripe, login, database>>

AfterUserRowOk == "ok"
AfterUserRow == "insert_profile"

InsertUser(r) ==
    /\ step[r] = "insert_user"
    /\ \/ users' = users + 1 /\ (StepTo(r, AfterUserRow) \/ StepTo(r, "error"))
       \/ StepTo(r, "error") /\ UNCHANGED users
    /\ UNCHANGED <<settings, polls, stripe, login, profiles>>

InsertProfile(r) ==
    /\ step[r] = "insert_profile"
    /\ \/ profiles' = profiles + 1 /\ (StepTo(r, "ok") \/ StepTo(r, "error"))
       \/ StepTo(r, "error") /\ UNCHANGED profiles
    /\ UNCHANGED <<settings, polls, stripe, login, users>>

\* The run is killed.
Kill(r) ==
    /\ step[r] \notin {"idle", "ok", "error"}
    /\ StepTo(r, "error")
    /\ UNCHANGED <<settings, polls, stripe, login, database>>

\* (Stripe) the search index catches up.
IndexCatchesUp ==
    /\ searchable < customers
    /\ searchable' = customers
    /\ UNCHANGED <<settings, step, polls, customers, login, database>>

-----------------------------------------------------------------------------
RunStep(r) ==
    \/ Find(r) \/ CreateCustomer(r) \/ Poll(r) \/ SignUp(r) \/ Connect(r)
    \/ CheckUser(r) \/ InsertUser(r) \/ InsertProfile(r)

AccountNext == IndexCatchesUp \/ \E r \in Runs : Start(r) \/ RunStep(r) \/ Kill(r)

AccountSpec == AccountInit /\ [][AccountNext]_accountVars

-----------------------------------------------------------------------------
(* Properties.                                                             *)

\* An account reported as created is complete in all three systems, whatever
\* other runs did in between.
OkMeansComplete ==
    (\E r \in Runs : step[r] = "ok") => customers > 0 /\ login /\ users > 0 /\ profiles > 0

\* The database never holds two users, or two profiles, for the email, although
\* the check that looks for one and the insert are not one transaction: only
\* the run whose sign-up Cognito accepted gets that far.
OneUser == users <= 1 /\ profiles <= 1

\* A user in the database can log in and can be billed: the database comes
\* last, as the Python script has it.
UserIsBackedUp == users > 0 => login /\ customers > 0

\* The environment the operator chose, by which the .env file is found.
ChosenEnv == Env(world, world.process)

\* The host and the credentials of the database belong together: all of them
\* come from one secret or none does, and none where PG_HOST or the file gives
\* a host and the host is nowhere a reference to a secret. Whatever comes from a
\* secret or an .env file is of the environment the command works in, as long
\* as that .env file names no other environment; if it does,
\* EnvironmentIsTheChosenOne fails, and this says nothing.
SettingsBelongTogether ==
    ~Refused(world) =>
        LET secrets == {key \in {"host", "user", "password"} : config[key][1] = "secret"}
            file == world.envFile[ChosenEnv]
            hosts == {world.process.compat.host, Yaml(world, "host")}
        IN  /\ secrets \in {{}, {"host", "user", "password"}}
            /\ /\ hosts \ {None, Reference} # {}
               /\ Reference \notin {Yaml(world, "host"), Variables(world).wynd.host}
               => secrets = {}
            /\ {file.ENV, file.WYND_ENV} \subseteq {"", ChosenEnv} =>
                  \A key \in Keys : config[key][2] \in {"any", config.env}

-----------------------------------------------------------------------------
(* What the documents say of the configuration and the code does not do.   *)
(* No run has these as its properties: TLC refutes them in MCAccount.      *)

\* "If you need to point at a database that isn't in Secrets Manager (e.g. a
\* local Postgres), set `WYND_DB_DSN`" (docs/AWS_SETUP.md:40).
ExportedDSNIsUsed ==
    ~Refused(world) /\ world.process.wynd.dsn # None =>
        BuildDSN(config) = {world.process.wynd.dsn}

\* "You can also set individual `db.*` keys in `wyndctl.yaml`; any value other
\* than an empty string or an `aws:secret:...` reference is used as-is"
\* (docs/AWS_SETUP.md:48), unless WYND_DB_HOST, which is above it, says more.
FileHostIsUsedAsIs ==
    /\ ~Refused(world)
    /\ Yaml(world, "host") \notin {None, Reference}
    /\ Variables(world).wynd.host = None
    => config.host = Yaml(world, "host")

\* "The chosen environment drives: which `wynd-{env}-sentrydb` secret is read
\* [...], which `configs/{env}.env` file is auto-loaded" (docs/AWS_SETUP.md:20):
\* one environment, not one for the file and another for the secret.
EnvironmentIsTheChosenOne == ~Refused(world) => config.env = ChosenEnv

=============================================================================
