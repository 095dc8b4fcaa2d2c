------------------------------- MODULE Config -------------------------------
(***************************************************************************)
(* config.Load (internal/config), which runs before every command: what    *)
(* each setting is made of, out of the flags, the variables of the         *)
(* process, the .env file of the environment, the configuration file, the  *)
(* defaults and the secrets. Viper's precedence is external: a value set   *)
(* by the program, a flag, a variable, the file, a default; Unmarshal sees *)
(* a variable only if the file or a default has its key.                   *)
(*                                                                         *)
(* A setting is a pair: where it comes from, and the environment it        *)
(* belongs to. A world e is all that Load reads:                           *)
(*   flag               --env, or "" without the flag                      *)
(*   process            its variables ENV and WYND_ENV, and by key those   *)
(*                      of the Python CLI (compat: PG_HOST and so on) and  *)
(*                      its own (wynd: WYND_DB_HOST and so on)             *)
(*   envFile[env]       the variables of the first {env}.env found         *)
(*   explicit, readable --config is given; the file can be read and parsed *)
(*   yaml               its settings, by key, and its env                  *)
(*   secret             what Secrets Manager answers                       *)
(***************************************************************************)
EXTENDS Integers, Sequences

None == <<"none", "any">>
Reference == <<"reference", "any">>  \* isSecretReference
Hand(source) == <<source, "any">>

DBKeys == {"host", "user", "password", "dbname"}
Keys == DBKeys \cup {"dsn", "api_key", "app_client_id"}

\* The first of the values that is given.
FirstBut(unset, values) ==
    LET Given(k) == values[k] # unset
    IN  IF \E k \in DOMAIN values : Given(k)
        THEN values[CHOOSE k \in DOMAIN values : Given(k) /\ \A j \in 1 .. k - 1 : ~Given(j)]
        ELSE unset

\* Nothing an operator writes comes out of a secret; it belongs to one of envs.
Written(value, envs) == value[1] # "secret" /\ value[2] \in envs

\* What an operator can have in place: an .env file for every environment that
\* can be named, empty if there is none, with settings of that environment.
IsWorld(e) ==
    LET named == {e.flag, e.process.WYND_ENV, e.process.ENV, e.yamlEnv, "dev"} \ {""}
    IN  /\ named \subseteq DOMAIN e.envFile
        /\ \A key \in Keys :
              /\ \A value \in {e.process.compat[key], e.process.wynd[key], e.yaml[key]} :
                    Written(value, {"any"})
              /\ \A env \in named :
                    LET file == e.envFile[env]
                    IN  \A value \in {file.compat[key], file.wynd[key]} :
                            Written(value, {"any", env})

-----------------------------------------------------------------------------
(* The files and the variables.                                            *)

\* A file that cannot be read ends the program if --config names it.
Refused(e) == e.explicit /\ ~e.readable

Yaml(e, key) == IF e.readable THEN e.yaml[key] ELSE None

Env(e, variables) ==
    FirstBut("", <<e.flag, variables.WYND_ENV, variables.ENV,
                   IF e.readable THEN e.yamlEnv ELSE "", "dev">>)

\* findAndLoadEnvFile and loadEnvFile: the file fills in what is not set.
Variables(e) ==
    LET file == e.envFile[Env(e, e.process)]
        filled(f, g) == [k \in Keys |-> FirstBut(None, <<f[k], g[k]>>)]
    IN  [ENV |-> FirstBut("", <<e.process.ENV, file.ENV>>),
         WYND_ENV |-> FirstBut("", <<e.process.WYND_ENV, file.WYND_ENV>>),
         compat |-> filled(e.process.compat, file.compat),
         wynd |-> filled(e.process.wynd, file.wynd)]

\* mapPGEnvVars and mapAuthEnvVars, which set over everything.
Override(variables, key) ==
    IF key \in DBKeys /\ variables.compat[key] = Reference THEN None
    ELSE variables.compat[key]

setDefaults(key) == IF key = "dbname" THEN Hand("default") ELSE None

\* viper.Unmarshal
Setting(e, key) ==
    LET variables == Variables(e)
        known == {Yaml(e, key), setDefaults(key)} # {None}
    IN  FirstBut(None, <<Override(variables, key),
                         IF known THEN variables.wynd[key] ELSE None,
                         Yaml(e, key), setDefaults(key)>>)

-----------------------------------------------------------------------------
(* The secrets.                                                            *)

\* The key may be the name of a secret; if it cannot be read it stays a name.
SecretName(env) == <<"secret_name", env>>

ResolvedApiKey(e, key) ==
    IF key[1] = "secret_name" /\ e.secret # "unreadable" THEN <<"secret", key[2]>> ELSE key

\* resolveDBFromSecrets: all of them or none, but for the name of the database.
FromSecret(e, config) ==
    LET secret == <<"secret", config.env>>
    IN  [config EXCEPT !.host = secret, !.user = secret, !.password = secret,
                       !.dbname = IF e.secret = "no_dbname" THEN Hand("default") ELSE secret]

\* Deliberate fault: each field is stored when it is resolved.
HostAlready(e, config) ==
    [config EXCEPT !.host = IF e.secret = "no_password" THEN <<"secret", config.env>> ELSE @]

AfterSecretError(e, config) == config

HasSecret(env) == env \in {"dev", "prod"}

ResolvedDB(e, config) ==
    IF config.host \notin {None, Reference} \/ ~HasSecret(config.env) THEN config
    ELSE IF e.secret \in {"whole", "no_dbname"} THEN FromSecret(e, config)
    ELSE AfterSecretError(e, config)

Load(e) ==
    ResolvedDB(e,
        [env |-> Env(e, Variables(e)),
         dsn |-> Setting(e, "dsn"),
         host |-> Setting(e, "host"),
         user |-> Setting(e, "user"),
         password |-> Setting(e, "password"),
         dbname |-> Setting(e, "dbname"),
         api_key |-> ResolvedApiKey(e, Setting(e, "api_key")),
         app_client_id |-> Setting(e, "app_client_id")])

\* BuildDSN: what a connection is made with, nothing if there is no host.
BuildDSN(config) ==
    IF config.dsn # None THEN {config.dsn}
    ELSE IF config.host = None THEN {}
    ELSE {config[key] : key \in DBKeys}

=============================================================================
