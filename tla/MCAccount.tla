----------------------------- MODULE MCAccount -----------------------------
(***************************************************************************)
(* Account with interchangeable runs. The configuration is loaded from     *)
(* every world in which the database, the environment and the key may come *)
(* from any of their sources; runs start in a few of them, in each of      *)
(* which one setting or none is missing.                                   *)
(***************************************************************************)
EXTENDS Account, TLC

Symmetry == Permutations(Runs)

Nothing == [key \in Keys |-> None]
With(key, value) == [Nothing EXCEPT ![key] = value]

\* PG_HOST, and PG_PASSWORD with or without it.
Exported(source) ==
    {[Nothing EXCEPT !.host = h, !.password = p] :
        h \in {None, Reference, source}, p \in {None, source}}

MCEnvs == {"dev", "staging", "prod"}

\* The .env files: all of one shape, each with the settings of its environment.
EnvFiles ==
    {[env \in MCEnvs |->
        [ENV |-> IF moved = "ENV" THEN "prod" ELSE "",
         WYND_ENV |-> IF moved = "WYND_ENV" THEN "prod" ELSE "", wynd |-> Nothing,
         compat |-> [key \in Keys |->
            CASE shape = "names" /\ key \in DBKeys -> Reference
              [] shape = "names" /\ key = "api_key" -> SecretName(env)
              [] shape = "plain" /\ key \in {"host", "password", "app_client_id"} -> <<"env file", env>>
              [] shape = "password" /\ key = "password" -> <<"env file", env>>
              [] OTHER -> None]]] :
        shape \in {"none", "names", "plain", "password"}, moved \in {"", "ENV", "WYND_ENV"}}

LoadedWorlds ==
    {[flag |-> flag, explicit |-> explicit, readable |-> readable, secret |-> secret,
      process |-> [ENV |-> env, WYND_ENV |-> "", wynd |-> wynd, compat |-> compat],
      envFile |-> files, yaml |-> yaml, yamlEnv |-> yamlEnv] :
        flag \in {"", "prod"}, explicit \in BOOLEAN, readable \in BOOLEAN,
        secret \in {"whole", "no_dbname", "no_password", "unreadable"},
        env \in {"", "staging"},
        wynd \in {Nothing, With("host", Hand("WYND")), With("dsn", Hand("WYND"))},
        compat \in Exported(Hand("process")), files \in EnvFiles,
        yaml \in Exported(Hand("yaml")) \cup {With("dsn", Hand("yaml"))}, yamlEnv \in {""}}

\* Everything is in the file, but for one setting or none.
Complete ==
    [Nothing EXCEPT !.dsn = Hand("yaml"), !.api_key = SecretName("any"),
                    !.app_client_id = Hand("yaml")]
RunWorlds ==
    {[flag |-> "", explicit |-> TRUE, readable |-> readable, secret |-> "unreadable",
      process |-> [ENV |-> "", WYND_ENV |-> "", wynd |-> Nothing, compat |-> Nothing],
      envFile |-> [env \in MCEnvs |->
          [ENV |-> "", WYND_ENV |-> "", wynd |-> Nothing, compat |-> Nothing]],
      yaml |-> yaml, yamlEnv |-> "prod"] :
        readable \in BOOLEAN,
        yaml \in {Complete} \cup {[Complete EXCEPT ![key] = None] : key \in {"dsn", "api_key", "app_client_id"}}}

MCWorlds == LoadedWorlds \cup RunWorlds

MCNext == world \in RunWorlds /\ AccountNext

MCSpec == AccountInit /\ [][MCNext]_accountVars

=============================================================================
