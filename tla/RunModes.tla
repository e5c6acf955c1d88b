------------------------------ MODULE RunModes ------------------------------
(***************************************************************************)
(* Which money a program trades with.  Two environment variables name a    *)
(* mode: EXECUTION_MODE (config/settings.py, settings_base.py,             *)
(* settings_real.py: the host, and whether the executor orders at all) and *)
(* TRADING_MODE (env.py: the transaction ids, the guards of the legacy     *)
(* main program); ENABLE_REAL_TRADING is the second approval; the records  *)
(* go to a namespace of their own (env.get_db_namespace_mode).  The        *)
(* operator may stop orders with /halt (utils/telegram_bot.py,             *)
(* config/execution_mode.py, engine/risk_manager.py).                      *)
(***************************************************************************)
EXTENDS Integers

CONSTANTS ExecutionModes, TradingModes   \* values the operator gives the variables; "" is unset

\* What Components assumes of its settings: a variable may be unset.
ModeNames == "" \in ExecutionModes \cap TradingModes

VARIABLES
    env,        \* the variables: execution, trading, enabled, realKeys
    dotenv,     \* TRADING_MODE in the .env file
    run,        \* the running program: what it settled on at its start
    stopFile,   \* the KILL_SWITCH file
    latched,    \* the risk manager of the running program has seen the kill switch
    sending     \* the order on its way: none, checked or sent

modeVars == <<env, dotenv, run, stopFile, latched, sending>>

Off     == [program |-> "off", mode |-> "DRY_RUN", host |-> "paper", ids |-> "paper",
            space |-> "DRY_RUN", rows |-> "PAPER"]

\* settings._get_execution_mode: an unknown name stays as it is.
ExecutionMode(raw) ==
    CASE raw \in {"", "CBT", "SIGNAL_ONLY"} -> "DRY_RUN"
      [] raw = "LIVE" -> "REAL"
      [] OTHER -> raw

\* env.get_trading_mode: PAPER if unset; a name outside the table raises.
TradingMode(raw) ==
    CASE raw \in {"", "DEV", "CBT", "SIGNAL_ONLY"} -> "PAPER"
      [] raw \in {"PROD", "LIVE"} -> "REAL"
      [] OTHER -> raw
Legal(raw) == TradingMode(raw) \in {"PAPER", "REAL"}

\* env.normalize_execution_mode and get_db_namespace_mode.
Spaces == {"DRY_RUN", "PAPER", "REAL"}
SpaceOf(raw) ==
    CASE raw \in {"DRYRUN", "CBT", "SIGNAL_ONLY"} -> "DRY_RUN"
      [] raw = "DEV" -> "PAPER"
      [] raw \in {"LIVE", "PROD"} -> "REAL"
      [] OTHER -> raw
Namespace_TradingFirst(e) ==
    IF SpaceOf(e.trading) \in Spaces THEN SpaceOf(e.trading)
    ELSE IF SpaceOf(e.execution) \in Spaces THEN SpaceOf(e.execution)
    ELSE TradingMode(e.trading)
Namespace(e) ==
    IF SpaceOf(e.execution) \in Spaces THEN SpaceOf(e.execution)
    ELSE IF SpaceOf(e.trading) \in Spaces THEN SpaceOf(e.trading)
    ELSE TradingMode(e.trading)

\* KIS_BASE_URL: settings_paper has the paper host, settings_base and
\* settings_real the real one under the raw name and the second approval.
Host(e) == IF e.execution = "REAL" /\ e.enabled THEN "real" ELSE "paper"

\* The .env file of the package wins over the environment (load_dotenv).
Loaded(e) == IF dotenv = "" THEN e ELSE [e EXCEPT !.trading = dotenv]

\* execute_buy and execute_sell simulate in this mode alone: under a name that
\* the executor does not know they order as well.
Simulates(mode) == mode = "DRY_RUN"

ModesInit ==
    /\ env = [execution |-> "", trading |-> "", enabled |-> FALSE, realKeys |-> FALSE]
    /\ dotenv = ""
    /\ run = Off
    /\ stopFile = FALSE
    /\ latched = FALSE
    /\ sending = "none"

\* The operator sets the variables and the file before a start.
Configures ==
    /\ run = Off
    /\ \E x \in ExecutionModes, t \in TradingModes, enabled, realKeys \in BOOLEAN :
          env' = [execution |-> x, trading |-> t, enabled |-> enabled, realKeys |-> realKeys]
    /\ dotenv' \in {"", "PAPER", "REAL"}
    /\ UNCHANGED <<run, stopFile, latched, sending>>

\* MultidayExecutor and OrderSynchronizer: trades and snapshots go to the
\* namespace, the rows of the orders to that of TRADING_MODE.
Runs(program, e, ids) ==
    /\ run' = [program |-> program, mode |-> ExecutionMode(e.execution), host |-> Host(e),
               ids |-> ids, space |-> Namespace(e), rows |-> TradingMode(e.trading)]
    /\ latched' = stopFile
    /\ env' = e
    /\ UNCHANGED <<dotenv, stopFile, sending>>

\* apps/kr_trade.py: no question and no validation; --mode paper sets
\* TRADING_MODE, and only the name REAL itself gives the real ids.
StartsApp ==
    /\ run = Off
    /\ \E paper \in BOOLEAN :
          LET f == Loaded(env)
              e == IF paper THEN [f EXCEPT !.trading = "PAPER"] ELSE f
          IN  /\ Legal(f.trading)
              /\ Runs("kr_trade", e, IF e.trading = "REAL" THEN "real" ELSE "paper")

\* env.validate_environment: the file's name must be the variable's, and PAPER
\* goes with no REAL_KIS_ key (the keys PROD needs are taken as given).
ValidEnvironment(e) ==
    /\ dotenv = "" \/ TradingMode(dotenv) = TradingMode(e.trading)
    /\ ~(TradingMode(e.trading) = "PAPER" /\ e.realKeys)

\* settings.validate_settings: REAL does not go with the paper host.
ValidSettings(e) == ~(ExecutionMode(e.execution) = "REAL" /\ Host(e) = "paper")

\* main of the legacy program: REAL is to be confirmed on the command line.
StartsMain ==
    /\ run = Off
    /\ \E confirmed \in BOOLEAN :
          LET e == Loaded(env)
          IN  /\ Legal(e.trading) /\ ValidEnvironment(e) /\ ValidSettings(e)
              /\ TradingMode(e.trading) = "REAL" => confirmed
              /\ Runs("main", e, IF TradingMode(e.trading) = "REAL" THEN "real" ELSE "paper")

Stops ==
    /\ run # Off
    /\ run' = Off /\ latched' = FALSE /\ sending' = "none"
    /\ UNCHANGED <<env, dotenv, stopFile>>

\* activate_kill_switch and deactivate_kill_switch of the bot's manager.
Activated   == stopFile' = TRUE
Deactivated == stopFile' = FALSE

\* /halt, and /resume CONFIRM.
Halts   == Activated /\ UNCHANGED <<env, dotenv, run, latched, sending>>
Resumes == Deactivated /\ UNCHANGED <<env, dotenv, run, latched, sending>>

\* check_order_allowed: the kill switch is latched; /resume does not lift it.
ChecksOrder ==
    /\ run # Off /\ sending # "checked"
    /\ latched' = (latched \/ stopFile)
    /\ sending' = IF latched' THEN "none" ELSE "checked"
    /\ UNCHANGED <<env, dotenv, run, stopFile>>

\* The order goes to the host with the ids of the client, its row and its fill
\* to their namespaces; or it is simulated.
SendsOrder ==
    /\ sending = "checked"
    /\ sending' = IF Simulates(run.mode) THEN "none" ELSE "sent"
    /\ UNCHANGED <<env, dotenv, run, stopFile, latched>>

ModesNext == Configures \/ StartsApp \/ StartsMain \/ Stops \/ Halts \/ Resumes \/ ChecksOrder \/ SendsOrder

ModesTypes ==
    /\ run.program \in {"off", "kr_trade", "main"} /\ run.mode \in {ExecutionMode(x) : x \in ExecutionModes}
    /\ run.host \in {"paper", "real"} /\ run.ids \in {"paper", "real"} /\ run.space \in Spaces
    /\ run.rows \in {"PAPER", "REAL"} /\ latched \in BOOLEAN
    /\ stopFile \in BOOLEAN
    /\ sending \in {"none", "checked", "sent"}

\* The records are of the money that is traded, although four readings of two
\* variables decide on the host, the ids, the trades and the rows of the orders:
\* an order at the real host has its trades among the real ones, with real ids
\* its row too, and the legacy program, in a mode the executor knows, has no
\* trades at the paper host among the real ones.  (kr_trade, which does not
\* validate its settings, may.)
RecordsFollowTheMoney ==
    sending = "sent" =>
        /\ run.host = "real" => run.space = "REAL"
        /\ run.host = "real" /\ run.ids = "real" => run.rows = "REAL"
        /\ run.program = "main" /\ run.mode \in Spaces /\ run.space = "REAL" => run.host = "real"
=============================================================================
