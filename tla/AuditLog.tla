------------------------------ MODULE AuditLog ------------------------------
(***************************************************************************)
(* What LensAudit promises its callers: between the call and its answer    *)
(* an entry is appended at most once; a caller told "ok" has its entry in  *)
(* the log; one told "error" may have it or not.  Audit.tla refines this.  *)
(***************************************************************************)
EXTENDS Sequences

CONSTANTS
  Callers,    \* Python threads
  NoEntry     \* a caller that waits for nothing

VARIABLES
  log,        \* the entries, in the order of the chain
  open,       \* caller -> the entry it asked for, NoEntry when idle
  logged,     \* caller -> is that entry in the log?
  answer      \* caller -> its last answer

logVars == <<log, open, logged, answer>>

LogInit ==
  /\ log = <<>>
  /\ open = [c \in Callers |-> NoEntry]
  /\ logged = [c \in Callers |-> FALSE]
  /\ answer = [c \in Callers |-> "none"]

Invoke(c) ==
  /\ open[c] = NoEntry
  /\ open'[c] # NoEntry
  /\ open' = [open EXCEPT ![c] = open'[c]]
  /\ \A i \in DOMAIN log : log[i] # open'[c]
  /\ answer' = [answer EXCEPT ![c] = "none"]
  /\ UNCHANGED <<log, logged>>

AppendEntry(c) ==
  /\ open[c] # NoEntry /\ ~logged[c]
  /\ log' = Append(log, open[c])
  /\ logged' = [logged EXCEPT ![c] = TRUE]
  /\ UNCHANGED <<open, answer>>

Respond(c, a) ==
  /\ open[c] # NoEntry
  /\ a = "ok" => logged[c]
  /\ open' = [open EXCEPT ![c] = NoEntry]
  /\ logged' = [logged EXCEPT ![c] = FALSE]
  /\ answer' = [answer EXCEPT ![c] = a]
  /\ UNCHANGED log

(* A call that is refused before it asks for anything.                     *)
Refuse(c) ==
  /\ open[c] = NoEntry
  /\ answer' = [answer EXCEPT ![c] = "error"]
  /\ UNCHANGED <<log, open, logged>>

LogNext ==
  \E c \in Callers :
    \/ Invoke(c) \/ AppendEntry(c) \/ Refuse(c)
    \/ \E a \in {"ok", "error"} : Respond(c, a)

LogSpec == LogInit /\ [][LogNext]_logVars
=============================================================================
