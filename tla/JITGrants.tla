----------------------------- MODULE JITGrants ------------------------------
(***************************************************************************)
(* What an app is promised that asks a debugger for executable memory      *)
(* (INTEGRATION.md, "Implement the universal protocol"), without the       *)
(* debugger, the script or any message: while a session is open, each ask  *)
(* is answered once; no page is touched but those asked for; a region is   *)
(* granted only when it is the one asked for, or one reserved for an ask   *)
(* of its length, and all of it is blessed; after the session, nothing.    *)
(***************************************************************************)
EXTENDS Naturals

CONSTANTS PageSize, NoAsk

VARIABLES
  session,    \* before, open, over
  asking,     \* the ask under way: [wants, address, length], or NoAsk
  reserved,   \* regions set aside for asks without an address
  blessed,    \* pages the app may execute
  granted     \* the answers given: [ask, address]

vars == <<session, asking, reserved, blessed, granted>>

Pages(r) ==
  IF r.length = 0 THEN {}
  ELSE (r.address \div PageSize) .. ((r.address + r.length - 1) \div PageSize)

\* The regions that may serve an ask.
Eligible(ask) ==
  IF ask.address # 0 THEN {[address |-> ask.address, length |-> ask.length]}
  ELSE {r \in reserved : r.length = ask.length}

Init ==
  /\ session = "before" /\ asking = NoAsk
  /\ reserved = {} /\ blessed = {} /\ granted = {}

Open ==
  /\ session = "before" /\ session' = "open"
  /\ UNCHANGED <<asking, reserved, blessed, granted>>

Ask ==
  /\ session = "open" /\ asking = NoAsk /\ asking' # NoAsk
  /\ UNCHANGED <<session, reserved, blessed, granted>>

Wanted == asking # NoAsk /\ asking.wants = "region"

Reserve ==
  /\ Wanted /\ asking.address = 0
  /\ \E r \in reserved' :
       r.length = asking.length /\ r.length > 0 /\ reserved' = reserved \cup {r}
  /\ UNCHANGED <<session, asking, blessed, granted>>

Bless ==
  /\ Wanted /\ blessed \subseteq blessed'
  /\ blessed' \ blessed \subseteq UNION {Pages(r) : r \in Eligible(asking)}
  /\ UNCHANGED <<session, asking, reserved, granted>>

Grantable(ask, address) ==
  CASE ask.wants = "region" ->
         \/ address = 0 /\ ask.address = 0       \* denied
         \/ \E r \in Eligible(ask) : r.address = address /\ Pages(r) \subseteq blessed
    [] ask.wants = "nothing" -> address = ask.address
    [] OTHER -> TRUE

Answer ==
  /\ session = "open" /\ asking # NoAsk /\ asking' = NoAsk
  /\ \E g \in granted' :
       /\ g.ask = asking /\ Grantable(asking, g.address)
       /\ granted' = granted \cup {g}
  /\ session' \in IF asking.wants = "detach" THEN {"over"} ELSE {"open", "over"}
  /\ UNCHANGED <<reserved, blessed>>

Next == Open \/ Ask \/ Reserve \/ Bless \/ Answer

Spec == Init /\ [][Next]_vars
=============================================================================
