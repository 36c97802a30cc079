----------------------------- MODULE HandleProofs -----------------------------
(***************************************************************************)
(* Proofs about the handles of DeviceSession under every call of StikJIT:  *)
(* none is used after it was freed, a tunnel goes last, and what a routine *)
(* leaves behind is known.  All follow from one account of the handles:    *)
(* those the defers will free, those in a local variable, those leaked.    *)
(***************************************************************************)
EXTENDS StikJIT, SequenceTheorems, TLAPS

KindsOf(s) == {s[i] : i \in 1 .. Len(s)}

Tunnel == <<"handshake", "adapter">>
\* The defers a routine may have left when it gives up.
Unwinding ==
  {<<>>, <<"pairing">>, <<"adapter">>, Tunnel, <<"mounter", "handshake", "adapter">>,
   <<"lockdown", "handshake", "adapter">>, <<"remote", "handshake", "adapter">>,
   <<"proxy", "remote", "handshake", "adapter">>}
Shapes == Unwinding \cup {<<"plist", "lockdown", "handshake", "adapter">>}

DefersOf ==
  CASE step \in {"idle", "load", "openPairing"}  -> {<<>>}
    [] step = "createTunnel"                     -> {<<"pairing">>}
    [] step \in {"connectMounter", "connectLockdown", "connectRemote", "connectProxy"} -> {Tunnel}
    [] step \in {"copyDevices", "mount"}         -> {<<"mounter", "handshake", "adapter">>}
    [] step = "getChipID"                        -> {<<"lockdown", "handshake", "adapter">>}
    [] step = "leave" /\ after = "tunnel"        -> {<<>>, <<"pairing">>}
    [] step = "leave" /\ after = "connectMounter" ->
         {Tunnel, <<"lockdown", "handshake", "adapter">>,
          <<"plist", "lockdown", "handshake", "adapter">>}
    [] step \in {"leave", "consume"} /\ after = "done" -> Unwinding
    [] OTHER -> {<<"proxy", "remote", "handshake", "adapter">>}

\* Where no defer knows of a handle: a made tunnel on its way to the caller, a remote
\* server without its proxy, an error object about to be consumed.
Loose ==
  CASE step = "consume"                   -> {"error"}
    [] step = "connectProxy"              -> {"remote"}
    [] step = "leave" /\ after = "tunnel" -> Link
    [] OTHER                              -> {}

Control ==
  /\ step \in Steps /\ routine \in Routines \cup {"none"}
  /\ routine = "none" <=> step = "idle"
  /\ step = "leave" => after \in {"tunnel", "connectMounter", "done"}
  /\ step = "consume" => after \in {"setAckMode", "report", "done"}

Losses ==
  /\ session \in Nat /\ (routine # "none" => session > 0)
  /\ unproxied \subseteq 1 .. session /\ unacked \subseteq 1 .. session
  /\ session \in unproxied =>
       /\ step \in {"consume", "leave", "idle"} /\ (step # "idle" => after = "done")
       /\ "remote" \notin KindsOf(defers)

Account == live = Handles(KindsOf(defers) \cup Loose) \cup Leaks

HandleInv == Control /\ defers \in DefersOf /\ Losses /\ Account

-----------------------------------------------------------------------------
(* The stacks of defers and the contracts of the calls.                     *)

LEMMA KindsOfShapes ==
  /\ KindsOf(<<>>) = {}
  /\ KindsOf(<<"pairing">>) = {"pairing"}
  /\ KindsOf(<<"adapter">>) = {"adapter"}
  /\ KindsOf(Tunnel) = Link
  /\ KindsOf(<<"mounter", "handshake", "adapter">>) = {"mounter"} \cup Link
  /\ KindsOf(<<"lockdown", "handshake", "adapter">>) = {"lockdown"} \cup Link
  /\ KindsOf(<<"remote", "handshake", "adapter">>) = {"remote"} \cup Link
  /\ KindsOf(<<"proxy", "remote", "handshake", "adapter">>) = {"proxy", "remote"} \cup Link
  /\ KindsOf(<<"plist", "lockdown", "handshake", "adapter">>) = {"plist", "lockdown"} \cup Link
<1>1. ASSUME NEW a PROVE KindsOf(<<a>>) = {a}
  BY DEF KindsOf
<1>2. ASSUME NEW a, NEW b PROVE KindsOf(<<a, b>>) = {a, b}
  BY DEF KindsOf
<1>3. ASSUME NEW a, NEW b, NEW c PROVE KindsOf(<<a, b, c>>) = {a, b, c}
  BY DEF KindsOf
<1>4. ASSUME NEW a, NEW b, NEW c, NEW d PROVE KindsOf(<<a, b, c, d>>) = {a, b, c, d}
  BY DEF KindsOf
<1>5. KindsOf(<<>>) = {}
  BY DEF KindsOf
<1> QED BY <1>1, <1>2, <1>3, <1>4, <1>5 DEF Tunnel, Link

\* Each defer frees what no other one frees.
LEMMA TailOfShapes ==
  ASSUME NEW s \in Shapes, s # <<>>
  PROVE  /\ Tail(s) \in Unwinding /\ Head(s) \in KindsOf(s)
         /\ KindsOf(Tail(s)) = KindsOf(s) \ {Head(s)}
<1>1. ASSUME NEW a PROVE Head(<<a>>) = a /\ Tail(<<a>>) = <<>>
  OBVIOUS
<1>2. ASSUME NEW a, NEW b PROVE Head(<<a, b>>) = a /\ Tail(<<a, b>>) = <<b>>
  OBVIOUS
<1>3. ASSUME NEW a, NEW b, NEW c PROVE Head(<<a, b, c>>) = a /\ Tail(<<a, b, c>>) = <<b, c>>
  OBVIOUS
<1>4. ASSUME NEW a, NEW b, NEW c, NEW d
      PROVE  Head(<<a, b, c, d>>) = a /\ Tail(<<a, b, c, d>>) = <<b, c, d>>
  OBVIOUS
<1>5. CASE s \in {<<"pairing">>, <<"adapter">>}
  <2>1. Head(s) \in {"pairing", "adapter"} /\ Tail(s) = <<>> /\ KindsOf(s) = {Head(s)}
    BY <1>1, <1>5, KindsOfShapes
  <2> QED BY <2>1, KindsOfShapes DEF Unwinding
<1>6. CASE s = Tunnel
  BY <1>1, <1>2, <1>6, KindsOfShapes DEF Unwinding, Tunnel, Link
<1>7. ASSUME NEW k \in {"mounter", "lockdown", "remote"}, s = <<k, "handshake", "adapter">>
      PROVE  /\ Tail(s) \in Unwinding /\ Head(s) \in KindsOf(s)
             /\ KindsOf(Tail(s)) = KindsOf(s) \ {Head(s)}
  <2>1. Head(s) = k /\ Tail(s) = Tunnel
    BY <1>3, <1>7 DEF Tunnel
  <2>2. KindsOf(s) = {k} \cup Link
    BY <1>7, KindsOfShapes
  <2> QED BY <2>1, <2>2, KindsOfShapes DEF Unwinding, Link
<1>8. CASE s = <<"proxy", "remote", "handshake", "adapter">>
  <2>1. Head(s) = "proxy" /\ Tail(s) = <<"remote", "handshake", "adapter">>
    BY <1>4, <1>8
  <2> QED BY <1>8, <2>1, KindsOfShapes DEF Unwinding, Link
<1>9. CASE s = <<"plist", "lockdown", "handshake", "adapter">>
  <2>1. Head(s) = "plist" /\ Tail(s) = <<"lockdown", "handshake", "adapter">>
    BY <1>4, <1>9
  <2> QED BY <1>9, <2>1, KindsOfShapes DEF Unwinding, Link
<1> QED BY <1>5, <1>6, <1>7, <1>8, <1>9 DEF Shapes, Unwinding

LEMMA Contracts ==
  /\ step = "openPairing" => Call = Opens({}, "pairing")
  /\ step = "createTunnel" => Call = Function({"pairing"}, {}, Link)
  /\ step = "connectMounter" => Call = Opens(Link, "mounter")
  /\ step = "copyDevices" => Call = Uses({"mounter"})
  /\ step = "connectLockdown" => Call = Opens(Link, "lockdown")
  /\ step = "getChipID" => Call = Opens({"lockdown"}, "plist")
  /\ step = "mount" => Call = Uses({"mounter"} \cup Link)
  /\ step = "connectRemote" => Call = Opens(Link, "remote")
  /\ step = "connectProxy" => Call = Opens(Link, "proxy")
  /\ step \in {"sendAck", "setAckMode", "script", "startNoAck", "attach", "detach"} =>
       Call = Uses({"proxy"})
  /\ step = "consume" => Call = Frees("error")
  /\ step \in {"idle", "load", "dispatch", "report"} => Call = Nothing
<1>1. sendCommand = Uses({"proxy"})
  BY DEF sendCommand, Then, debugserver_command_new, debug_proxy_send_command, idevice_string_free,
         debugserver_command_free, Uses, Opens, Frees, Function
<1>2. copiedDevices = Uses({"mounter"})
  BY DEF copiedDevices, Then, image_mounter_copy_devices, plist_free, idevice_data_free,
         Uses, Opens, Frees, Function
<1>3. Then(lockdownd_get_value, plist_get_uint_val) = Opens({"lockdown"}, "plist")
  BY DEF Then, lockdownd_get_value, plist_get_uint_val, Uses, Opens, Function
<1>4. step = "openPairing" => Call = Opens({}, "pairing")
  BY DEF Call, rp_pairing_file_read
<1>5. step = "createTunnel" => Call = Function({"pairing"}, {}, Link)
  BY DEF Call, tunnel_create_rppairing
<1>6. step = "connectMounter" => Call = Opens(Link, "mounter")
  BY DEF Call, image_mounter_connect_rsd
<1>7. step = "copyDevices" => Call = Uses({"mounter"})
  BY <1>2 DEF Call
<1>8. step = "connectLockdown" => Call = Opens(Link, "lockdown")
  BY DEF Call, lockdownd_connect_rsd
<1>9. step = "getChipID" => Call = Opens({"lockdown"}, "plist")
  BY <1>3 DEF Call
<1>10. step = "mount" => Call = Uses({"mounter"} \cup Link)
  BY DEF Call, image_mounter_mount_personalized_with_callback_rsd
<1>11. step = "connectRemote" => Call = Opens(Link, "remote")
  BY DEF Call, remote_server_connect_rsd
<1>12. step = "connectProxy" => Call = Opens(Link, "proxy")
  BY DEF Call, debug_proxy_connect_rsd
<1>13. step \in {"sendAck", "setAckMode", "script", "startNoAck", "attach", "detach"} =>
         Call = Uses({"proxy"})
  BY <1>1 DEF Call, debug_proxy_send_ack, debug_proxy_set_ack_mode
<1>14. step = "consume" => Call = Frees("error")
  BY DEF Call, idevice_error_free
<1>15. step \in {"idle", "load", "dispatch", "report"} => Call = Nothing
  BY DEF Call
<1> QED BY <1>4, <1>5, <1>6, <1>7, <1>8, <1>9, <1>10, <1>11, <1>12, <1>13, <1>14, <1>15

LEMMA ContractOfDefer ==
  ASSUME step = "leave", defers \in Shapes, defers # <<>>
  PROVE  Call = Frees(Head(defers))
<1>1. Call = Free(Head(defers))
  BY DEF Call
<1>2. Head(defers) \in {"pairing", "handshake", "adapter", "mounter", "lockdown", "plist", "proxy",
                        "remote"}
  BY TailOfShapes, KindsOfShapes DEF Shapes, Unwinding, Link, Tunnel
<1> QED
  BY <1>1, <1>2 DEF Free, rp_pairing_file_free, rsd_handshake_free, adapter_free, image_mounter_free,
                    lockdownd_client_free, plist_free, debug_proxy_free, remote_server_free

-----------------------------------------------------------------------------
(* Steps that use no handle, and those that do.                             *)

LEMMA HandleInit ==
  Init => HandleInv
<1> SUFFICES ASSUME Init PROVE HandleInv
  OBVIOUS
<1>1. step = "idle" /\ routine = "none" /\ defers = <<>> /\ session = 0 /\ live = {}
      /\ unproxied = {} /\ unacked = {}
  BY DEF Init, SessionInit, NoSession
<1>2. Control /\ defers \in DefersOf /\ Losses
  BY <1>1 DEF Control, Steps, DefersOf, Losses
<1>3. KindsOf(defers) = {} /\ Loose = {} /\ Leaks = {}
  BY <1>1, KindsOfShapes DEF Loose, Leaks
<1>4. Account
  BY <1>1, <1>3 DEF Account, Handles
<1> QED BY <1>2, <1>4 DEF HandleInv

\* Nothing here looks at the device, the arguments or the connection.
LEMMA HandleFrame ==
  ASSUME HandleInv, UNCHANGED <<handles, control, losses>>
  PROVE  HandleInv'
<1>1. UNCHANGED <<defers, session, live, routine, step, after, unproxied, unacked>>
  BY DEF handles, control, losses
<1> QED BY <1>1 DEF HandleInv, Control, DefersOf, Losses, Account, Handles, Loose, Leaks, KindsOf

\* What a call consumes is never a leak, so an account that balances stays right.
LEMMA Balance ==
  ASSUME HandleInv, NEW K, Gives(K), UNCHANGED <<session, unproxied, unacked>>,
         "unread" \notin Call.consumes, session \in unproxied => "remote" \notin Call.consumes,
         KindsOf(defers') \cup Loose' = ((KindsOf(defers) \cup Loose) \ Call.consumes) \cup K
  PROVE  Account'
<1>1. live' = (live \ Handles(Call.consumes)) \cup Handles(K)
  BY DEF Gives
<1>2. Leaks' = Leaks /\ Leaks \cap Handles(Call.consumes) = {}
  BY DEF Leaks, Handles
<1>3. Handles((KindsOf(defers) \cup Loose) \ Call.consumes)
        = Handles(KindsOf(defers) \cup Loose) \ Handles(Call.consumes)
  BY DEF Handles
<1>4. live = Handles(KindsOf(defers) \cup Loose) \cup Leaks
  BY DEF HandleInv, Account
<1>5. live' = Handles(((KindsOf(defers) \cup Loose) \ Call.consumes) \cup K) \cup Leaks
  BY <1>1, <1>2, <1>3, <1>4 DEF Handles
<1> QED BY <1>2, <1>5 DEF Account, Handles

LEMMA StartAccounts ==
  ASSUME HandleInv, NEW r \in Routines, NEW f, NEW p, Start(r, f, p)
  PROVE  HandleInv'
<1>1. routine = "none" /\ step = "idle" /\ defers = <<>> /\ KindsOf(defers) = {} /\ Loose = {}
  BY KindsOfShapes DEF Start, HandleInv, Control, DefersOf, Loose
<1>2. /\ routine' = r /\ step' \in {"load", "openPairing"} /\ session' = session + 1
      /\ UNCHANGED <<defers, live, unproxied, unacked>>
  BY DEF Start, losses
<1>3. Control' /\ (defers \in DefersOf)'
  BY <1>1, <1>2 DEF Control, DefersOf, Steps, Routines
<1>4. Losses'
  BY <1>2 DEF HandleInv, Losses
<1>5. (KindsOf(defers) = {})' /\ (Loose = {})'
  BY <1>1, <1>2, KindsOfShapes DEF Loose
<1>6. Handles({}) = {} /\ (Handles({}) = {})'
  BY DEF Handles
<1>7. live = Leaks /\ Leaks' = Leaks
  BY <1>1, <1>2, <1>6 DEF HandleInv, Account, Leaks
<1>8. Account'
  BY <1>2, <1>5, <1>6, <1>7 DEF Account
<1> QED BY <1>3, <1>4, <1>8 DEF HandleInv

\* Control moves on, no call is made.
LEMMA MoveAccounts ==
  ASSUME HandleInv, UNCHANGED <<handles, losses, routine>>, Control', (defers \in DefersOf)',
         Loose' = Loose, session \notin unproxied
  PROVE  HandleInv'
<1>1. UNCHANGED <<defers, session, live, unproxied, unacked>>
  BY DEF handles, losses
<1> QED BY <1>1 DEF HandleInv, Losses, Account, Handles, Leaks, KindsOf

LEMMA QuietAccounts ==
  ASSUME HandleInv, Load \/ Dispatch \/ Report \/ ChipIDFetched \/ RoutineEnds
  PROVE  HandleInv'
<1> USE DEF HandleInv
<1>1. CASE Load
  <2>1. step = "load" /\ (step' = "openPairing" \/ (step' = "leave" /\ after' = "done"))
        /\ UNCHANGED <<handles, losses, routine>>
    BY <1>1 DEF Load, Goto, Throw, Return
  <2>2. Control' /\ (defers \in DefersOf)' /\ Loose' = Loose /\ session \notin unproxied
    BY <2>1 DEF Control, Steps, DefersOf, Loose, Losses, Unwinding, handles
  <2> QED BY <2>1, <2>2, MoveAccounts
<1>2. CASE Dispatch
  <2>1. step = "dispatch" /\ (step' \in {"script", "attach"} \/ (step' = "leave" /\ after' = "done"))
        /\ UNCHANGED <<handles, losses, routine>>
    BY <1>2 DEF Dispatch, Goto, Throw, Return
  <2>2. Control' /\ (defers \in DefersOf)' /\ Loose' = Loose /\ session \notin unproxied
    BY <2>1 DEF Control, Steps, DefersOf, Loose, Losses, Unwinding, handles
  <2> QED BY <2>1, <2>2, MoveAccounts
<1>3. CASE Report
  <2>1. step = "report" /\ step' = "leave" /\ after' = "done" /\ UNCHANGED <<handles, losses, routine>>
    BY <1>3 DEF Report, Return
  <2>2. Control' /\ (defers \in DefersOf)' /\ Loose' = Loose /\ session \notin unproxied
    BY <2>1 DEF Control, Steps, DefersOf, Loose, Losses, Unwinding, handles
  <2> QED BY <2>1, <2>2, MoveAccounts
<1>4. CASE ChipIDFetched
  <2>1. /\ step = "leave" /\ after = "connectMounter" /\ step' = "connectMounter" /\ Len(defers) = 2
        /\ UNCHANGED <<handles, losses, routine>>
    BY <1>4 DEF ChipIDFetched, CallersDefers
  <2>2. defers = Tunnel
    BY <2>1 DEF DefersOf
  <2>3. Control' /\ (defers \in DefersOf)' /\ Loose' = Loose /\ session \notin unproxied
    BY <2>1, <2>2 DEF Control, Steps, DefersOf, Loose, Losses, handles
  <2> QED BY <2>1, <2>3, MoveAccounts
<1>5. CASE RoutineEnds
  <2>1. /\ step = "leave" /\ after = "done" /\ defers = <<>> /\ step' = "idle" /\ routine' = "none"
        /\ UNCHANGED <<defers, session, live, unproxied, unacked>>
    BY <1>5 DEF RoutineEnds, handles, losses
  <2>2. Control' /\ (defers \in DefersOf)' /\ Loose' = Loose /\ Losses'
    BY <2>1 DEF Control, Steps, DefersOf, Loose, Losses, KindsOf
  <2> QED BY <2>1, <2>2 DEF Account, Handles, Leaks, KindsOf
<1> QED BY <1>1, <1>2, <1>3, <1>4, <1>5

LEMMA OneAndTwo ==
  ASSUME NEW S, NEW a \in S, NEW b \in S, NEW c \in S
  PROVE  <<a>> \o <<b, c>> = <<a, b, c>>
<1> DEFINE joined == <<a>> \o <<b, c>>
           whole  == <<a, b, c>>
<1>1. Len(joined) = 3 /\ Len(whole) = 3
  OBVIOUS
<1>2. joined \in Seq(S) /\ whole \in Seq(S)
  OBVIOUS
<1>3. joined[1] = whole[1] /\ joined[2] = whole[2] /\ joined[3] = whole[3]
  OBVIOUS
<1>4. \A i \in 1 .. 3 : joined[i] = whole[i]
  BY <1>3
<1> HIDE DEF joined, whole
<1>5. joined = whole
  BY <1>1, <1>2, <1>4, SeqEqual
<1> QED BY <1>5 DEF joined, whole

LEMMA OneAndThree ==
  ASSUME NEW S, NEW a \in S, NEW b \in S, NEW c \in S, NEW d \in S
  PROVE  <<a>> \o <<b, c, d>> = <<a, b, c, d>>
<1> DEFINE joined == <<a>> \o <<b, c, d>>
           whole  == <<a, b, c, d>>
<1>1. Len(joined) = 4 /\ Len(whole) = 4
  OBVIOUS
<1>2. joined \in Seq(S) /\ whole \in Seq(S)
  OBVIOUS
<1>3. joined[1] = whole[1] /\ joined[2] = whole[2] /\ joined[3] = whole[3] /\ joined[4] = whole[4]
  OBVIOUS
<1>4. \A i \in 1 .. 4 : joined[i] = whole[i]
  BY <1>3
<1> HIDE DEF joined, whole
<1>5. joined = whole
  BY <1>1, <1>2, <1>4, SeqEqual
<1> QED BY <1>5 DEF joined, whole

LEMMA TwoAndTwo ==
  ASSUME NEW S, NEW a \in S, NEW b \in S, NEW c \in S, NEW d \in S
  PROVE  <<a, b>> \o <<c, d>> = <<a, b, c, d>>
<1> DEFINE joined == <<a, b>> \o <<c, d>>
           whole  == <<a, b, c, d>>
<1>1. Len(joined) = 4 /\ Len(whole) = 4
  OBVIOUS
<1>2. joined \in Seq(S) /\ whole \in Seq(S)
  OBVIOUS
<1>3. joined[1] = whole[1] /\ joined[2] = whole[2] /\ joined[3] = whole[3] /\ joined[4] = whole[4]
  OBVIOUS
<1>4. \A i \in 1 .. 4 : joined[i] = whole[i]
  BY <1>3
<1> HIDE DEF joined, whole
<1>5. joined = whole
  BY <1>1, <1>2, <1>4, SeqEqual
<1> QED BY <1>5 DEF joined, whole

LEMMA DeferShapes ==
  /\ <<"pairing">> \o <<>> = <<"pairing">> /\ Tunnel \o <<>> = Tunnel
  /\ \A k \in Kinds : <<k>> \o Tunnel = <<k, "handshake", "adapter">>
  /\ <<"proxy", "remote">> \o Tunnel = <<"proxy", "remote", "handshake", "adapter">>
  /\ <<"plist">> \o <<"lockdown", "handshake", "adapter">>
       = <<"plist", "lockdown", "handshake", "adapter">>
<1>1. {"pairing", "handshake", "adapter", "proxy", "remote", "plist", "lockdown", "mounter"} \subseteq Kinds
  BY DEF Kinds
<1>2. <<"pairing">> \in Seq(Kinds) /\ Tunnel \in Seq(Kinds)
  BY <1>1 DEF Tunnel
<1>3. <<"pairing">> \o <<>> = <<"pairing">> /\ Tunnel \o <<>> = Tunnel
  BY <1>2, ConcatEmptySeq
<1>4. \A k \in Kinds : <<k>> \o Tunnel = <<k, "handshake", "adapter">>
  BY <1>1, OneAndTwo DEF Tunnel
<1>5. <<"proxy", "remote">> \o Tunnel = <<"proxy", "remote", "handshake", "adapter">>
  BY <1>1, TwoAndTwo DEF Tunnel
<1>6. <<"plist">> \o <<"lockdown", "handshake", "adapter">>
       = <<"plist", "lockdown", "handshake", "adapter">>
  BY <1>1, OneAndThree
<1> QED BY <1>3, <1>4, <1>5, <1>6

\* A call of a session that has its proxy, or does not need one.
LEMMA CallAccounts ==
  ASSUME HandleInv, NEW K, Gives(K), UNCHANGED <<session, unproxied, unacked, routine>>,
         Control', (defers \in DefersOf)', session \notin unproxied,
         "unread" \notin Call.consumes,
         KindsOf(defers') \cup Loose' = ((KindsOf(defers) \cup Loose) \ Call.consumes) \cup K
  PROVE  HandleInv'
BY Balance DEF HandleInv, Losses

\* ... that fails, with an error that is thrown, or with nothing.
LEMMA FailureAccounts ==
  ASSUME HandleInv, UNCHANGED <<defers, session, unproxied, unacked>>,
         Call.consumes = {}, Loose = {}, defers \in Unwinding, step # "idle", session \notin unproxied,
         \/ Check
         \/ GivesNothing /\ Throw
         \/ Call.makes = {} /\ Succeeds /\ \E value \in Results : Return(value)
  PROVE  HandleInv'
<1>1. CASE Check
  <2>1. Gives({"error"}) /\ step' = "consume" /\ after' = "done" /\ routine' = routine
    BY <1>1 DEF Check, Try, Fails
  <2>2. Control' /\ (defers \in DefersOf)' /\ Loose' = {"error"} /\ KindsOf(defers') = KindsOf(defers)
    BY <2>1 DEF HandleInv, Control, Steps, DefersOf, Loose
  <2> QED BY <2>1, <2>2, CallAccounts
<1>2. CASE ~Check
  <2>1. Gives({}) /\ step' = "leave" /\ after' = "done" /\ routine' = routine
    BY <1>2 DEF GivesNothing, Succeeds, Throw, Return
  <2>2. Control' /\ (defers \in DefersOf)' /\ Loose' = {} /\ KindsOf(defers') = KindsOf(defers)
    BY <2>1 DEF HandleInv, Control, Steps, DefersOf, Loose
  <2> QED BY <2>1, <2>2, CallAccounts
<1> QED BY <1>1, <1>2

LEMMA PairingAccounts ==
  ASSUME HandleInv, OpenPairing
  PROVE  HandleInv'
<1>1. step = "openPairing" /\ UNCHANGED <<session, unproxied, unacked>>
  BY DEF OpenPairing, Arguments, losses
<1>2. defers = <<>> /\ KindsOf(defers) = {} /\ Loose = {} /\ session \notin unproxied
  BY <1>1, KindsOfShapes DEF HandleInv, DefersOf, Loose, Losses
<1>3. Call.consumes = {} /\ Call.makes = {"pairing"}
  BY <1>1, Contracts DEF Opens, Function
<1>4. CASE Succeeds /\ Defers(<<"pairing">>) /\ Goto("createTunnel")
  <2>1. Gives({"pairing"}) /\ defers' = <<"pairing">> /\ step' = "createTunnel" /\ routine' = routine
    BY <1>2, <1>3, <1>4, DeferShapes DEF Succeeds, Defers, Goto
  <2>2. Control' /\ (defers \in DefersOf)' /\ Loose' = {} /\ KindsOf(defers') = {"pairing"}
    BY <1>1, <2>1, KindsOfShapes DEF HandleInv, Control, Steps, DefersOf, Loose
  <2> QED BY <1>1, <1>2, <1>3, <2>1, <2>2, CallAccounts
<1>5. CASE (Check \/ (GivesNothing /\ Throw)) /\ UNCHANGED defers
  <2>1. UNCHANGED <<defers, session, unproxied, unacked>>
    BY <1>1, <1>5
  <2> QED BY <1>1, <1>2, <1>3, <1>5, <2>1, FailureAccounts DEF Unwinding
<1> QED BY <1>4, <1>5 DEF OpenPairing

LEMMA TunnelAccounts ==
  ASSUME HandleInv, CreateTunnel \/ TunnelMade
  PROVE  HandleInv'
<1>1. CASE CreateTunnel
  <2>1. step = "createTunnel" /\ UNCHANGED <<defers, session, unproxied, unacked>>
    BY <1>1 DEF CreateTunnel, Arguments, losses
  <2>2. defers = <<"pairing">> /\ Loose = {} /\ session \notin unproxied
    BY <2>1 DEF HandleInv, DefersOf, Loose, Losses
  <2>3. Call.consumes = {} /\ Call.makes = Link
    BY <2>1, Contracts DEF Function
  <2>4. CASE Succeeds /\ ReturnTo("tunnel")
    <3>1. Gives(Link) /\ step' = "leave" /\ after' = "tunnel" /\ routine' = routine
      BY <2>3, <2>4 DEF Succeeds, ReturnTo
    <3>2. Control' /\ (defers \in DefersOf)' /\ Loose' = Link /\ KindsOf(defers') = KindsOf(defers)
      BY <2>1, <2>2, <3>1 DEF HandleInv, Control, Steps, DefersOf, Loose
    <3> QED BY <2>1, <2>2, <2>3, <3>1, <3>2, CallAccounts
  <2>5. CASE Check
    BY <2>1, <2>2, <2>3, <2>5, FailureAccounts DEF Unwinding
  <2> QED BY <1>1, <2>4, <2>5 DEF CreateTunnel
<1>2. CASE TunnelMade
  <2>1. /\ step = "leave" /\ after = "tunnel" /\ defers = <<>> /\ defers' = Tunnel \o <<>>
        /\ UNCHANGED <<live, session, unproxied, unacked, routine>>
    BY <1>2 DEF TunnelMade, Defers, Goto, Arguments, losses, Tunnel
  <2>2. step' \in {"connectMounter", "connectLockdown", "connectRemote"}
    <3>1. routine \in Routines
      BY <2>1 DEF HandleInv, Control
    <3> QED BY <1>2, <3>1 DEF TunnelMade, Goto, Routines
  <2>3. /\ Control' /\ (defers \in DefersOf)' /\ Loose = Link /\ Loose' = {} /\ session \notin unproxied
        /\ KindsOf(defers) = {} /\ KindsOf(defers') = Link
    BY <2>1, <2>2, DeferShapes, KindsOfShapes
       DEF HandleInv, Control, Steps, DefersOf, Loose, Losses
  <2> QED BY <2>1, <2>2, <2>3 DEF HandleInv, Losses, Account, Handles, Leaks
<1> QED BY <1>1, <1>2

\* A client of the tunnel.
LEMMA ConnectAccounts ==
  ASSUME HandleInv, UNCHANGED <<session, unproxied, unacked>>, Loose = {}, defers = Tunnel,
         step # "idle", session \notin unproxied, NEW kind \in {"mounter", "lockdown"}, Call.consumes = {},
         Call.makes = {kind}, NEW next, next \in IF kind = "mounter" THEN {"copyDevices", "mount"}
                                                 ELSE {"getChipID"},
         Connect(kind, next)
  PROVE  HandleInv'
<1>1. CASE Succeeds /\ Defers(<<kind>>) /\ Goto(next)
  <2>1. /\ Gives({kind}) /\ defers' = <<kind, "handshake", "adapter">> /\ step' = next
        /\ routine' = routine
    BY <1>1, DeferShapes DEF Succeeds, Defers, Goto, Kinds
  <2>2. Control' /\ (defers \in DefersOf)' /\ Loose' = {}
    BY <2>1 DEF HandleInv, Control, Steps, DefersOf, Loose
  <2>3. KindsOf(defers') = {kind} \cup Link /\ KindsOf(defers) = Link
    BY <2>1, KindsOfShapes
  <2> QED BY <2>1, <2>2, <2>3, CallAccounts
<1>2. CASE (Check \/ (GivesNothing /\ Throw)) /\ UNCHANGED defers
  <2>1. UNCHANGED <<defers, session, unproxied, unacked>>
    BY <1>2
  <2> QED BY <1>2, <2>1, FailureAccounts DEF Unwinding
<1> QED BY <1>1, <1>2 DEF Connect

LEMMA ImageAccounts ==
  ASSUME HandleInv, ConnectMounter \/ ConnectLockdown \/ CopyDevices \/ GetChipID \/ Mount
  PROVE  HandleInv'
<1>1. CASE ConnectMounter
  <2>1. step = "connectMounter" /\ UNCHANGED <<session, unproxied, unacked>>
    BY <1>1 DEF ConnectMounter, Arguments, losses
  <2>2. defers = Tunnel /\ Loose = {} /\ session \notin unproxied
    BY <2>1 DEF HandleInv, DefersOf, Loose, Losses
  <2>3. Call.consumes = {} /\ Call.makes = {"mounter"}
    BY <2>1, Contracts DEF Opens, Function
  <2>4. \E next \in {"copyDevices", "mount"} : Connect("mounter", next)
    BY <1>1 DEF ConnectMounter
  <2> QED BY <2>1, <2>2, <2>3, <2>4, ConnectAccounts
<1>2. CASE ConnectLockdown
  <2>1. step = "connectLockdown" /\ UNCHANGED <<session, unproxied, unacked>>
    BY <1>2 DEF ConnectLockdown, Arguments, losses
  <2>2. defers = Tunnel /\ Loose = {} /\ session \notin unproxied
    BY <2>1 DEF HandleInv, DefersOf, Loose, Losses
  <2>3. Call.consumes = {} /\ Call.makes = {"lockdown"}
    BY <2>1, Contracts DEF Opens, Function
  <2>4. Connect("lockdown", "getChipID")
    BY <1>2 DEF ConnectLockdown
  <2> QED BY <2>1, <2>2, <2>3, <2>4, ConnectAccounts
<1>3. CASE CopyDevices \/ Mount
  <2>1. step \in {"copyDevices", "mount"} /\ UNCHANGED <<defers, session, unproxied, unacked>>
    BY <1>3 DEF CopyDevices, Mount, Arguments, losses
  <2>2. defers \in Unwinding /\ Loose = {} /\ session \notin unproxied
    BY <2>1 DEF HandleInv, DefersOf, Loose, Losses, Unwinding
  <2>3. Call.consumes = {} /\ Call.makes = {}
    BY <2>1, Contracts DEF Uses, Function
  <2>4. Check \/ (Succeeds /\ \E value \in Results : Return(value))
    BY <1>3 DEF CopyDevices, Mount, Results
  <2> QED BY <2>1, <2>2, <2>3, <2>4, FailureAccounts
<1>4. CASE GetChipID
  <2>1. step = "getChipID" /\ UNCHANGED <<session, unproxied, unacked>>
    BY <1>4 DEF GetChipID, Arguments, losses
  <2>2. defers = <<"lockdown", "handshake", "adapter">> /\ Loose = {} /\ session \notin unproxied
    BY <2>1 DEF HandleInv, DefersOf, Loose, Losses
  <2>3. Call.consumes = {} /\ Call.makes = {"plist"}
    BY <2>1, Contracts DEF Opens, Function
  <2>4. CASE Succeeds /\ Defers(<<"plist">>) /\ ReturnTo("connectMounter")
    <3>1. /\ Gives({"plist"}) /\ defers' = <<"plist", "lockdown", "handshake", "adapter">>
          /\ step' = "leave" /\ after' = "connectMounter" /\ routine' = routine
      BY <2>2, <2>3, <2>4, DeferShapes DEF Succeeds, Defers, ReturnTo
    <3>2. Control' /\ (defers \in DefersOf)' /\ Loose' = {}
      BY <2>1, <3>1 DEF HandleInv, Control, Steps, DefersOf, Loose
    <3>3. KindsOf(defers') = {"plist"} \cup KindsOf(defers)
      BY <2>2, <3>1, KindsOfShapes
    <3> QED BY <2>1, <2>2, <2>3, <3>1, <3>2, <3>3, CallAccounts
  <2>5. CASE (Check \/ (GivesNothing /\ Throw)) /\ UNCHANGED defers
    <3>1. UNCHANGED <<defers, session, unproxied, unacked>>
      BY <2>1, <2>5
    <3> QED BY <2>1, <2>2, <2>3, <2>5, <3>1, FailureAccounts DEF Unwinding
  <2> QED BY <1>4, <2>4, <2>5 DEF GetChipID
<1> QED BY <1>1, <1>2, <1>3, <1>4

LEMMA ConnectionAccounts ==
  ASSUME HandleInv, ConnectRemote \/ ConnectProxy
  PROVE  HandleInv'
<1>1. CASE ConnectRemote
  <2>1. step = "connectRemote" /\ UNCHANGED <<defers, session, unproxied, unacked>>
    BY <1>1 DEF ConnectRemote, Arguments, losses
  <2>2. defers = Tunnel /\ Loose = {} /\ session \notin unproxied
    BY <2>1 DEF HandleInv, DefersOf, Loose, Losses
  <2>3. Call.consumes = {} /\ Call.makes = {"remote"}
    BY <2>1, Contracts DEF Opens, Function
  <2>4. CASE Succeeds /\ Goto("connectProxy")
    <3>1. Gives({"remote"}) /\ step' = "connectProxy" /\ routine' = routine
      BY <2>3, <2>4 DEF Succeeds, Goto
    <3>2. Control' /\ (defers \in DefersOf)' /\ Loose' = {"remote"} /\ KindsOf(defers') = KindsOf(defers)
      BY <2>1, <2>2, <3>1 DEF HandleInv, Control, Steps, DefersOf, Loose
    <3> QED BY <2>1, <2>2, <2>3, <3>1, <3>2, CallAccounts
  <2>5. CASE Check
    BY <2>1, <2>2, <2>3, <2>5, FailureAccounts DEF Unwinding
  <2> QED BY <1>1, <2>4, <2>5 DEF ConnectRemote
<1>2. CASE ConnectProxy
  <2>1. step = "connectProxy" /\ UNCHANGED <<session, unacked>>
    BY <1>2 DEF ConnectProxy, Arguments
  <2>2. defers = Tunnel /\ Loose = {"remote"} /\ session \notin unproxied /\ KindsOf(defers) = Link
    BY <2>1, KindsOfShapes DEF HandleInv, DefersOf, Loose, Losses
  <2>3. Call.consumes = {} /\ Call.makes = {"proxy"}
    BY <2>1, Contracts DEF Opens, Function
  <2>4. CASE Succeeds /\ Defers(<<"proxy", "remote">>) /\ Goto("sendAck") /\ UNCHANGED unproxied
    <3>1. /\ Gives({"proxy"}) /\ defers' = <<"proxy", "remote", "handshake", "adapter">>
          /\ step' = "sendAck" /\ routine' = routine
      BY <2>2, <2>3, <2>4, DeferShapes DEF Succeeds, Defers, Goto
    <3>2. Control' /\ (defers \in DefersOf)' /\ Loose' = {}
      BY <2>1, <3>1 DEF HandleInv, Control, Steps, DefersOf, Loose
    <3>3. KindsOf(defers') = {"proxy", "remote"} \cup Link
      BY <3>1, KindsOfShapes
    <3> QED BY <2>1, <2>2, <2>3, <2>4, <3>1, <3>2, <3>3, CallAccounts
  <2>5. CASE GivesNothing /\ Defers(<<"remote">>) /\ Throw /\ UNCHANGED unproxied
    <3>1. /\ Gives({}) /\ defers' = <<"remote", "handshake", "adapter">>
          /\ step' = "leave" /\ after' = "done" /\ routine' = routine
      BY <2>2, <2>5, DeferShapes DEF GivesNothing, Defers, Throw, Return, Kinds
    <3>2. Control' /\ (defers \in DefersOf)' /\ Loose' = {}
      BY <2>1, <3>1 DEF HandleInv, Control, Steps, DefersOf, Loose, Unwinding
    <3>3. KindsOf(defers') = {"remote"} \cup Link
      BY <3>1, KindsOfShapes
    <3> QED BY <2>1, <2>2, <2>3, <2>5, <3>1, <3>2, <3>3, CallAccounts
  <2>6. CASE Check /\ UNCHANGED defers /\ unproxied' = unproxied \cup {session}
    <3>1. /\ live' = live \cup Handles({"error"})
          /\ step' = "consume" /\ after' = "done" /\ routine' = routine
      BY <2>3, <2>6 DEF Check, Try, Fails, Gives, Handles
    <3>2. Control' /\ (defers \in DefersOf)' /\ Loose' = {"error"} /\ KindsOf(defers') = Link
      BY <2>1, <2>2, <2>6, <3>1 DEF HandleInv, Control, Steps, DefersOf, Loose, Unwinding
    <3>3. session \in 1 .. session
      BY <2>1 DEF HandleInv, Control, Losses
    <3>4. Losses'
      BY <2>1, <2>6, <3>1, <3>2, <3>3 DEF HandleInv, Losses, Link
    <3>5. Leaks' = Leaks \cup Handles({"remote"})
      BY <2>1, <2>6 DEF Leaks, Handles
    <3>6. live = Handles(Link \cup {"remote"}) \cup Leaks
      BY <2>2 DEF HandleInv, Account
    <3>7. live' = Handles(Link \cup {"error"}) \cup Leaks'
      BY <3>1, <3>5, <3>6 DEF Handles
    <3> QED BY <2>1, <3>2, <3>4, <3>7 DEF HandleInv, Account, Handles
  <2> QED BY <1>2, <2>4, <2>5, <2>6 DEF ConnectProxy
<1> QED BY <1>1, <1>2

\* A call over the debug proxy that leads to the next one, or to its error object first.
ProxySteps == {"sendAck", "startNoAck", "setAckMode", "dispatch", "script", "attach", "detach", "report"}

LEMMA ProxyAccounts ==
  ASSUME HandleInv, step \in ProxySteps \ {"dispatch", "report"},
         UNCHANGED <<defers, session, unproxied, unacked>>,
         \/ Succeeds /\ \E next \in ProxySteps : Goto(next)
         \/ \E next \in {"setAckMode", "report"} : Try(next)
         \/ Check
         \/ Succeeds /\ \E value \in Results : Return(value)
  PROVE  HandleInv'
<1>1. /\ defers = <<"proxy", "remote", "handshake", "adapter">> /\ Loose = {} /\ session \notin unproxied
      /\ Call.consumes = {} /\ Call.makes = {}
  BY Contracts DEF ProxySteps, HandleInv, DefersOf, Loose, Losses, Uses, Function
<1>2. CASE Succeeds /\ \E next \in ProxySteps : Goto(next)
  <2>1. Gives({}) /\ step' \in ProxySteps /\ routine' = routine
    BY <1>1, <1>2 DEF Succeeds, Goto
  <2>2. Control' /\ (defers \in DefersOf)' /\ Loose' = {} /\ KindsOf(defers') = KindsOf(defers)
    BY <1>1, <2>1 DEF HandleInv, Control, Steps, DefersOf, Loose, ProxySteps
  <2> QED BY <1>1, <2>1, <2>2, CallAccounts
<1>3. CASE \E next \in {"setAckMode", "report"} : Try(next)
  <2>1. Gives({"error"}) /\ step' = "consume" /\ after' \in {"setAckMode", "report"} /\ routine' = routine
    BY <1>3 DEF Try, Fails
  <2>2. Control' /\ (defers \in DefersOf)' /\ Loose' = {"error"} /\ KindsOf(defers') = KindsOf(defers)
    BY <1>1, <2>1 DEF HandleInv, Control, Steps, DefersOf, Loose, ProxySteps
  <2> QED BY <1>1, <2>1, <2>2, CallAccounts
<1>4. CASE Check \/ (Succeeds /\ \E value \in Results : Return(value))
  <2>1. step # "idle" /\ defers \in Unwinding
    BY <1>1 DEF ProxySteps, Unwinding
  <2> QED BY <1>1, <1>4, <2>1, FailureAccounts
<1> QED BY <1>2, <1>3, <1>4

LEMMA DebugAccounts ==
  ASSUME HandleInv, SendAck \/ StartNoAck \/ SetAckMode \/ RunScript \/ Attach \/ Detach
  PROVE  HandleInv'
<1> USE DEF ProxySteps, Arguments, losses
<1>1. CASE SendAck
  <2>1. step = "sendAck" /\ Goto("startNoAck") /\ UNCHANGED <<defers, session, unproxied>>
    BY <1>1 DEF SendAck
  <2>2. CASE Succeeds /\ UNCHANGED unacked
    <3>1. UNCHANGED <<defers, session, unproxied, unacked>>
      BY <2>1, <2>2
    <3> QED BY <2>1, <2>2, <3>1, ProxyAccounts
  <2>3. CASE Gives({"unread"}) /\ unacked' = unacked \cup {session}
    <3>1. /\ defers = <<"proxy", "remote", "handshake", "adapter">> /\ Loose = {} /\ Call.consumes = {}
          /\ session \in 1 .. session /\ session \notin unproxied
      BY <2>1, Contracts DEF HandleInv, DefersOf, Loose, Losses, Control, Uses, Function
    <3>2. step' = "startNoAck" /\ routine' = routine /\ live' = live \cup Handles({"unread"})
      BY <2>1, <2>3, <3>1 DEF Goto, Gives, Handles
    <3>3. Control' /\ (defers \in DefersOf)' /\ Loose' = {} /\ KindsOf(defers') = KindsOf(defers)
      BY <2>1, <3>1, <3>2 DEF HandleInv, Control, Steps, DefersOf, Loose
    <3>4. Losses'
      BY <2>1, <2>3, <3>1, <3>2 DEF HandleInv, Losses
    <3>5. Leaks' = Leaks \cup Handles({"unread"})
      BY <2>1, <2>3 DEF Leaks, Handles
    <3>6. Account'
      BY <2>1, <3>1, <3>2, <3>3, <3>5 DEF HandleInv, Account, Handles
    <3> QED BY <3>3, <3>4, <3>6 DEF HandleInv
  <2> QED BY <1>1, <2>2, <2>3 DEF SendAck
<1>2. CASE StartNoAck
  <2>1. step = "startNoAck" /\ UNCHANGED <<defers, session, unproxied, unacked>>
        /\ ((Succeeds /\ Goto("setAckMode")) \/ Try("setAckMode"))
    BY <1>2 DEF StartNoAck
  <2> QED BY <2>1, ProxyAccounts
<1>3. CASE SetAckMode
  <2>1. step = "setAckMode" /\ UNCHANGED <<defers, session, unproxied, unacked>>
        /\ Succeeds /\ Goto("dispatch")
    BY <1>3 DEF SetAckMode
  <2> QED BY <2>1, ProxyAccounts
<1>4. CASE RunScript
  <2>1. step = "script" /\ UNCHANGED <<defers, session, unproxied, unacked>>
        /\ Succeeds /\ (Return("ok") \/ Return("error"))
    BY <1>4 DEF RunScript, Throw
  <2> QED BY <2>1, ProxyAccounts DEF Results
<1>5. CASE Attach
  <2>1. step = "attach" /\ UNCHANGED <<defers, session, unproxied, unacked>>
        /\ ((Succeeds /\ Goto("detach")) \/ Check)
    BY <1>5 DEF Attach
  <2> QED BY <2>1, ProxyAccounts
<1>6. CASE Detach
  <2>1. step = "detach" /\ UNCHANGED <<defers, session, unproxied, unacked>>
        /\ ((Succeeds /\ Goto("report")) \/ Try("report"))
    BY <1>6 DEF Detach
  <2> QED BY <2>1, ProxyAccounts
<1> QED BY <1>1, <1>2, <1>3, <1>4, <1>5, <1>6

LEMMA ConsumeAccounts ==
  ASSUME HandleInv, Consume
  PROVE  HandleInv'
<1>1. step = "consume" /\ Gives(Call.makes) /\ UNCHANGED <<defers, session, unproxied, unacked, routine>>
  BY DEF Consume, Succeeds, Arguments, losses, Throw, Return, Goto
<1>2. Call.consumes = {"error"} /\ Call.makes = {} /\ Loose = {"error"}
  BY <1>1, Contracts DEF Frees, Function, Loose
<1>3. after = "done" => step' = "leave" /\ after' = "done"
  BY DEF Consume, Throw, Return
<1>4. after # "done" => step' \in {"setAckMode", "report"}
  BY <1>1 DEF Consume, Goto, HandleInv, Control
<1>5. Control' /\ (defers \in DefersOf)' /\ Loose' = {} /\ KindsOf(defers') = KindsOf(defers)
  BY <1>1, <1>3, <1>4 DEF HandleInv, Control, Steps, DefersOf, Loose
<1>6. Losses'
  BY <1>1, <1>3, <1>4, <1>5 DEF HandleInv, Losses
<1>7. "error" \notin KindsOf(defers)
  <2>1. defers \in Shapes
    BY <1>1 DEF HandleInv, Control, DefersOf, Shapes, Unwinding
  <2> QED BY <2>1, KindsOfShapes DEF Shapes, Unwinding, Link
<1>8. Account'
  BY <1>1, <1>2, <1>5, <1>7, Balance
<1> QED BY <1>5, <1>6, <1>8 DEF HandleInv

LEMMA DeferAccounts ==
  ASSUME HandleInv, RunDefer
  PROVE  HandleInv'
<1>1. /\ step = "leave" /\ Len(defers) > CallersDefers /\ Gives(Call.makes) /\ defers' = Tail(defers)
      /\ UNCHANGED <<routine, step, after, session, unproxied, unacked>>
  BY DEF RunDefer, Succeeds, control, Arguments, losses
<1>2. defers \in Shapes /\ defers # <<>>
  BY <1>1 DEF HandleInv, Control, DefersOf, Shapes, Unwinding, CallersDefers
<1>3. Call.consumes = {Head(defers)} /\ Call.makes = {}
  BY <1>1, <1>2, ContractOfDefer DEF Frees, Function
<1>4. /\ defers' \in Unwinding /\ Head(defers) \in KindsOf(defers)
      /\ KindsOf(defers') = KindsOf(defers) \ {Head(defers)}
  BY <1>1, <1>2, TailOfShapes
<1>5. Control' /\ Loose' = Loose
  BY <1>1 DEF HandleInv, Control, Loose
<1>6. (defers \in DefersOf)'
  <2>1. CASE after = "tunnel"
    <3>1. defers = <<"pairing">> /\ Tail(<<"pairing">>) = <<>>
      BY <1>1, <1>2, <2>1 DEF HandleInv, DefersOf
    <3> QED BY <1>1, <2>1, <3>1 DEF DefersOf
  <2>2. CASE after = "connectMounter"
    <3>1. defers \in {<<"lockdown", "handshake", "adapter">>,
                      <<"plist", "lockdown", "handshake", "adapter">>}
      BY <1>1, <2>2 DEF HandleInv, DefersOf, CallersDefers, Tunnel
    <3>2. /\ Tail(<<"lockdown", "handshake", "adapter">>) = Tunnel
          /\ Tail(<<"plist", "lockdown", "handshake", "adapter">>)
                = <<"lockdown", "handshake", "adapter">>
      BY DEF Tunnel
    <3> QED BY <1>1, <2>2, <3>1, <3>2 DEF DefersOf
  <2>3. CASE after = "done"
    BY <1>1, <1>4, <2>3 DEF DefersOf
  <2> QED BY <1>1, <2>1, <2>2, <2>3 DEF HandleInv, Control
<1>7. Losses'
  BY <1>1, <1>4 DEF HandleInv, Losses
<1>8. Head(defers) \notin Loose /\ Head(defers) # "unread"
  <2>1. CASE after = "tunnel"
    <3>1. defers = <<"pairing">> /\ Head(<<"pairing">>) = "pairing"
      BY <1>1, <1>2, <2>1 DEF HandleInv, DefersOf
    <3> QED BY <1>1, <2>1, <3>1 DEF Loose, Link
  <2>2. CASE after # "tunnel"
    <3>1. Loose = {}
      BY <1>1, <2>2 DEF Loose
    <3>2. "unread" \notin KindsOf(defers)
      BY <1>2, KindsOfShapes DEF Shapes, Unwinding, Link
    <3> QED BY <1>4, <3>1, <3>2
  <2> QED BY <2>1, <2>2
<1>9. session \in unproxied => Head(defers) # "remote"
  BY <1>1, <1>4 DEF HandleInv, Losses
<1>10. Account'
  BY <1>1, <1>3, <1>4, <1>5, <1>8, <1>9, Balance
<1> QED BY <1>5, <1>6, <1>7, <1>10 DEF HandleInv

-----------------------------------------------------------------------------
(* Every step keeps the account.                                            *)

LEMMA SessionAccounts ==
  ASSUME HandleInv, SessionStep \/ RunScript
  PROVE  HandleInv'
BY QuietAccounts, PairingAccounts, TunnelAccounts, ImageAccounts, ConnectionAccounts, DebugAccounts,
   ConsumeAccounts, DeferAccounts DEF SessionStep

\* A public call starts a routine or touches none of them.
LEMMA FacadeAccounts ==
  ASSUME HandleInv, FacadeStep \/ (\E c \in Calls : StartCall(c))
  PROVE  HandleInv'
<1>1. ASSUME NEW r \in Routines, NEW next, Begin(r, next) PROVE HandleInv'
  BY <1>1, StartAccounts DEF Begin
<1>2. ASSUME NEW p, BeginJIT(p) PROVE HandleInv'
  BY <1>2, StartAccounts DEF BeginJIT, Routines
<1>3. ASSUME UNCHANGED sessionVars PROVE HandleInv'
  BY <1>3, HandleFrame DEF sessionVars
<1>4. "isMounted" \in Routines /\ "mountDDI" \in Routines
  BY DEF Routines
<1>5. ASSUME NEW c \in Calls, StartCall(c) PROVE HandleInv'
  <2>1. \/ \E presence \in txmPresence : BeginJIT(presence)
        \/ Begin("mountDDI", "session") \/ Begin("isMounted", "session")
        \/ UNCHANGED sessionVars
    BY <1>5 DEF StartCall, Calls
  <2> QED BY <1>1, <1>2, <1>3, <1>4, <2>1
<1>6. CASE Probe
  BY <1>1, <1>3, <1>4, <1>6 DEF Probe
<1>7. CASE Checked
  BY <1>1, <1>3, <1>4, <1>7 DEF Checked
<1>8. CASE Download
  BY <1>3, <1>4, <1>8, StartAccounts DEF Download
<1>9. CASE Mounted
  BY <1>1, <1>3, <1>4, <1>9 DEF Mounted
<1>10. CASE Verified \/ CallReturns
  BY <1>3, <1>10 DEF Verified, CallReturns
<1>11. CASE ReadTXM
  BY <1>2, <1>3, <1>11 DEF ReadTXM
<1> QED BY <1>5, <1>6, <1>7, <1>8, <1>9, <1>10, <1>11 DEF FacadeStep

\* The process dies, and nothing it had is left.
LEMMA ForgetAccounts ==
  ASSUME ForgetSessions
  PROVE  HandleInv'
<1>1. (routine = "none" /\ step = "idle" /\ defers = <<>> /\ session = 0 /\ live = {}
         /\ unproxied = {} /\ unacked = {})'
  BY DEF ForgetSessions
<1>2. Control' /\ (defers \in DefersOf)' /\ Losses'
  BY <1>1 DEF Control, Steps, DefersOf, Losses
<1>3. (KindsOf(defers) = {})' /\ (Loose = {})' /\ (Leaks = {})'
  BY <1>1, KindsOfShapes DEF Loose, Leaks
<1>4. Account'
  BY <1>1, <1>3 DEF Account, Handles
<1> QED BY <1>2, <1>4 DEF HandleInv

LEMMA HandleStep ==
  HandleInv /\ [Next]_vars => HandleInv'
<1> SUFFICES ASSUME HandleInv, [Next]_vars PROVE HandleInv'
  OBVIOUS
<1>1. CASE SessionStep \/ RunScript
  BY <1>1, SessionAccounts
<1>2. CASE FacadeStep \/ \E c \in Calls : StartCall(c)
  BY <1>2, FacadeAccounts
<1>3. CASE CacheChanges
  BY <1>3, HandleFrame DEF CacheChanges
<1>4. CASE Kill \/ Reboot
  BY <1>4, ForgetAccounts DEF Kill, Reboot
<1>5. CASE UNCHANGED vars
  BY <1>5, HandleFrame DEF vars, sessionVars
<1> QED BY <1>1, <1>2, <1>3, <1>4, <1>5 DEF Next

LEMMA HandlesAccounted ==
  Spec => []HandleInv
BY HandleInit, HandleStep, PTL DEF Spec

-----------------------------------------------------------------------------
(* What the account says.                                                   *)

LEMMA ArgumentsFollow ==
  HandleInv => ArgumentsAreLive
<1> SUFFICES ASSUME HandleInv PROVE Call.borrows \cup Call.consumes \subseteq KindsOf(defers) \cup Loose
  BY DEF HandleInv, Account, ArgumentsAreLive, Handles
<1>1. CASE step \in {"idle", "load", "openPairing", "dispatch", "report"}
  BY <1>1, Contracts DEF Opens, Uses, Function, Nothing
<1>2. CASE step = "createTunnel"
  BY <1>2, Contracts, KindsOfShapes DEF HandleInv, DefersOf, Function
<1>3. CASE step \in {"connectMounter", "connectLockdown", "connectRemote", "connectProxy"}
  <2>1. Call.borrows = Link /\ Call.consumes = {}
    BY <1>3, Contracts DEF Opens, Function
  <2>2. KindsOf(defers) = Link
    BY <1>3, KindsOfShapes DEF HandleInv, DefersOf
  <2> QED BY <2>1, <2>2
<1>4. CASE step \in {"copyDevices", "mount"}
  <2>1. Call.borrows \subseteq {"mounter"} \cup Link /\ Call.consumes = {}
    BY <1>4, Contracts DEF Uses, Function
  <2>2. KindsOf(defers) = {"mounter"} \cup Link
    BY <1>4, KindsOfShapes DEF HandleInv, DefersOf
  <2> QED BY <2>1, <2>2
<1>5. CASE step = "getChipID"
  <2>1. Call.borrows = {"lockdown"} /\ Call.consumes = {}
    BY <1>5, Contracts DEF Opens, Function
  <2>2. KindsOf(defers) = {"lockdown"} \cup Link
    BY <1>5, KindsOfShapes DEF HandleInv, DefersOf
  <2> QED BY <2>1, <2>2
<1>6. CASE step \in {"sendAck", "setAckMode", "script", "startNoAck", "attach", "detach"}
  <2>1. Call.borrows = {"proxy"} /\ Call.consumes = {}
    BY <1>6, Contracts DEF Uses, Function
  <2>2. KindsOf(defers) = {"proxy", "remote"} \cup Link
    BY <1>6, KindsOfShapes DEF HandleInv, DefersOf
  <2> QED BY <2>1, <2>2
<1>7. CASE step = "consume"
  BY <1>7, Contracts DEF Frees, Function, Loose
<1>8. CASE step = "leave" /\ defers # <<>>
  <2>1. defers \in Shapes
    BY <1>8 DEF HandleInv, Control, DefersOf, Shapes, Unwinding
  <2>2. Call = Frees(Head(defers)) /\ Head(defers) \in KindsOf(defers)
    BY <1>8, <2>1, ContractOfDefer, TailOfShapes
  <2> QED BY <2>2 DEF Frees, Function
<1>9. CASE step = "leave" /\ defers = <<>>
  <2>1. Call = Nothing
    BY <1>9 DEF Call
  <2> QED BY <2>1 DEF Nothing, Uses, Function
<1> QED BY <1>1, <1>2, <1>3, <1>4, <1>5, <1>6, <1>7, <1>8, <1>9 DEF HandleInv, Control, Steps

LEMMA LeaksFollow ==
  HandleInv => LeaksAreKnown
<1> SUFFICES ASSUME HandleInv, routine = "none" PROVE live = Leaks
  BY DEF LeaksAreKnown
<1>1. step = "idle" /\ defers = <<>>
  BY DEF HandleInv, Control, DefersOf
<1>2. KindsOf(defers) = {} /\ Loose = {}
  BY <1>1, KindsOfShapes DEF Loose
<1> QED BY <1>2 DEF HandleInv, Account, Handles

Clients == {"mounter", "lockdown", "proxy", "remote"}

LEMMA TunnelFollows ==
  HandleInv => TunnelOutlivesClients
<1> SUFFICES ASSUME HandleInv, NEW n \in 1 .. session, NEW k \in Clients,
                    <<k, n>> \in live, <<k, n>> \notin Leaks
             PROVE  Link \X {n} \subseteq live
  BY DEF TunnelOutlivesClients, Clients
<1>1. n = session /\ k \in KindsOf(defers) \cup Loose
  BY DEF HandleInv, Account, Handles
<1>2. Link \subseteq KindsOf(defers)
  <2>1. CASE k \in KindsOf(defers)
    <3>1. defers \in Shapes
      BY DEF HandleInv, Control, DefersOf, Shapes, Unwinding, Tunnel
    <3> QED BY <2>1, <3>1, KindsOfShapes DEF Shapes, Unwinding, Clients, Link
  <2>2. CASE k \in Loose
    <3>1. step = "connectProxy"
      BY <2>2 DEF Loose, Clients, Link
    <3> QED BY <3>1, KindsOfShapes DEF HandleInv, DefersOf
  <2> QED BY <1>1, <2>1, <2>2
<1> QED BY <1>1, <1>2 DEF HandleInv, Account, Handles

\* However many calls are made and fail, and whenever the process dies, no call of the
\* library is handed a handle that is freed or was never made.
THEOREM ArgumentsCorrect ==
  Spec => []ArgumentsAreLive
BY HandlesAccounted, ArgumentsFollow, PTL

\* What is left when a routine has returned is what the two known leaks left.
THEOREM LeaksCorrect ==
  Spec => []LeaksAreKnown
BY HandlesAccounted, LeaksFollow, PTL

\* The tunnel of a session is there for as long as a client of it is.
THEOREM TunnelCorrect ==
  Spec => []TunnelOutlivesClients
BY HandlesAccounted, TunnelFollows, PTL
=============================================================================
