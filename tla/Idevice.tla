------------------------------ MODULE Idevice -------------------------------
(***************************************************************************)
(* What the header of the vendored idevice library says of the functions   *)
(* that StikJIT calls: which handles a call needs (borrows), which it      *)
(* takes from its caller (consumes; a free consumes what it frees) and     *)
(* which it hands out when it succeeds (makes).  Every function carries    *)
(* the name it has in C.  A call that fails makes an error object instead. *)
(***************************************************************************)
EXTENDS Sequences

Kinds == {"pairing", "adapter", "handshake", "remote", "proxy", "mounter",
          "lockdown", "plist", "data", "command", "string", "error"}

Function(borrows, consumes, makes) ==
  [borrows |-> borrows, consumes |-> consumes, makes |-> makes]
Opens(borrows, made) == Function(borrows, {}, {made})
Uses(borrows)        == Function(borrows, {}, {})
Frees(kind)          == Function({}, {kind}, {})
Nothing              == Uses({})

\* The contract of calling f and, when it succeeded, g.
Then(f, g) ==
  Function(f.borrows \cup (g.borrows \ f.makes),
           f.consumes \cup (g.consumes \ f.makes),
           (f.makes \ g.consumes) \cup g.makes)

Link == {"adapter", "handshake"}      \* what a tunnel consists of

-----------------------------------------------------------------------------
(* The tunnel. *)
rp_pairing_file_read == Opens({}, "pairing")
rp_pairing_file_free == Frees("pairing")
\* pairing_file is borrowed, not consumed
tunnel_create_rppairingTaking == Function({}, {"pairing"}, Link)   \* mistaken: consumes it
tunnel_create_rppairing == Function({"pairing"}, {}, Link)
adapter_free       == Frees("adapter")
rsd_handshake_free == Frees("handshake")

(* The debug service. *)
remote_server_connect_rsd == Opens(Link, "remote")
remote_server_free        == Frees("remote")
debug_proxy_connect_rsd   == Opens(Link, "proxy")
debug_proxy_free          == Frees("proxy")
debug_proxy_send_ack      == Uses({"proxy"})
debug_proxy_set_ack_mode  == Uses({"proxy"})
debugserver_command_new   == Opens({}, "command")
debugserver_command_free  == Frees("command")
debug_proxy_send_command  == Opens({"proxy", "command"}, "string")

(* The image mounter and lockdownd. *)
image_mounter_connect_rsd  == Opens(Link, "mounter")
image_mounter_free         == Frees("mounter")
image_mounter_copy_devices == Opens({"mounter"}, "data")
image_mounter_mount_personalized_with_callback_rsd == Uses({"mounter"} \cup Link)
lockdownd_connect_rsd      == Opens(Link, "lockdown")
lockdownd_get_value        == Opens({"lockdown"}, "plist")
lockdownd_client_free      == Frees("lockdown")
plist_get_uint_val         == Uses({"plist"})
plist_free                 == Frees("plist")

(* What calls leave behind. *)
idevice_string_free == Frees("string")
idevice_data_free   == Frees("data")
idevice_error_free  == Frees("error")
=============================================================================
