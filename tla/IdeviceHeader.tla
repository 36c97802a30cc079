---------------------------- MODULE IdeviceHeader ----------------------------
(***************************************************************************)
(* The handle contract of the vendored idevice library, of every function  *)
(* its header declares before the part taken from libplist, read off the   *)
(* prototype and the comment above it.  An argument that is a handle is    *)
(* borrowed, unless the comment says that it is consumed or may not be     *)
(* used again, or the function frees it; an out parameter is made.  Plists *)
(* that may be NULL are not asked for.  rsd_handshake_clone is left out:   *)
(* there is one handle of a kind here.                                     *)
(***************************************************************************)
EXTENDS Idevice

All(names, contract) == [f \in names |-> contract]
Turns(taken, made)   == Function({}, {taken}, {made})

-----------------------------------------------------------------------------
connections ==
  {[idevice_new |-> Opens({"socket"}, "device"),
    idevice_get_type |-> Opens({"device"}, "string"), idevice_rsd_checkin |-> Uses({"device"}),
    idevice_start_session |-> Uses({"device", "pairRecord"}), idevice_free |-> Frees("device"),
    idevice_stream_free |-> Frees("stream")],
   All({"idevice_from_fd", "idevice_new_tcp_socket"}, Opens({}, "device"))}

memory ==
  {[idevice_string_free |-> idevice_string_free, idevice_data_free |-> idevice_data_free,
    idevice_plist_array_free |-> Frees("data"), idevice_outer_slice_free |-> Frees("slice")]}

adapters ==
  {[adapter_connect |-> Opens({"adapter"}, "stream")],
   All({"adapter_pcap", "adapter_close"}, Uses({"adapter"})),
   All({"adapter_stream_close", "adapter_send", "adapter_recv"}, Uses({"adapterStream"}))}

afcClients ==
  {[afc_client_connect_rsd |-> Opens(Link, "afc"), afc_client_new |-> Opens({"device"}, "afc"),
    afc_client_free |-> Frees("afc")],
   All({"afc_client_connect", "afc2_client_connect"}, Opens({"provider"}, "afc"))}

afcPaths ==
  {[afc_list_directory |-> Opens({"afc"}, "entries"),
    afc_get_file_info |-> Opens({"afc"}, "fileInfo"), afc_file_info_free |-> Frees("fileInfo"),
    afc_get_device_info |-> Opens({"afc"}, "deviceInfo"),
    afc_device_info_free |-> Frees("deviceInfo")],
   All({"afc_make_directory", "afc_remove_path", "afc_remove_path_and_contents"},
          Uses({"afc"}))}

afcFiles ==
  {[afc_file_open |-> Opens({"afc"}, "file"), afc_file_close |-> Frees("file"),
    afc_file_read_data_free |-> Frees("fileData")],
   All({"afc_file_read", "afc_file_read_entire"}, Opens({"file"}, "fileData")),
   All({"afc_file_seek", "afc_file_tell", "afc_file_write"}, Uses({"file"})),
   All({"afc_make_link", "afc_rename_path"}, Uses({"afc"}))}

amfi ==
  {[amfi_connect |-> Opens({"provider"}, "amfi"), amfi_connect_rsd |-> Opens(Link, "amfi"),
    amfi_new |-> Turns("device", "amfi"), amfi_client_free |-> Frees("amfi")],
   All({"amfi_reveal_developer_mode_option_in_ui", "amfi_enable_developer_mode",
          "amfi_accept_developer_mode"}, Uses({"amfi"}))}

bluetoothLogs ==
  {[bt_packet_logger_connect |-> Opens({"provider"}, "btLogger"),
    bt_packet_logger_connect_rsd |-> Opens(Link, "btLogger"),
    bt_packet_logger_new |-> Turns("device", "btLogger"),
    bt_packet_logger_next_packet |-> Opens({"btLogger"}, "btPacket"),
    bt_packet_free |-> Frees("btPacket"), bt_packet_logger_client_free |-> Frees("btLogger")]}

companionProxy ==
  {[companion_proxy_connect |-> Opens({"provider"}, "companion"),
    companion_proxy_connect_rsd |-> Opens(Link, "companion"),
    companion_proxy_new |-> Turns("device", "companion"),
    companion_proxy_get_device_registry |-> Function({"companion"}, {}, {"string", "slice"}),
    companion_proxy_client_free |-> Frees("companion")],
   All({"companion_proxy_start_forwarding_service_port",
          "companion_proxy_stop_forwarding_service_port"}, Uses({"companion"}))}

appService ==
  {[app_service_connect_rsd |-> Opens(Link, "apps"),
    app_service_new |-> Opens({"stream"}, "apps"), app_service_free |-> Frees("apps"),
    app_service_list_apps |-> Opens({"apps"}, "appList"),
    app_service_free_app_list |-> Frees("appList"),
    app_service_launch_app |-> Opens({"apps"}, "launched"),
    app_service_free_launch_response |-> Frees("launched")]}

appProcesses ==
  {[app_service_list_processes |-> Opens({"apps"}, "tokens"),
    app_service_free_process_list |-> Frees("tokens"),
    app_service_uninstall_app |-> Uses({"apps"}),
    app_service_send_signal |-> Opens({"apps"}, "signalled"),
    app_service_free_signal_response |-> Frees("signalled"),
    app_service_fetch_app_icon |-> Opens({"apps"}, "icon"),
    app_service_free_icon_data |-> Frees("icon")]}

diagnosticsService ==
  {[diagnostics_service_connect_rsd |-> Opens(Link, "diagnostics"),
    diagnostics_service_new |-> Opens({"stream"}, "diagnostics"),
    diagnostics_service_capture_sysdiagnose |-> Function({"diagnostics"}, {}, {"string", "sysdiagnose"}),
    sysdiagnose_stream_next |-> Opens({"sysdiagnose"}, "data"),
    diagnostics_service_free |-> Frees("diagnostics"),
    sysdiagnose_stream_free |-> Frees("sysdiagnose")]}

coreDeviceProxy ==
  {[core_device_proxy_connect |-> Opens({"provider"}, "coreDevice"),
    core_device_proxy_new |-> Turns("device", "coreDevice"),
    core_device_proxy_create_tcp_adapter |-> Turns("coreDevice", "adapter"),
    core_device_proxy_free |-> Frees("coreDevice"), adapter_free |-> adapter_free],
   All({"core_device_proxy_send", "core_device_proxy_recv",
          "core_device_proxy_get_server_rsd_port"}, Uses({"coreDevice"})),
   All({"core_device_proxy_get_client_parameters", "core_device_proxy_get_server_address"},
          Opens({"coreDevice"}, "string"))}

crashReports ==
  {[crash_report_client_connect |-> Opens({"provider"}, "crashReports"),
    crash_report_client_connect_rsd |-> Opens(Link, "crashReports"),
    crash_report_client_new |-> Opens({"device"}, "crashReports"),
    crash_report_client_ls |-> Opens({"crashReports"}, "entries"),
    crash_report_client_pull |-> Opens({"crashReports"}, "data"),
    crash_report_client_remove |-> Uses({"crashReports"}),
    crash_report_client_to_afc |-> Turns("crashReports", "afc"),
    crash_report_flush |-> Uses({"provider"}),
    crash_report_client_free |-> Frees("crashReports")]}

debugProxy ==
  {[debugserver_command_new |-> debugserver_command_new,
    debugserver_command_free |-> debugserver_command_free,
    debug_proxy_connect_rsd |-> debug_proxy_connect_rsd,
    debug_proxy_new |-> Opens({"stream"}, "proxy"), debug_proxy_free |-> debug_proxy_free]}

debugCommands ==
  {[debug_proxy_send_command |-> debug_proxy_send_command,
    debug_proxy_send_ack |-> debug_proxy_send_ack,
    debug_proxy_set_ack_mode |-> debug_proxy_set_ack_mode],
   All({"debug_proxy_read_response", "debug_proxy_read", "debug_proxy_set_argv"},
          Opens({"proxy"}, "string")),
   All({"debug_proxy_send_raw", "debug_proxy_send_nack"}, Uses({"proxy"}))}

relayQueries ==
  {[diagnostics_relay_client_connect |-> Opens({"provider"}, "relay"),
    diagnostics_relay_client_connect_rsd |-> Opens(Link, "relay"),
    diagnostics_relay_client_new |-> Turns("device", "relay")],
   All({"diagnostics_relay_client_ioregistry", "diagnostics_relay_client_mobilegestalt",
          "diagnostics_relay_client_gasguage", "diagnostics_relay_client_nand",
          "diagnostics_relay_client_all"}, Opens({"relay"}, "plist"))}

relayControl ==
  {[diagnostics_relay_client_wifi |-> Opens({"relay"}, "plist"),
    diagnostics_relay_client_free |-> Frees("relay")],
   All({"diagnostics_relay_client_restart", "diagnostics_relay_client_shutdown",
          "diagnostics_relay_client_sleep", "diagnostics_relay_client_goodbye"},
          Uses({"relay"}))}

instruments ==
  {[location_simulation_new |-> Opens({"remote"}, "location"),
    location_simulation_free |-> Frees("location"),
    process_control_new |-> Opens({"remote"}, "processes"),
    process_control_free |-> Frees("processes")],
   All({"location_simulation_clear", "location_simulation_set"}, Uses({"location"})),
   All({"process_control_launch_app", "process_control_kill_app",
          "process_control_disable_memory_limit"}, Uses({"processes"}))}

remoteServer ==
  {[remote_server_new |-> Turns("stream", "remote"),
    remote_server_connect_rsd |-> remote_server_connect_rsd,
    remote_server_free |-> remote_server_free,
    screenshot_client_new |-> Opens({"remote"}, "screenshots"),
    screenshot_client_free |-> Frees("screenshots"),
    screenshot_client_take_screenshot |-> Opens({"screenshots"}, "data"),
    idevice_error_free |-> idevice_error_free]}

heartbeat ==
  {[heartbeat_connect |-> Opens({"provider"}, "heartbeat"),
    heartbeat_connect_rsd |-> Opens(Link, "heartbeat"),
    heartbeat_new |-> Turns("device", "heartbeat"), heartbeat_client_free |-> Frees("heartbeat")],
   All({"heartbeat_send_polo", "heartbeat_get_marco"}, Uses({"heartbeat"}))}

houseArrest ==
  {[house_arrest_client_connect |-> Opens({"provider"}, "houseArrest"),
    house_arrest_client_connect_rsd |-> Opens(Link, "houseArrest"),
    house_arrest_client_new |-> Opens({"device"}, "houseArrest"),
    house_arrest_client_free |-> Frees("houseArrest")],
   All({"house_arrest_vend_container", "house_arrest_vend_documents"},
          Opens({"houseArrest"}, "afc"))}

installation ==
  {[installation_proxy_connect |-> Opens({"provider"}, "installation"),
    installation_proxy_connect_rsd |-> Opens(Link, "installation"),
    installation_proxy_new |-> Turns("device", "installation"),
    installation_proxy_get_apps |-> Opens({"installation"}, "data"),
    installation_proxy_client_free |-> Frees("installation")],
   All({"installation_proxy_install", "installation_proxy_install_with_callback"},
          Uses({"installation"}))}

upgrades ==
  {[installation_proxy_browse |-> Opens({"installation"}, "data")],
   All({"installation_proxy_upgrade", "installation_proxy_upgrade_with_callback",
          "installation_proxy_uninstall", "installation_proxy_uninstall_with_callback",
          "installation_proxy_check_capabilities_match"}, Uses({"installation"}))}

installCoordination ==
  {[installcoordination_proxy_new |-> Turns("stream", "coordination"),
    installcoordination_proxy_connect_rsd |-> Opens(Link, "coordination"),
    installcoordination_proxy_uninstall_app |-> Uses({"coordination"}),
    installcoordination_proxy_query_app_path |-> Opens({"coordination"}, "string"),
    installcoordination_proxy_client_free |-> Frees("coordination")]}

locationService ==
  {[lockdown_location_simulation_connect |-> Opens({"provider"}, "lockdownLocation"),
    lockdown_location_simulation_new |-> Turns("device", "lockdownLocation"),
    lockdown_location_simulation_free |-> Frees("lockdownLocation")],
   All({"lockdown_location_simulation_set", "lockdown_location_simulation_clear"},
          Uses({"lockdownLocation"}))}

lockdownd ==
  {[lockdownd_connect |-> Opens({"provider"}, "lockdown"),
    lockdownd_connect_rsd |-> lockdownd_connect_rsd,
    lockdownd_new |-> Turns("device", "lockdown"),
    lockdownd_start_session |-> Uses({"lockdown", "pairRecord"}),
    lockdownd_pair |-> Opens({"lockdown"}, "pairRecord"),
    lockdownd_get_value |-> lockdownd_get_value,
    lockdownd_set_value |-> Uses({"lockdown", "plist"}),
    lockdownd_client_free |-> lockdownd_client_free, idevice_init_logger |-> Nothing],
   All({"lockdownd_start_service", "lockdownd_enter_recovery"}, Uses({"lockdown"}))}

misagent ==
  {[misagent_connect |-> Opens({"provider"}, "misagent"),
    misagent_connect_rsd |-> Opens(Link, "misagent"),
    misagent_copy_all |-> Opens({"misagent"}, "profiles"),
    misagent_free_profiles |-> Frees("profiles"), misagent_client_free |-> Frees("misagent")],
   All({"misagent_install", "misagent_remove"}, Uses({"misagent"}))}

imageMounter ==
  {[image_mounter_connect |-> Opens({"provider"}, "mounter"),
    image_mounter_connect_rsd |-> image_mounter_connect_rsd,
    image_mounter_new |-> Opens({"device"}, "mounter"),
    image_mounter_free |-> image_mounter_free,
    image_mounter_copy_devices |-> image_mounter_copy_devices,
    image_mounter_lookup_image |-> Opens({"mounter"}, "data")]}

images ==
  {All({"image_mounter_upload_image", "image_mounter_mount_image",
          "image_mounter_unmount_image", "image_mounter_query_developer_mode_status",
          "image_mounter_mount_developer"}, Uses({"mounter"}))}

imageQueries ==
  {[image_mounter_query_personalization_identifiers |-> Opens({"mounter"}, "plist")],
   All({"image_mounter_query_personalization_manifest", "image_mounter_query_nonce"},
          Opens({"mounter"}, "data")),
   All({"image_mounter_roll_personalization_nonce", "image_mounter_roll_cryptex_nonce"},
          Uses({"mounter"}))}

personalizedImages ==
  {[image_mounter_mount_personalized_rsd |-> Uses({"mounter"} \cup Link),
    image_mounter_mount_personalized_with_callback_rsd |->
      image_mounter_mount_personalized_with_callback_rsd],
   All({"image_mounter_mount_personalized", "image_mounter_mount_personalized_with_callback"},
          Uses({"mounter", "provider"}))}

activation ==
  {[mobileactivationd_connect |-> Opens({"provider"}, "activation"),
    mobileactivationd_get_state |-> Opens({"activation"}, "string"),
    mobileactivationd_client_free |-> Frees("activation")],
   All({"mobileactivationd_is_activated", "mobileactivationd_deactivate"},
          Uses({"activation"}))}

backups ==
  {[mobilebackup2_connect |-> Opens({"provider"}, "backup"),
    mobilebackup2_connect_rsd |-> Opens(Link, "backup"),
    mobilebackup2_new |-> Turns("device", "backup"),
    mobilebackup2_client_free |-> Frees("backup")],
   All({"mobilebackup2_backup", "mobilebackup2_restore"}, Opens({"backup"}, "plist")),
   All({"mobilebackup2_change_password", "mobilebackup2_disconnect"}, Uses({"backup"}))}

notificationProxy ==
  {[notification_proxy_connect |-> Opens({"provider"}, "notifications"),
    notification_proxy_connect_rsd |-> Opens(Link, "notifications"),
    notification_proxy_new |-> Turns("device", "notifications"),
    notification_proxy_free_string |-> Frees("notification"),
    notification_proxy_client_free |-> Frees("notifications")],
   All({"notification_proxy_post", "notification_proxy_observe",
          "notification_proxy_observe_multiple"}, Uses({"notifications"})),
   All({"notification_proxy_receive", "notification_proxy_receive_with_timeout"},
          Opens({"notifications"}, "notification"))}

traces ==
  {[os_trace_relay_connect |-> Opens({"provider"}, "trace"),
    os_trace_relay_connect_rsd |-> Opens(Link, "trace"), os_trace_relay_free |-> Frees("trace"),
    os_trace_relay_start_trace |-> Turns("trace", "receiver"),
    os_trace_relay_receiver_free |-> Frees("receiver"),
    os_trace_relay_get_pid_list |-> Opens({"trace"}, "pids"),
    os_trace_relay_next |-> Opens({"receiver"}, "log"), os_trace_relay_free_log |-> Frees("log")]}

pairRecords ==
  {[idevice_pairing_file_serialize |-> Opens({"pairRecord"}, "data"),
    idevice_pairing_file_free |-> Frees("pairRecord")],
   All({"idevice_pairing_file_read", "idevice_pairing_file_from_bytes"},
          Opens({}, "pairRecord"))}

pcapd ==
  {[pcapd_connect |-> Opens({"provider"}, "pcapd"), pcapd_connect_rsd |-> Opens(Link, "pcapd"),
    pcapd_new |-> Turns("device", "pcapd"), pcapd_next_packet |-> Opens({"pcapd"}, "packet"),
    pcapd_device_packet_free |-> Frees("packet"), pcapd_client_free |-> Frees("pcapd")]}

preboard ==
  {[preboard_service_connect |-> Opens({"provider"}, "preboard"),
    preboard_service_connect_rsd |-> Opens(Link, "preboard"),
    preboard_service_new |-> Turns("device", "preboard"),
    preboard_service_client_free |-> Frees("preboard")],
   All({"preboard_service_create_stashbag", "preboard_service_commit_stashbag"},
          Uses({"preboard"}))}

providers ==
  {[idevice_tcp_provider_new |-> Turns("pairRecord", "provider"),
    idevice_provider_free |-> Frees("provider"),
    usbmuxd_provider_new |-> Turns("muxAddress", "provider"),
    idevice_provider_get_pairing_file |-> Opens({"provider"}, "pairRecord")]}

restoreService ==
  {[restore_service_new |-> Turns("stream", "restore"),
    restore_service_connect_rsd |-> Opens(Link, "restore"),
    restore_service_client_free |-> Frees("restore")],
   All({"restore_service_enter_recovery", "restore_service_reboot",
          "restore_service_restore_lang"}, Uses({"restore"})),
   All({"restore_service_get_preflightinfo", "restore_service_get_nonces",
          "restore_service_get_app_parameters"}, Opens({"restore"}, "plist"))}

rpPairing ==
  {[rp_pairing_file_read |-> rp_pairing_file_read,
    rp_pairing_file_to_bytes |-> Opens({"pairing"}, "data"),
    rp_pairing_file_write |-> Uses({"pairing"}), rp_pairing_file_free |-> rp_pairing_file_free],
   All({"rp_pairing_file_generate", "rp_pairing_file_from_bytes"}, Opens({}, "pairing"))}

rsd ==
  {[rsd_handshake_new |-> Turns("stream", "handshake"),
    rsd_get_uuid |-> Opens({"handshake"}, "rsdString"),
    rsd_get_services |-> Opens({"handshake"}, "services"),
    rsd_get_service_info |-> Opens({"handshake"}, "service"),
    rsd_free_string |-> Frees("rsdString"), rsd_free_service |-> Frees("service"),
    rsd_free_services |-> Frees("services"), rsd_handshake_free |-> rsd_handshake_free],
   All({"rsd_get_protocol_version", "rsd_service_available"}, Uses({"handshake"}))}

screenshotr ==
  {[screenshotr_connect |-> Opens({"provider"}, "screenshotr"),
    screenshotr_connect_rsd |-> Opens(Link, "screenshotr"),
    screenshotr_take_screenshot |-> Opens({"screenshotr"}, "image"),
    screenshotr_screenshot_free |-> Frees("image"),
    screenshotr_client_free |-> Frees("screenshotr")]}

springboard ==
  {[springboard_services_connect |-> Opens({"provider"}, "springboard"),
    springboard_services_connect_rsd |-> Opens(Link, "springboard"),
    springboard_services_new |-> Turns("device", "springboard"),
    springboard_services_get_interface_orientation |-> Uses({"springboard"}),
    springboard_services_get_homescreen_icon_metrics |-> Opens({"springboard"}, "plist"),
    springboard_services_free |-> Frees("springboard")],
   All({"springboard_services_get_icon",
          "springboard_services_get_home_screen_wallpaper_preview",
          "springboard_services_get_lock_screen_wallpaper_preview"},
          Opens({"springboard"}, "data"))}

syslog ==
  {[syslog_relay_connect_tcp |-> Opens({"provider"}, "syslog"),
    syslog_relay_connect_rsd |-> Opens(Link, "syslog"),
    syslog_relay_client_free |-> Frees("syslog"),
    syslog_relay_next |-> Opens({"syslog"}, "string")]}

tunnels ==
  {[idevice_tcp_stack_into_sync_objects |-> Function({}, {}, {"feed", "eat", "adapter"}),
    idevice_tcp_feed_object_write |-> Uses({"feed"}),
    idevice_tcp_eat_object_read |-> Opens({"eat"}, "data"),
    idevice_free_tcp_feed_object |-> Frees("feed"), idevice_free_tcp_eat_object |-> Frees("eat"),
    tunnel_create_usb |-> Function({"provider"}, {}, Link),
    tunnel_pair_usb |-> Opens({"provider"}, "pairing"),
    tunnel_create_remotexpc |-> Function({"pairing"}, {}, Link),
    tunnel_create_rppairing |-> tunnel_create_rppairing]}

usbmuxd ==
  {[idevice_usbmuxd_get_devices |-> Opens({"mux"}, "muxDevices"),
    idevice_usbmuxd_connect_to_device |-> Turns("mux", "device"),
    idevice_usbmuxd_get_pair_record |-> Opens({"mux"}, "pairRecord"),
    idevice_usbmuxd_save_pair_record |-> Uses({"mux"})],
   All({"idevice_usbmuxd_new_tcp_connection", "idevice_usbmuxd_new_unix_socket_connection",
          "idevice_usbmuxd_new_default_connection"}, Opens({}, "mux"))}

usbmuxdEvents ==
  {[idevice_usbmuxd_listen |-> Opens({"mux"}, "listener"),
    idevice_usbmuxd_listener_handle_free |-> Frees("listener"),
    idevice_usbmuxd_listener_next |-> Opens({"listener"}, "muxDevice"),
    idevice_usbmuxd_get_buid |-> Opens({"mux"}, "string"),
    idevice_usbmuxd_connection_free |-> Frees("mux")]}

usbmuxdDevices ==
  {[idevice_usbmuxd_addr_free |-> Frees("muxAddress"),
    idevice_usbmuxd_device_list_free |-> Frees("muxDevices"),
    idevice_usbmuxd_device_free |-> Frees("muxDevice"),
    idevice_usbmuxd_device_get_udid |-> Opens({"muxDevice"}, "string")],
   All({"idevice_usbmuxd_tcp_addr_new", "idevice_usbmuxd_unix_addr_new",
          "idevice_usbmuxd_default_addr_new"}, Opens({}, "muxAddress")),
   All({"idevice_usbmuxd_device_get_device_id", "idevice_usbmuxd_device_get_connection_type"},
          Uses({"muxDevice"}))}

\* plist_free, which the header takes from libplist.
plists == {[plist_free |-> plist_free]}

-----------------------------------------------------------------------------
\* No function is in two of the tables.
Tables == UNION {
  plists, connections, memory, adapters, afcClients, afcPaths, afcFiles, amfi,
  bluetoothLogs, companionProxy, appService, appProcesses, diagnosticsService,
  coreDeviceProxy, crashReports, debugProxy, debugCommands, relayQueries,
  relayControl, instruments, remoteServer, heartbeat, houseArrest, installation,
  upgrades, installCoordination, locationService, lockdownd, misagent, imageMounter,
  images, imageQueries, personalizedImages, activation, backups, notificationProxy,
  traces, pairRecords, pcapd, preboard, providers, restoreService, rpPairing, rsd,
  screenshotr, springboard, syslog, tunnels, usbmuxd, usbmuxdEvents, usbmuxdDevices}

Functions ==
  [name \in UNION {DOMAIN table : table \in Tables} |->
     (CHOOSE table \in Tables : name \in DOMAIN table)[name]]

Needed == UNION {Functions[f].borrows \cup Functions[f].consumes : f \in DOMAIN Functions}
Made   == UNION {Functions[f].makes : f \in DOMAIN Functions}
Freed  == UNION {Functions[f].consumes : f \in DOMAIN Functions}

HandleKinds == Needed \cup Made

\* What the header declares and no program gets to use: it hands out no socket for
\* idevice_new and no AdapterStreamHandle (an error is made by a call that fails).
\* And what it hands out and cannot free: lists of paths (afc_free_directory_entries,
\* idevice.h:2034, is not declared) and of process numbers.
Unfreed == {"entries", "pids"}
ASSUME HeaderAssumption ==
  Needed \ Made = {"socket", "adapterStream", "error"} /\ Made \ Freed = Unfreed
=============================================================================
