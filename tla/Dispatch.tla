------------------------------ MODULE Dispatch ------------------------------
(***************************************************************************)
(* Who carries an operation and whether it will: _dispatch.py, the         *)
(* _reader_for and _writer_for of the two facades, and the refusals of the *)
(* readers and writers.  Nothing here asks the table of Capabilities: the  *)
(* two are written apart in the code, and FrontEnd compares them.          *)
(***************************************************************************)
EXTENDS Capabilities, FiniteSets

CONSTANT NONE           \* no backend is named

Facades == {"sync", "async"}

\* The operations that name their own backend; a pin and a name are ignored.
OwnBackend == [nsdp_device |-> "nsdp", upload_certificate |-> "http",
               upload_certificate_scp |-> "ssh"]

\* _BACKEND_PREFERENCE, as far as the registry needs it.
Default(m) == IF "snmp" \in MODELS[m].backends THEN "snmp" ELSE "nsdp"

\* resolve_backend: the name that is given, and nobody else.
Chosen(m, o, named) ==
    CASE o \in DOMAIN OwnBackend -> OwnBackend[o]
      [] o \notin DOMAIN OwnBackend -> IF named = NONE THEN Default(m) ELSE named

\* build_sync_cli_client: one transport for a model, whatever CLI was named.
CliTransport(m) ==
    IF MODELS[m].backends \cap {"ssh", "telnet"} = {"telnet"} THEN "telnet" ELSE "ssh"

Wire(m, b) == IF b \in CliBackends THEN CliTransport(m) ELSE b

-----------------------------------------------------------------------------
(***************************************************************************)
(* Refusals.                                                               *)
(***************************************************************************)
\* No reader or writer is built.
NotBuilt(facade, m, b, o) ==
    \/ b \notin MODELS[m].backends /\ o # "upload_certificate_scp"
    \/ b = "http" /\ o # "upload_certificate" /\ ~HTTP_SPECS[m].verified
    \/ b \in CliBackends /\ facade = "async"
    \/ b \in CliBackends /\ o \in ReadOps /\ ~CLI_SPECS[m].readsVerified
    \/ /\ b \in CliBackends /\ o \in WriteOps \ {"upload_certificate_scp"}
       /\ ~CLI_SPECS[m].writesVerified

NeverOverSnmp ==
    {"get_users", "get_services", "set_port_speed", "set_flow_control", "add_syslog_collector"}

\* Columns of the vendor subtree.
VendorOnly == {"get_syslog", "set_syslog_enabled", "remove_syslog_collector", "set_mgmt_ip"}

SnmpRefuses(m, o) ==
    \/ o \in NeverOverSnmp
    \/ o \in VendorOnly /\ ~MODELS[m].vendor
    \/ o \in PoeOps /\ MODELS[m].poe = 0
    \/ o = "create_vlan" /\ ~MODELS[m].creates

NsdpRefuses(o) ==
    o \in {"get_macs", "get_lldp", "get_sensors", "get_users", "get_services", "get_syslog",
           "set_port_enabled", "set_port_speed", "set_flow_control", "set_syslog_enabled",
           "add_syslog_collector", "remove_syslog_collector"} \cup PoeOps

\* Bug: a VLAN list is only read from a membership page.
VlansNeedMembers(ui) == "vlan_membership" \notin ui.pages

\* The XML interface lists the members along with the PVIDs.
NoVlans(ui) == ui.dialect # "GOAHEAD_XML" /\ "vlan_membership" \notin ui.pages

HttpReaderRefuses(ui, o) ==
    CASE o = "get_vlans" -> NoVlans(ui)
      [] o = "get_sensors" ->
             \/ ui.dialect \notin {"M4300", "XE_FASTPATH", "GOAHEAD_XML"}
             \/ "sysinfo" \notin ui.pages
      [] o = "get_hostname" ->
             ui.dialect \notin {"GS110EMX", "GS105PE", "GOAHEAD_XML"}
      [] o = "get_mgmt_ip"  -> {"mgmt_ip", "sysinfo"} \cap ui.pages = {}
      [] o = "get_services" -> ~(Services \subseteq ui.pages)
      [] OTHER -> SimplePage(o) \notin ui.pages

HttpWriterRefuses(ui, o) ==
    CASE o \in {"set_poe", "cycle_poe", "clear_poe_fault"} ->
             ~IsXmlApi(ui) /\ "poe_config" \notin ui.pages
      [] o \in {"create_vlan", "delete_vlan"} -> ~IsXmlApi(ui) /\ ~HasCsrfHash(ui)
      [] o = "set_port_enabled"   -> ~IsXmlApi(ui) /\ "port_config" \notin ui.pages
      [] o = "set_vlan_membership" -> ~IsXmlApi(ui) /\ "vlan_membership" \notin ui.pages
      [] o = "set_pvid"           -> "pvid" \notin ui.pages
      [] o = "set_mgmt_ip"        -> "mgmt_ip_fields" \notin ui.pages
      [] o = "set_hostname"       -> ui.dialect # "GS110EMX" /\ ~IsXmlApi(ui)
      [] o \in {"set_port_description", "set_port_speed"} -> ~IsXmlApi(ui)
      [] o = "remove_syslog_collector" -> ui.dialect # "M4300"
      [] o = "upload_certificate" -> "cert_upload" \notin ui.pages
      [] OTHER -> TRUE

\* The writes that scrape the hash of the page they post to.
Scrapes(ui, o) ==
    /\ ~IsXmlApi(ui)
    /\ \/ o \in {"set_pvid", "create_vlan", "delete_vlan"}
       \/ /\ o \in {"set_vlan_membership", "set_poe", "cycle_poe", "clear_poe_fault"}
          /\ ~IsFastpath(ui)

CliRefuses(m, o) ==
    \/ o \in PoeOps /\ MODELS[m].poe = 0
    \/ o = "upload_certificate_scp" /\ m \notin ScpProfiles

\* What the asynchronous readers and writers have no code for.
TwinLacks(b) ==
    CASE b = "http" -> {"get_hostname", "set_hostname", "remove_syslog_collector"}
      [] b = "nsdp" -> {"set_hostname"}
      [] OTHER      -> {}

\* The reader or writer is there, and raises before it asks the switch.
Refuses(facade, m, b, o) ==
    \/ facade = "async" /\ o \in TwinLacks(b)
    \/ b = "snmp" /\ SnmpRefuses(m, o)
    \/ b = "nsdp" /\ NsdpRefuses(o)
    \/ b = "http" /\ o \in ReadOps /\ HttpReaderRefuses(HTTP_SPECS[m], o)
    \/ b = "http" /\ o \in WriteOps /\ HttpWriterRefuses(HTTP_SPECS[m], o)
    \/ b \in CliBackends /\ CliRefuses(m, o)

\* What raises ProtectedPortError without force whatever the ports are, and
\* whether it looks at the capability first.
NeedsForce(b, o) ==
    \/ o = "set_mgmt_ip"
    \/ o = "upload_certificate"
    \/ o = "delete_vlan" /\ b = "nsdp"

ForceFirst(b, o) == NeedsForce(b, o) /\ b # "http"

-----------------------------------------------------------------------------
(***************************************************************************)
(* The answer to a call before anything is sent, in the order of the code: *)
(* what is looked at before a reader or writer is built, and what it says  *)
(* itself.  "go" means that it now asks the switch.                        *)
(***************************************************************************)
Barred(facade, m, b, o) ==
    CASE o = "get_macs" /\ ~HasMacTable(m) -> "unsupported"
      [] o = "upload_certificate" /\ m \in KnownUnimplemented -> "not_implemented"
      [] NotBuilt(facade, m, b, o) -> "unsupported"
      [] OTHER -> "go"

Declined(facade, m, b, o, force) ==
    CASE ForceFirst(b, o) /\ ~force -> "protected"
      [] Refuses(facade, m, b, o) -> "unsupported"
      [] NeedsForce(b, o) /\ ~force -> "protected"
      [] OTHER -> "go"
=============================================================================
