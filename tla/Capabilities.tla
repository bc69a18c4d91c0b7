---------------------------- MODULE Capabilities ----------------------------
(***************************************************************************)
(* capabilities.py: what each model is said to do over each backend.  The  *)
(* tables of the documentation are generated from it, and a caller may ask *)
(* it before a call.  What the readers and writers do is in Dispatch.      *)
(***************************************************************************)
EXTENDS Registry

ReadOps ==
    {"get_ports", "get_stats", "get_vlans", "get_pvids", "get_lldp", "get_macs", "get_poe",
     "get_sensors", "get_mgmt_ip", "get_hostname", "get_users", "get_services",
     "get_syslog", "nsdp_device"}

WriteOps ==
    {"set_port_enabled", "set_poe", "cycle_poe", "clear_poe_fault", "set_port_description",
     "set_port_speed", "set_flow_control", "set_pvid", "set_vlan_membership",
     "create_vlan", "delete_vlan", "set_mgmt_ip", "set_hostname", "set_syslog_enabled",
     "add_syslog_collector", "remove_syslog_collector", "upload_certificate",
     "upload_certificate_scp"}

Op == ReadOps \cup WriteOps

\* Operation.backends of the reads: who can ever answer.
ReadBackends(o) ==
    CASE o \in {"get_users", "get_services"} -> {"http"} \cup CliBackends
      [] o = "get_syslog"                    -> {"snmp", "http"} \cup CliBackends
      [] o = "nsdp_device"                   -> {"nsdp"}
      [] OTHER                               -> Backend

\* Operation.backends of the writes.
WriteBackends(o) ==
    CASE o = "set_port_speed"           -> {"http"} \cup CliBackends
      [] o \in {"set_flow_control", "add_syslog_collector", "upload_certificate_scp"}
                                        -> CliBackends
      [] o = "set_hostname"             -> Backend
      [] o = "set_syslog_enabled"       -> {"snmp"} \cup CliBackends
      [] o = "remove_syslog_collector"  -> {"snmp", "http"} \cup CliBackends
      [] o = "upload_certificate"       -> {"http"}
      [] OTHER                          -> Backend

OpBackends(o) == IF o \in ReadOps THEN ReadBackends(o) ELSE WriteBackends(o)

PoeOps == {"get_poe", "set_poe", "cycle_poe", "clear_poe_fault"}
NoPse(m, o) == o \in PoeOps /\ MODELS[m].poe = 0

Verdict(served) == IF served THEN "supported" ELSE "unsupported"

SnmpServes(m, o) ==
    /\ ~NoPse(m, o)
    /\ o \in {"set_mgmt_ip", "get_syslog", "set_syslog_enabled", "remove_syslog_collector"}
         => MODELS[m].vendor
    /\ o = "create_vlan" => MODELS[m].creates
    /\ o = "get_macs" => HasMacTable(m)

NsdpRefusals ==
    {"get_macs", "get_lldp", "get_sensors", "set_port_enabled"} \cup PoeOps

-----------------------------------------------------------------------------
(***************************************************************************)
(* The web interface.                                                      *)
(***************************************************************************)
XmlApiWrites ==
    {"set_vlan_membership", "set_port_enabled", "set_poe", "set_pvid", "create_vlan",
     "delete_vlan", "cycle_poe", "clear_poe_fault", "set_port_description",
     "set_hostname", "set_port_speed"}

\* _CSRF_HTTP_WRITES: the writes that are said to need the hash of a page.
CsrfWrites == {"create_vlan", "delete_vlan"}

\* Where it is the table alone that knows the page of an operation.
SimplePage(o) ==
    CASE o = "get_ports"                                     -> "dashboard"
      [] o = "get_stats"                                     -> "stats"
      [] o = "get_poe"                                       -> "poe_status"
      [] o \in {"get_pvids", "set_pvid"}                     -> "pvid"
      [] o \in {"get_vlans", "create_vlan", "delete_vlan"}   -> "vlan_config"
      [] o = "get_macs"                                      -> "mac_table"
      [] o = "get_lldp"                                      -> "lldp"
      [] o \in {"get_syslog", "remove_syslog_collector"}     -> "syslog"
      [] o = "get_users"                                     -> "users"
      [] o \in {"set_poe", "cycle_poe", "clear_poe_fault"}   -> "poe_config"
      [] o = "set_vlan_membership"                           -> "vlan_membership"
      [] o = "set_port_enabled"                              -> "port_config"
      [] o \in {"get_sensors", "get_hostname", "set_hostname"} -> "sysinfo"
      [] o = "set_mgmt_ip"                                   -> "mgmt_ip_fields"
      [] o = "upload_certificate"                            -> "cert_upload"

\* The operations that only some dialects have a form or a field for.
DialectHas(ui, o) ==
    CASE o = "get_sensors" ->
             ui.dialect \in {"M4300", "XE_FASTPATH", "GOAHEAD_XML"}
      [] o = "get_hostname" ->
             ui.dialect \in {"GS110EMX", "GS105PE", "GOAHEAD_XML"}
      [] o = "set_hostname" -> ui.dialect = "GS110EMX"
      [] o = "remove_syslog_collector" -> ui.dialect = "M4300"
      [] o \in {"set_port_description", "set_port_speed", "set_flow_control",
                "add_syslog_collector"} -> FALSE
      [] OTHER -> TRUE

\* _http_path_for: there is a page for it.
HttpPathFor(ui, o) ==
    IF IsXmlApi(ui) /\ o \in WriteOps
    THEN IF o = "upload_certificate" THEN "cert_upload" \in ui.pages ELSE o \in XmlApiWrites
    ELSE CASE o = "get_mgmt_ip"  -> {"mgmt_ip", "sysinfo"} \cap ui.pages # {}
           [] o = "get_services" -> Services \subseteq ui.pages
           [] OTHER -> DialectHas(ui, o) /\ SimplePage(o) \in ui.pages

\* The switches that take a certificate, but not over the web.
KnownUnimplemented == {"m4300-24x", "m4300-16x", "gsm7252ps"}

\* Bug: every operation that has a page is published, as it once was.
HttpServesByPage(m, o) == HttpPathFor(HTTP_SPECS[m], o)

HttpServes(m, o) ==
    LET ui == HTTP_SPECS[m] IN
    /\ ~(o = "upload_certificate" /\ m \in KnownUnimplemented)
    /\ o \in CsrfWrites => IsXmlApi(ui) \/ HasCsrfHash(ui)
    /\ HttpPathFor(ui, o)

HttpSupport(m, o) ==
    IF ~HTTP_SPECS[m].verified THEN "unverified" ELSE Verdict(HttpServes(m, o))

CliSupport(m, o) ==
    IF ~(IF o \in ReadOps THEN CLI_SPECS[m].readsVerified ELSE CLI_SPECS[m].writesVerified)
    THEN "unverified"
    ELSE Verdict(/\ o = "upload_certificate_scp" => m \in ScpProfiles
                 /\ ~NoPse(m, o)
                 /\ o = "get_macs" => HasMacTable(m))

-----------------------------------------------------------------------------
Support(m, b, o) ==
    CASE b \notin MODELS[m].backends -> "no_backend"
      [] b \in MODELS[m].backends /\ b \notin OpBackends(o) -> "unsupported"
      [] b \in MODELS[m].backends /\ b \in OpBackends(o) ->
           CASE b = "snmp" -> Verdict(SnmpServes(m, o))
             [] b = "nsdp" -> Verdict(o \notin NsdpRefusals)
             [] b = "http" -> HttpSupport(m, o)
             [] OTHER      -> CliSupport(m, o)

Supported(m, b, o) == Support(m, b, o) = "supported"
=============================================================================
