------------------------------ MODULE Registry ------------------------------
(***************************************************************************)
(* What the library knows of the switches before it talks to one: the      *)
(* models (registry.py), the pages of their web interfaces                 *)
(* (protocols/http/endpoints.py) and the models whose CLI is verified      *)
(* (protocols/cli/commands.py).  Of an entry only the fields that decide   *)
(* which call is served are kept; a page is in "pages" when the entry      *)
(* gives it a path.                                                        *)
(***************************************************************************)
EXTENDS Naturals

CliBackends == {"ssh", "telnet", "console"}
Backend     == {"snmp", "nsdp", "http"} \cup CliBackends

-----------------------------------------------------------------------------
Managed(poe, backends) ==
    [poe |-> poe, backends |-> backends \cup {"snmp"}, vendor |-> TRUE, creates |-> TRUE]

Plus(poe) ==
    [poe |-> poe, backends |-> {"nsdp", "http"}, vendor |-> FALSE, creates |-> TRUE]

M4300_24X == Managed(0, {"http", "ssh", "telnet"})
M4300_16X == Managed(16, {"http", "ssh", "telnet"})
GSM7252PS == Managed(48, {"http", "ssh", "telnet"})
GSM7228PS == Managed(48, {"http", "telnet"})
GS110EMX  == Plus(0)
GS305EP   == Plus(4)
M7300     == Managed(0, {})
XS748T    == Managed(0, {})
GS728TPP  == [poe |-> 24, backends |-> {"snmp", "http"}, vendor |-> FALSE, creates |-> FALSE]
GS105PE   == Plus(0)

Key ==
    {"m4300-24x", "m4300-16x", "gsm7252ps", "gsm7228ps", "gs110emx", "gs305ep", "m7300",
     "xs748t", "gs728tpp", "gs105pe"}

MODELS ==
    [m \in Key |->
        CASE m = "m4300-24x" -> M4300_24X  [] m = "m4300-16x" -> M4300_16X
          [] m = "gsm7252ps" -> GSM7252PS  [] m = "gsm7228ps" -> GSM7228PS
          [] m = "gs110emx"  -> GS110EMX   [] m = "gs305ep"   -> GS305EP
          [] m = "m7300"     -> M7300      [] m = "xs748t"    -> XS748T
          [] m = "gs728tpp"  -> GS728TPP   [] m = "gs105pe"   -> GS105PE]

HasMacTable(m) == "snmp" \in MODELS[m].backends

-----------------------------------------------------------------------------
(***************************************************************************)
(* Web interfaces.                                                         *)
(***************************************************************************)
Dialects == {"STANDARD", "GS110EMX", "GS105PE", "M4300", "XE_FASTPATH", "S3300", "GOAHEAD_XML"}

Ui(dialect, pages) ==
    [dialect |-> dialect, verified |-> TRUE,
     pages |-> pages \cup {"dashboard", "vlan_config", "pvid"}]

Services     == {"http_service", "https_service", "telnet_service", "ssh_service"}
FastpathPages ==
    {"stats", "port_config", "sysinfo", "mgmt_ip", "mgmt_ip_fields", "mac_table", "lldp",
     "vlan_membership", "syslog"}
PoePages == {"poe_config", "poe_status"}

UI_GS305EP   == Ui("STANDARD", {"stats", "vlan_membership", "reboot"} \cup PoePages)
UI_GS110EMX  == Ui("GS110EMX", {"stats", "port_config", "sysinfo", "vlan_membership", "reboot"})
UI_GSM7228PS == Ui("S3300", FastpathPages \cup PoePages \cup {"cert_upload"})
UI_GS105PE   == Ui("GS105PE", {"stats", "sysinfo", "vlan_membership", "reboot"})
UI_M4300_24X == Ui("M4300", FastpathPages \cup Services \cup {"users"})
UI_M4300_16X == Ui("M4300", UI_M4300_24X.pages \cup PoePages)
UI_GSM7252PS == Ui("XE_FASTPATH", FastpathPages \cup Services \cup PoePages \cup {"users"})
UI_GS728TPP  ==
    Ui("GOAHEAD_XML", {"sysinfo", "mgmt_ip", "poe_status", "mac_table", "lldp",
                       "cert_upload", "xml_write"})

HTTP_SPECS ==
    [m \in Key \ {"m7300", "xs748t"} |->
        CASE m = "m4300-24x" -> UI_M4300_24X  [] m = "m4300-16x" -> UI_M4300_16X
          [] m = "gsm7252ps" -> UI_GSM7252PS  [] m = "gsm7228ps" -> UI_GSM7228PS
          [] m = "gs110emx"  -> UI_GS110EMX   [] m = "gs305ep"   -> UI_GS305EP
          [] m = "gs728tpp"  -> UI_GS728TPP   [] m = "gs105pe"   -> UI_GS105PE]

\* Pages of these dialects carry the hidden "hash" that a form sends back.
HasCsrfHash(ui) == ui.dialect \in {"STANDARD", "GS105PE"}

IsFastpath(ui)  == ui.dialect \in {"M4300", "XE_FASTPATH", "S3300"}
IsXmlApi(ui)    == "xml_write" \in ui.pages

-----------------------------------------------------------------------------
(***************************************************************************)
(* Command lines.                                                          *)
(***************************************************************************)
CLI_SPECS ==
    [m \in {"m4300-24x", "m4300-16x", "gsm7252ps", "gsm7228ps"} |->
        [readsVerified |-> TRUE, writesVerified |-> TRUE]]

\* The models that fetch a certificate with "copy scp".
ScpProfiles == {"m4300-24x", "m4300-16x", "gsm7252ps"}
=============================================================================
