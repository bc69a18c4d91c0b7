# A TLA+ model of the netgear switch library

`netgear_switch` reads and configures Netgear switches over SNMP, NSDP, HTTP
and the FASTPATH command line, and ships a virtual switch that answers all four
for its tests. The hard part of such a library is that its operations are not
atomic: one call is many requests, each of which another manager can come
between and the network can lose, and the switch gives no transaction to
wrap them in. Above the protocols a facade chooses who carries a call, builds
readers, writers and sessions when they are first needed, resolves secrets and
refuses what a model cannot do. These modules state what the code promises all
the same, check it with TLC on small instances and prove the part that matters
most with TLAPS.

## 1. The system

Paths are below `src/netgear_switch/`.

| Component | State it keeps | Operations | What is hard |
|---|---|---|---|
| SNMP VLAN writer (`snmp_write.py`, `snmp_read.py`, `protocols/snmp/write.py`) | none between calls; inside a call what it has read and what it plans | `set_vlan_membership` (Q-BRIDGE or FASTPATH switchport), `create_vlan`, `delete_vlan`, `set_pvid` | reads are several walks, writes several PDUs: torn reads, partial failure, concurrent writers, order of PDUs |
| Virtual SNMP agent (`virtual/state.py`, `virtual/faces/snmp.py`) | the VLAN, PVID and switchport columns; PoE, port, system, syslog and address columns | one SET per column, multi-varbind PDUs with rollback | two representations of membership that must agree; hardware that follows its columns later; a PDU of several steps over a state that the threads of other faces use |
| SNMP PoE and other writes (`snmp_write.py`) | none | `set_poe`, `cycle_poe`, `clear_poe_fault`, enable, description, syslog, hostname, management address | polls with a deadline between off and on; a sparse table whose rows are destroyed by index |
| SNMP transports (`transport/*/snmp_*`) | none | `get`, `walk`, `set`, `set_many` | timeouts, retransmitted SETs |
| NSDP (`protocols/nsdp/`, `transport/*/nsdp_udp.py`, `nsdp_write.py`) | sequence number, scheme; at the switch a salt and the failed attempts | read and write datagrams, authenticated write | fixed reply port, late replies, a salt that another client uses up, lockout |
| CLI sessions (`transport/cli/`) | the driver, the bytes not read yet | connect, setup, `run`, `run_scp_copy`, `run_write_memory`, `close` | the late output of a timed-out command read as the answer of the next; a setup that failed half way |
| CLI writer (`cli_write.py`, `cli_read.py`) | the configuration mode the switch is in | every write through nested modes; certificate deployment | errors inside a mode; late pages; HTTPS off and on again |
| HTTP sessions (`transport/http/client.py`) | cookie, `_logged_in` | login, GET, form and XML POST | session loss: reads log in again once, writes never repeat; one client shared by tasks |
| HTTP reads and writes (`http_read.py`, `http_write.py`, `protocols/http/`) | hidden fields of the last page | multi-page forms, verification | forms that carry the list of all ports or another setting; stale lists |
| Facades (`sync_api.py`, `aio_api.py`, `_dispatch.py`) | caches of readers, writers, sessions and secrets | dispatch, the guard of `delete_vlan`, `close`, `aclose` | laziness: what is built, resolved or refused first; two tasks at once |
| Configuration, registry, capabilities | constant tables | lookups | a support table written apart from the code that refuses |
| MCP server, `ngsw` (`mcp/`, `cli/`) | none | tools and commands over the facade | the gates before a write, the exit code |
| Virtual server and faces, seed data (`virtual/`) | the switch, running faces | start, stop | sockets and text |

The facade picks a backend for a call; the backend's reader and writer own no
state but drive a transport; the transport talks to a switch, or to the face of
a `VirtualSwitchState`. Readers are called by writers, before the first write
to learn what is there and after the last to verify it. Everything two calls
share they share through the switch, through one facade's sessions and secrets,
or (asyncio) through one HTTP client.

What makes each part correct: a protected port (`protected_ports`) is never
changed by a call without `force`; a call that returns normally has done what it
was asked ("never a silent success"); a call touches only what it names; a
refusal means that nothing was done; nothing is sent twice that must not be;
every call ends. The modules state these for each backend and for the facade.

## 2. The modules

| Layer | Modules | Composition |
|---|---|---|
| SNMP, VLANs | `VlanAgent`, `SnmpVlanWriter` | the writer EXTENDS the agent: its SETs are the agent's operators |
| SNMP, ports and system | `PortAgent`, `SnmpPortWriter` | the same |
| SNMP, one SET PDU | `SnmpFace` | stands alone: what the two agents take for one step |
| NSDP | `NsdpWriter` | clients, network and switch in one module |
| CLI | `FastpathShell`, `CliSession`, `CliCalls`, `CliWriter` | shell, the session over it, what a call runs, the calls |
| HTTP | `WebUi`, `HttpClient`, `HttpWriter` | pages and forms, sessions, calls |
| Front end | `Registry`, `Capabilities`, `Dispatch`, `FrontEnd` | tables, the published oracle, the refusals, the facade and its callers |
| Abstract | `OneCall` | implemented by `FrontEnd` (`Promise`) |
| Proofs | `SnmpVlanWriterProofs`, `SnmpPortWriterProofs`, `NsdpWriterProofs`, `HttpWriterProofs`, `CliProofs`, `CliLateProofs`, `CliSuccessProofs`, `FrontEndProofs` | each EXTENDS the module it is about (`SnmpPortWriterProofs` also `SnmpFace`); of the three about the CLI each goes on from the one before |

Each `MC` module gives a module the states TLC starts from. Every module states its
types (`TypeOK`, `AgentTypeOK`, `SessionTypeOK`); as properties of the runs only the ones that
are strengthened or proved are kept. Operators marked `\* Bug:` are the
mutations that the properties are tried on; no action uses them.

### `VlanAgent`

The agent's VLAN columns as one record, `agent`; an operator per column that
returns the record after a SET, and a predicate where the agent can refuse.
The code keeps `self.vlans[vid]` with `member` and `untagged` sets
(`egress`, `untagged`), `self.pvids` (`pvid`) and, for FASTPATH models,
`switchport_mode`, `_access_vlan`, `_native_vlan`, `_allowed_vlans` and the
`general_*` lists. A bitmap is the set it encodes; its width matters only through
the ports that a re-encoding drops, and these are the ports of
`Port \ Physical` (LAGs). `static` is the set of VLANs with a row in the static
table: VLAN 1 of the GS728TPP exists only in the current table.

| Definition | Code |
|---|---|
| `ApplySwitchport`, `Derived*` | `_apply_switchport`: a port's mode, access, native and allowed columns decide its membership |
| `WriteMode`, `WriteAccessVlan`, `WriteNative`, `WriteAllowed` | the vendor columns in `apply_write` |
| `WriteEgress`, `WriteUntagged`, `EgressAccepted`, `ReconcileQbridge` | the PortLists in `apply_write`, `_reject_if_readonly_qbridge`, `_reconcile_qbridge_membership` |
| `WriteMembership` | one PDU with both PortLists (`write_variables`, `pdu_egress_writes`) |
| `CreateRow`, `CreateAccepted`, `DestroyRow` | `dot1qVlanStaticRowStatus`, with the name in the same PDU |
| `WritePvid` | `dot1qPvid` |

`AgentSpec` lets any manager SET any column at any time.

### `SnmpVlanWriter`

Any number of clients (`Writer`), each a `SnmpWriter` in its own process or a
task of an `AsyncSnmpWriter`, against one agent. `pc[w]` is the request the
client is about to send. A call runs

    Invoke -> five walks (GetVlans) -> Decide -> reads of the dialect
           -> SETs -> five walks -> Verify

`set_pvid` verifies with one walk of the PVID column. Every request is a step,
so other clients act between them. `Decide` has the preconditions (the VLAN
exists; a VLAN to be deleted has no protected member), `MakePlan` and `Refused` are
`_plan_switchport_membership`, `Diverges` is `_switchport_divergence`, and
`Transmit` is one SET: accepted, refused, or lost, in which case the agent may have
carried it out, and it is sent again up to `Retries` times before the call
raises. `LoseRead` is the same for reads. The three ways to raise are told apart:
`refused` (nothing sent), `failed` (`SnmpError` in the middle), `diverged`
(`WriteVerificationError`).

Abstractions: a walk of one column is one step (the agent answers a walk row by
row); the walk of `ifType`, which filters LAGs out of what `get_vlans` reports, answers
the constant `Physical`; `VlanSim.configured_only`, the ports that are members of
a VLAN in the configuration while their link is down, is empty; the extra
`_vlan` read that only fills the text of a `WriteVerificationError` is left out.

### `PortAgent` and `SnmpPortWriter`

`PortAgent` has the port, PoE, system, syslog and address columns as a record, and
the hardware behind them. The virtual switch lets detection and link follow a column in
the same instant; a switch does not, and `cycle_poe` polls because it does not. So
`DetectSettles` and `LinkSettles` are steps of their own, at any time, at once
included. A PDU is one step here, so `WriteMgmt`, the one with several varbinds, moves address, netmask and gateway
as one value, and `SetMgmt` is that PDU, accepted or refused; why a PDU may be taken as a step is `SnmpFace`'s subject.

`SnmpPortWriter` has each write of `snmp_write.py` that is not about VLANs: read, guard,
SET, read back; `_poe_rearm` as `SetOff`, `PollDetect`, `PollLink`, `SetOn`, `PollBack` and
`LastLook`, whose deadlines can pass at any time and at the latest after `MaxPolls`;
`remove_syslog_collector` as a walk of a sparse table and one `SetDestroy` per row.
`SomethingHappens` plugs a device in or out, or another manager adds a collector. Speed, flow control
and the creation of a collector always raise in the code and have no action.

### `SnmpFace`

One SET PDU inside the virtual agent, `write_variables` of `virtual/faces/snmp.py`. The agent has one thread, so PDUs
and GETs do not overlap; but the HTTP and NSDP faces and the in-process CLI use the same `VirtualSwitchState` from threads of
their own and share no lock with it. So copying the state, applying a PDU and putting the copy back go column by
column or field by field, and between any two steps another face writes (`Post`).

| Definition | Code |
|---|---|
| `state`, `view`, `copy` | `VirtualSwitchState`; `StateMibView._entries`; the snapshot, and later the entries that `_load` is collecting |
| `Arrive`, `CopyColumn`, `Copied` | `snapshot_state`: `copy.deepcopy`, one column at a time |
| `ApplyVarbind`, `RefuseVarbind` | `apply_write_uncommitted` of the next varbind, or an error |
| `RestoreField`, `Restored` | `restore`: `setattr` of one dataclass field after another; the error goes to the client |
| `Commit`, `CopyColumn`, `Rebuilt` | `rebuild`: `oid_map`, and then the new entries in place of the old ones |
| `CopyRaises` | `deepcopy` or `oid_map` over a dictionary that another thread has changed in size: nobody catches it, and the request is not answered |

`Field` says which columns a `setattr` replaces together: `mgmt` holds address and gateway. The value of a column is who
wrote it (the number of a PDU, another face, nobody). Abstractions: a varbind writes one column; varbinds come in any
order; `CopyRaises` may happen after any write of
another face, whether it changes a size or not; a handler that still holds a field's old object when `setattr`
replaces it, and writes to that, is left out.

### `FastpathShell`, `CliSession`, `CliCalls`, `CliWriter`

`FastpathShell` is the switch's end of a command line: a record with the
stack of configuration modes, the interface that has been selected, the question that is
open (`enable`'s password, a copy, a save, a reload), and the configuration.
`Execute(shell, command)` is one line of input: `Rejects` is `_config_command`
and the handlers below it (which mode a command needs, what it may
name), `Effect` what it does, `Printed` what comes back: nothing, an error,
or a page, which is the configuration at that moment.

`CliSession` is `ShellDriver` with the transport around it.

| Definition | Code |
|---|---|
| `wire`, `back` | the bytes under way to the switch and back |
| `driver`, `agenda` | `_driver`, and the lines that the present `run()` still has to send: the setup's and the command |
| `Connect`, `RunOnDriver` | `connect` and `run` in `ssh.py`, `telnet.py`, `console.py`: the driver is stored before `setup()` has ended |
| `Executes` | the switch takes the next line |
| `Receive`, `Deals` | `_read_until`, up to a prompt, a question or, for a copy, a report of failure; and what `setup` or `run` does with the text it ended on |
| `TimesOut`, `StreamEnds` | a read that raises: what has been read is gone, the rest stays in the channel, the driver is kept; a stream that ends |
| `Take`, `Close` | the caller has the text; `close()` |
| `IsEmpty`, `Parse*` | what `_clean` leaves of an accepted command, and the page a parser picks out of a text |

What one read of the channel returns is a number of chunks: an echo with its
output is a chunk, the prompt after it is one. `CliCalls` has, for every operation of
`CliWriter` and for `deploy_certificate_scp`, the pages it reads, the commands it runs,
what it refuses (`GuardRaises`, `PreconditionFails`) and what it must read back
(`Verified`). `CliWriter` runs them in stages, each a list of commands that `Issue` sends and
`Use` takes the answers of:

    Invoke -> before (-> pvids) -> enter -> body -> unwind -> after (-> again, until a deadline)
    Invoke -> script (deploy and reboot, which look at no answer)

`enter` and `unwind` are `_in_mode`: `entered` counts the levels whose command was
answered, and one `exit` is sent for each. An answer that is not empty is a
rejection; a rejection, or a `run()` that raises, unwinds and raises. The names of VLANs, forced
rates and a collector's severity are left out.

### `NsdpWriter`

Any number of `NsdpWriter`s on hosts of their own, over `UdpNsdpClient`, against
one switch. `requests` and `replies` are sets of datagrams under way.

| Definition | Code |
|---|---|
| `Exchange`, `Take`, `GiveUp` | `_exchange`: a socket bound to the fixed port, a datagram sent, the first datagram taken, or the timeout |
| `Invoke`, `GetVlans`, `GetPvids`, `Written`, `Verify` | `set_vlan_membership`, `create_vlan`, `delete_vlan`, `set_pvid`: what they read, check, write and read back |
| `ResolveScheme`, `GetSalt` | `_resolve_scheme`, which caches, and `_build_write`, which reads a salt for each write |
| `ServeRead`, `ServeWrite`, `Silent` | the NSDP face and `apply_nsdp_write`: a salt remembered when it is read, failures counted, silence after too many |
| `Lose`, `Duplicate`, `Discard` | the network; a datagram with no open socket to go to |

The client numbers its requests and the switch echoes the number, but nobody
compares it: `seq` serves only to say which datagrams are *stray*, that is, have
outlived the exchange they belong to. A salt is named after the datagram that
drew it. The switch's two refusals of a password (13 and 14) both raise and are one
reply, `denied`. Every client has the right password. `held`, `forced`, `stray` and
`lost` are history and bounds and change nothing.

### `WebUi`, `HttpClient`, `HttpWriter`

`WebUi` is the switch behind its pages, in the four kinds the code tells apart: the Plus
switches' forms (`cgi`), FASTPATH's rows and buttons (`xui`), the GoAhead XML endpoint
(`xml`), and the GS110EMX, whose host name and address share a form (`emx`). On the first two a
VLAN's membership is one list of all ports.

`HttpClient` is `transport/http/client.py`: `believes` is `_logged_in`, `session` what the switch
holds. A session that has expired answers with the login page and status 200; only the
GoAhead interface says it with a status, and only `get_page` logs in again, once
(`LogsInAgain`). `shared` says whether the callers are threads with a client each
or tasks with one `AsyncHttpClient`.

`HttpWriter` runs a call as the list of requests it still has to make (`todo`); one
request and its answer are one step. `Submit` has the gates of `ngsw` and of the MCP
tools, the writers' guards and the facade's guard of `delete_vlan`, whose read is the
request `guardList`. `Drop*` are lost connections: a page is asked for again up to `Retries` times, a
form never. `Settle` is the PoE controller, `Others` another manager.

### `Registry`, `Capabilities`, `Dispatch`, `FrontEnd`, `OneCall`

`Registry` is `registry.py`, `protocols/http/endpoints.py` and the CLI profiles, reduced
to the fields that decide which call is served, for all ten models.
`Capabilities` is `capabilities.py`: `Support(model, backend, operation)`. `Dispatch` is what the
code does instead of asking it: `resolve_backend` (`Chosen`), the errors before a reader or
writer is built (`Barred`), and the refusals of the readers and writers themselves
(`Declined`), in the order in which they are raised. Both were compared with the Python:
`Support` with `matrix()` on all 800 triples, and `Barred`/`Declined` with both facades driven
against recording stand-ins on all 3840 combinations of facade, model, backend and
operation; they agree, but for 20 writes that raise over a page with no hash, which the model has
as `NoHash`, a reply, and a blank stand-in page shows as a refusal.

`FrontEnd` is one facade and who calls it: `ngsw`, a tool of the MCP server, or a program
with a `SyncSwitch` or an `AsyncSwitch`.

| Definition | Code |
|---|---|
| `Ask`, `HoldBack`, `Consent` | a call; `do_write` of `ngsw` with `--dry-run` and the question; `Offered`: tools registered only when writing is allowed |
| `Crash` | the MCP tool `get_device` passes `nsdp_device` an argument it lacks |
| `Bar`, `Build`, `CannotBuild`, `Decline` | `_reader_for`, `_writer_for` and their caches, with the secret an SNMP or NSDP writer needs at once; refusals |
| `Value`, `Keep` | `_resolved_*`: a secret is kept when it has been resolved, a blank one and `None` (none configured) too, a failure not |
| `Suffices` | what a writer is built with: a blank community or web password is refused (`_require_write_community`, `_require_http_password`), while the NSDP writer is refused for `None` only |
| `OverPackets`, `OverHttp`, `OverCli` | the lazy sessions (`_LazyHttpSession`, `_LazyCliSession`, `_http_session`) and the request |
| `Guarding`, `FirstLeg`, `ReplyToGuard`, `Refused` | `_guard_vlan_delete_members`: the read that comes first, and its `except UnsupportedCapabilityError` |
| `Alter`, `Reply`, `Break` | the switch takes what was asked, answers, or does not |
| `Close`, `AcloseBegins`, `AcloseEnds` | `close`; `aclose`, whose await other tasks run in |
| `Surroundings` | a secret is changed or lost (whether one is configured never changes); a protected port joins the VLAN |

A call is one request per leg here; what the requests are is in the writers' modules. Calls
name an unprotected port (the ports' guards are the writers'), the read community is given,
a facade is closed once, and the surroundings move only when a call has been made.

`OneCall` is what a caller can rely on whatever is behind it: one wire carries a call
or none, an answer that says nothing was done is true, and success was carried. `Promise` in
`FrontEnd` is the refinement mapping: the phase of a call is its step and result.

### Properties

SNMP, VLANs:

* `NoOvergrant`, `NoInterruption`: during a switchport plan, after any prefix of
  its SETs and whatever was lost, the port is in no VLAN it neither was in nor
  is to be in, and stays in the ones it keeps.
* `OtherVlansKept`, `RequestHonoured`: what a call that returned normally has done.
* `QuietCallsSucceed`: without loss or rivals a call that was not refused
  succeeds: plan and verification agree about what is aimed for.
* `OnlyNamedPortMoves`: no SET moves another port, LAG or not.
* `ProtectedKept`, and `ProtectedInv`, the invariant behind it: without `force`
  nothing ever changes a protected port.
* `MembershipIsDerived`: the agent's two pictures of membership agree.

SNMP, ports and system:

* `PowerWasCut`: a power cycle that returns has had the port without power, whoever
  else wrote to it and however torn the two walks of a poll were.
* `NoPortLeftOff`: when nobody is at work, a port is off only if somebody asked for it or has
  been told that a cycle did not complete; two cycles of one port, step by step through each
  other, do not both report success over a port that is off.
* `OnlyNamedRowGoes`, `RemovedMeansGone`: the sparse collector table, with rows another
  manager adds between the walk and the destroy.

SNMP, one PDU (`SnmpFace`), beside other faces that write to the same state:

* `WholeOrNothing`: where no other face has written meanwhile, an accepted PDU has changed its columns and no others, a refused
  one has changed nothing, and one that is never answered has done one or the other. What another face writes in the middle of a
  PDU is undone by nothing but a refusal, or the PDU's own column (`PostsSurvive`).
* `ClientsSeeWhole`: a GET, at any moment, shows nothing of a PDU that has not been accepted and all of one that has. Between PDUs the
  view that GETs are answered from is the state, but for what has changed unknown to it, after a refused PDU too, for which nothing is
  computed anew (`ViewIsCurrent`).

CLI:

* `InStep`: until a `run()` of it raises, a session gives each command its own output.
* `NoSilentSuccess`: a call that returns normally has done what it was asked, even
  on a session that earlier timeouts have left out of step. Two checks protect
  it: a late page is not an empty answer, and the read-back has to agree.
* `NotParkedInStep`: in a session in step no call leaves a configuration mode behind.
* `ProtectedKept`, `OnlyNamedHostGoes`: no late page makes a call touch a protected port, delete its
  VLAN, or remove another collector.

NSDP:

* `ProtectedKept`: two clients that each read a whole VLAN and write it back may
  undo each other's changes, but never a protected port's.
* `RefusedOnlyByRival`: a client is refused (which counts towards the lockout) only
  because another has drawn a salt between its own reading one and writing.
* `NoSilentSuccess`: one datagram out of its time does not make a call return that did nothing.
* `OnlyNamedPortMoves`: with one client at work, what is written back is what is there, but for the one port.

HTTP:

* `NeverTwice`: no form is carried out twice in a call, however connections and sessions break.
* `NoSilentSuccess`: a call that reads back what it wrote and returns has had its effect, although the login page
  of a dead session passes for the acceptance of a form.
* `OnlyNamedMoves`, `ProtectedKept`: a form that carries the list of all ports changes another port only if the list
  had gone stale; the GoAhead interface never does.
* `RenameKeepsAddress`: the GS110EMX form that carries the address along leaves it as it is.

Front end:

* `OracleAgrees`: the support table and the code that refuses agree, for the synchronous facade.
* `GuardedDelete`: no unforced deletion reaches a switch unless the same call has read the members; where a refusal of
  that read is swallowed, the backend cannot delete either.
* `RefusalsAreHonest`: an operation the web or the CLI cannot serve is refused as such, before a secret is resolved or a session opened.
* `OneCredential`, `NoLeak`: one web password per facade, one web client, whoever asks at once and whenever it is closed.
* `KeepsPromise`: `FrontEnd` implements `OneCall`; among other things a deletion and its guard go over one wire.

`CallsEnd`, of all but the NSDP and front-end modules: every call returns or raises.

## 3. The runs

CHECK_DEADLOCK is FALSE in the runs because the system rests when
the bounded number of calls has been made.

| Run | Question | Bounds |
|---|---|---|
| `switchport_single` | is the plan's order of SETs safe, from every state of the port? Yes. | 3 VLANs (old, new, bystander), one port in every configuration, two calls, two losses |
| `exclude_default_vlan` | does EXCLUDED exclude? Not from the default VLAN: **finding 1** | one call |
| `qbridge_split` | does a call do what it is asked and nothing else, with the two PortLists in two PDUs? Yes. | every PortList of one VLAN with a LAG, two calls, two losses |
| `qbridge_no_static_row` | and with no static row? The LAGs go: **finding 2** | one call |
| `qbridge_race` | the protected uplink under torn reads, creation and deletion; do calls end? Yes. | two clients, all four kinds, one loss, both PortLists in one PDU |
| `snmp_ports` | PoE, port and system writes, two clients, hardware that settles when it likes; and is a PDU whole inside the agent, beside the other faces? All hold. | two ports, three collector rows, one call each, one loss, one event, one poll per phase; two PDUs, address and gateway in one field and a label in another |
| `cli` | can late output deceive a call, make it touch what it should not, or park the session? No. | two calls of any of 17 kinds, two timeouts anywhere, two starting configurations |
| `nsdp` | two clients: protected ports, refusals, success. All hold. | two calls of every kind, one datagram lost, late or doubled, both schemes, with and without `force` |
| `http` | every web write on four kinds of interface, with expiry, drops, `close()` and another manager. All hold. | two callers, one call each, one loss, one event, threads or tasks |
| `http_rearm` | does a GoAhead power cycle cut the power? Not always: **finding 3** | one call, nothing goes wrong |
| `front_end` | who carries what, what is refused, guarded, cached, closed; is `OneCall` kept? All hold. | every model, operation, backend and front end once; two calls of two tasks for three models; one turn of the surroundings |
| `support_table` | does "supported" mean that it can be sent? Not `set_pvid` over a page without a hash: **finding 4** | the same |

Three VLANs suffice for a switchport plan (what the port leaves, what it joins, what it
keeps). Two clients and two calls are enough for one to come between any two
requests of the other. One loss per retransmission and one more for giving up
reach every branch of `Transmit`. `snmp_ports` runs two machines that share no variable, the calls around the agent (`Around`) and a PDU inside it (`Inside`), each
while the other is where it started: no property is about both. Two columns of one field and one of another are enough for a copy, a PDU and a putting back to be torn in every
way, and two PDUs for the second to find what the first has left. In `snmp_ports` and `http` one client makes every kind of call and the
other the calls that get in its way; their starting states are a
device of each kind, a sparse table, a host named twice, a locked port, a VLAN with and without the uplink.
One poll per phase reaches a poll that sees the old state, one that
sees the new, and the deadline. Two timeouts of a session are enough for a first call
to leave late output and a second to be misled and to time out itself. The switch of the `cli` run starts
fresh from the factory or in use, with members, collectors and devices. In `nsdp` `SilenceAt` is 0 where the
face has 5, so that a v2 switch stops answering writes after the first one it refuses: two calls reach the silence
that would otherwise take seven. One stray datagram is exact: with two, a
late answer to a write and a late page at the read-back, `NoSilentSuccess` fails. In `front_end` two calls
of one facade are `get_ports` and `delete_vlan`, a read and the one call with two legs, on a managed switch, a
Plus switch and the XML interface: between them every way in which a writer gets its secret.

Fairness. `CallsEnd` assumes `WF_vars(Step(w))` for each client: a call runs in its caller's
thread or task and each request has a timeout, so a call that can take a step
takes it. Nothing is assumed of the callers, of the hardware (`PortAgent`'s `DetectSettles` need never
happen: the deadline is a step of the call) or of other managers. `CliWriter` assumes that the switch executes what it is sent
and that the client reads and goes on; not that anything times out. The network loses
a bounded number of times, which the retries exceed. `NsdpWriter` states no liveness: a client that waits can always
give up, so that it says no more than that its timeout passes. `FrontEnd` states none because its calls
are one request each: that the requests end is the writers' `CallsEnd`.

## 4. The findings

1. `set_vlan_membership(1, port, EXCLUDED)` on a switchport model returns
   normally with the port still untagged in VLAN 1 (`snmp_write.py:223`).
2. Where a VLAN has no static row, `set_vlan_membership` rewrites its PortLists from the
   decoded physical ports and removes the LAGs (`snmp_write.py:684`).
3. `cycle_poe` over the GoAhead interface switches a port off and on without waiting for it to be off; a controller
   that has not yet acted shows the port still delivering, and the call returns (`http_write.py:691`).
4. The support table publishes `set_pvid` over HTTP for models whose pages carry no hash, and every call
   raises (`capabilities.py:112`).

The models also show the following, which have no run of their own:

* Between two SETs of a trunk-to-trunk plan the port is tagged, for one PDU, in the VLAN it is to be
  untagged in. `NoOvergrant` allows it: the port is a member before or after.
* The virtual switch recomputes no membership on `createAndGo` (`virtual/state.py:1366`): a VLAN
  that is destroyed and created again is still named by trunk ports' allowed lists, and they
  are not members of it. `MembershipFollowsColumns` has the condition for it.
* `create_vlan` over SNMP does not look whether the VLAN exists; on one that does, the SET only renames it.
* Two clients that configure *unprotected* ports of one VLAN can undo each other's changes, over SNMP, NSDP and the list
  forms of the web alike.
* A CLI connection whose setup raised keeps its driver, and the next command is sent in the
  middle of the setup (`ssh.py:111`); a level of configuration mode whose entering was carried out but not
  answered in time is never left (`cli_write.py:258`). `InStep` and `NotParkedInStep` therefore speak of sessions
  in which no `run()` has raised.
* After a timeout, the next CLI command reads the late output. The writer survives it
  (`NoSilentSuccess`, `ProtectedKept`); a bare reader returns the wrong page.
* `deploy_certificate_scp` switches HTTPS off first, and a copy that fails, or whose answer is late, leaves it off
  (`cli_write.py:131`). `NoSilentSuccess` promises a deployment in step only.
* NSDP with a stray datagram: the late answer of `get_pvids`, taken by `get_vlans`, decodes to no
  VLANs. `set_vlan_membership` then writes a VLAN with its own port in it and nobody else,
  protected ports included, and `create_vlan` empties a VLAN that exists; a late answer to the
  scheme query is taken for v1 and cached. This is why `ProtectedKept` and `OnlyNamedPortMoves` speak of
  `stray = 0`.
* Two NSDP clients: one's `create_vlan` can empty a VLAN that the other has just created and filled; `set_pvid` can
  leave a PVID that names a VLAN another client has deleted by force.
* An unforced `delete_vlan` over HTTP on a model whose deletion is refused reads the members first, so that a missing
  password is reported in place of the refusal (`sync_api.py:81` describes the opposite for the operation itself).
  `RefusalsAreHonest` leaves this read out.
* `AsyncSwitch` has no HTTP `get_hostname`, `set_hostname` and `remove_syslog_collector`, no NSDP `set_hostname` and no CLI,
  all of which the table publishes; `OracleAgrees` is about the synchronous facade.
* A backend named `telnet` on a model with both is carried by SSH (`Wire`). A blank secret is kept for the life of the facade, as is `None`.
  A blank NSDP password builds a writer, and the switch is asked (`sync_api.py:414`); a blank community or web password is refused by the facade.
* SNMP and NSDP writers resolve their secret before a capability is refused; the web and the CLI do not.
* "No partial mutation is ever observable" (`virtual/faces/snmp.py:273`, `virtual/state.py:1114`) holds for SNMP clients
  (`ClientsSeeWhole`), and not for the other faces of a virtual switch: the varbinds are applied to the live state one by one
  (`virtual/faces/snmp.py:306`), and a page that is rendered between two `ApplyVarbind` shows the first of them, even of a PDU that is refused in the end.
* The comment on `_AnyWriter` (`sync_api.py:65-68`) still speaks of a "per-op fallback" that moves on to the next backend. There is none: `_write`
  asks the one backend that was chosen and raises its refusal (`sync_api.py:485`; `Chosen`, `Decline`), as the comment at `sync_api.py:40` says and
  means. `set_port_speed` on an m4300-24x with no backend named is refused over SNMP, although the model has a backend that supports it.
* Inside the virtual switch a refused PDU undoes what other faces wrote while it was carried out (`restore`), and GETs show what other faces have
  written only after the next accepted SET (the view is computed then). `PostsSurvive` and `ViewIsCurrent` except just these.
* The MCP tool `get_device` passes `nsdp_device` a `backend` it does not take, and raises `TypeError`.
* `ngsw` and the MCP server never close a facade. Two `aclose` of one `AsyncSwitch` at once are not modelled: between them
  a new client could be dropped unclosed.

## 5. What is proved

Eight modules, checked from nothing in about twenty-five minutes. Their constants are free: any sets of ports, VLANs, clients,
tasks, any bounds, within the assumptions of the modules they extend. Those on `Found`, the states in which a switch may be found,
say what an induction starts from: there is a VLAN, and one that does not
exist has no members (`WebUiAssumption`), a static row belongs to an existing VLAN (`VlanAgentAssumption`). `FastpathShellAssumption` has the sets of VLANs
and hosts finite: a call runs one command for each VLAN, and the table of collectors has a highest row. The
states the runs start from meet them, and TLC evaluates them.

`SnmpVlanWriterProofs`, first the agent, for any managers

* `AgentTypeCorrect`: whatever managers write, the agent's record stays well formed: a static row belongs to an
  existing VLAN, a VLAN that does not exist has no members.
* `MembershipFollowsColumns`: `MembershipIsDerived` is invariant of `AgentSpec` as long as no VLAN comes into being
  (`[][agent'.vlans \subseteq agent.vlans]_agent`). The condition is needed: see section 4. Each operator of the agent
  has a lemma that it leaves the derived membership agreeing with the columns (`SwitchportAgrees`, `QbridgeAgrees`, `RowAgrees`).

then the writers, any number of them

* `TypeCorrect`: `Spec => []TypeOK`.
* `ProtectedInvariant`, `ProtectedPortsKept`: if no caller passes `force`
  (`Forces \subseteq {FALSE}`), `ProtectedInv` is an invariant and no step changes
  a protected port's VLANs, tagging or PVID.
* `WritersKeepMembershipDerived`: the writers' SETs, lost or retransmitted, keep `MembershipIsDerived` under the same condition as above.

That a protected port is safe is not obvious on the Q-BRIDGE models: a call for
port 3 writes back the whole PortList, protected ports included, from octets it
read earlier, or from a torn `get_vlans` when there is no static row; and
`delete_vlan` destroys a row on the word of a torn read. The
invariant says why it works. Because no call may touch a protected port, its
bits are constant, so whatever the call has read of them is still true: what it saw
is true (`SawNothingFalse`), it has seen all of it that the walks so far
show (`SawAll`), the octets it will write agree (`BitsKept`), and `setDestroy` is
reached only for a VLAN with no protected member. The argument is circular over
time, constant because unread wrongly, read rightly because constant, and that is what
makes it an induction: `ProtectedInv` has to speak of every client's reads
at every control point. The proof has one lemma per helper (`MembersSeen`: a
view that saw everything computes the true members; `KeptCallSafe`: a step
that keeps the protected bits keeps every other client's `CallSafe`; `SetKept`:
an operator of the agent keeps them), one step per action, and the QED by PTL.
With `force` the theorem is false, as it should be; with a manager outside the library
(the web UI) it does not apply.

and last one client at a time (`Alone`), with any ports and VLANs, any number of calls and losses

* `OneClientInvariant`: `Spec => []OneClientInv`. It ties together what a call knows at each control point. `Course`: which kind of
  call is where, and when its plan is made. `ViewTrue`: the columns it has walked so far are the switch's, since nobody
  writes while it reads. `PlanFits`: a plan names existing VLANs, keeps what the call does not name, and its allowed list
  is right within the VLANs that exist. `OwnBit`, `OtherBits`: in the PortLists of a Q-BRIDGE call its own port is as the caller
  asked, the others as they are. When the call has returned, `Reached` or `Honoured`: this comes from the verification, whatever was lost on the
  way (`ViewTells`: from a true view `parse_vlans` computes the true membership).
* `OtherVlansKeptProved`: `[]OtherVlansKept`. `RequestHonouredProved`: `[]RequestHonoured`, for the Q-BRIDGE
  dialect; on a switchport model it is false (finding 1), and `OtherVlansKept` says what holds instead.
  `OnlyNamedPortMovesProved`: on switchport models as they are, on Q-BRIDGE models if every VLAN of the switch has a
  static row when it is found (`EveryRow`, which the calls keep); without a row it is false (finding 2).
* `NoOvergrantProved`, `NoInterruptionProved`: the order of the PDUs. `PassageInv` follows a port under a plan from `AsFound` to
  `AsWanted`, at each PDU both before it has reached the agent and after, since a lost answer leaves the client not knowing which (`Passes`).
  A write that the present mode does not look at is unseen (`UnseenWrite`); the allowed list is narrowed to what was or will be
  there before the native VLAN changes, and the mode is written last. The condition is that no VLAN comes into being
  (`[][agent'.vlans \subseteq agent.vlans]_vars`): it is what keeps the tables derived from the columns (section 4).
* `QuietCallsSucceedProved`: `[]QuietCallsSucceed` where callers do not use `create_vlan` (`NoVlanComes`: then no VLAN comes into
  being), in both dialects; a switch that untags the ports an egress write adds must be written in two PDUs
  (`AutoUntag => SplitWrites`: one flag of the registry stands for both). On a switchport model the plan's native VLAN exists,
  so its SET is accepted, and `AsWanted` is what `Diverges` compares; on a Q-BRIDGE model the PortLists that were prepared are those that
  are there (`ListsWritten`). The run asks it of switchport models. With `create_vlan` it is false: an existing VLAN without a static row reads back no name.

`SnmpPortWriterProofs`, for any number of clients, ports, collector rows, lost replies and outside events

* `TypeCorrect`; `PowerCutProved`: `[]PowerWasCut`; `NoneLeftOffProved`: `[]NoPortLeftOff`; `RemovedProved`: `[]RemovedMeansGone`;
  `OnlyNamedRowProved`: `OnlyNamedRowGoes`, an action property.
* A step is first summed up (`NextMoves`): a client starts a call (`Starts`), a call goes on (`Advances`: where it can go, what
  it can learn, what it can write), or the world moves (`WorldMoves`). The invariants are proved against these three and not against
  the twenty actions. `Inv` has one part for each property, since none is inductive alone:
  `CutInv` follows the evidence of a power cut through the phases of `_poe_rearm` (while the port is not delivering, the cut has happened;
  a saw-it-off answer is kept only on the way to `setOn`); `OffInv` says who answers for every port that is off: somebody asked for
  it, somebody was told, or a client is between `setOff` and `setOn` on it, and here it matters that *several* clients may
  be cycling one port; `RowInv` says what the client about to destroy row `i` may find there: the row it saw, nothing, or a row
  another manager put there since (`fresh`). `KindFits` ties the control points to the kinds of call.
* `FirstIndex` (a set of rows that is not empty has a first one) comes from the well-foundedness of `<`, instance by instance.

and one PDU of the agent (`SnmpFace`), for any columns, fields, PDUs and writes of other faces

* `WholeOrNothingProved`: `FaceSpec => []WholeOrNothing`; `ClientsSeeWholeProved`: `FaceSpec => []ClientsSeeWhole`.
* `FaceInv` is the types, `PostsSurvive` and three parts. `PduInv`: what is true at each phase of what has been copied, applied and put back so far; a column
  that no other face has written is the PDU's, if its varbind has been applied, or what it was before, and the copy is of *before*, in
  spite of being torn, because what may be torn in it has been posted. `NumberInv`: only the present PDU's number is new, so that a view in which it does not
  occur has nothing of it. `ViewInv` ties the view to *before* while a PDU is under way, which is why restoring needs no new one: `Undone` and
  *view agrees with before* meet at the end. One lemma per part (`PduKept`, `NumberKept`, `ViewKept`, `PostsKept`), one step per action.

`NsdpWriterProofs`, for any number of clients, calls and lost datagrams

* `ProtectedPortsKept`: `Spec => ProtectedKept`. Here the condition is part of the property: nobody has passed
  `force` and no datagram is stray (`Calm`), and once either has happened it stays so (`CalmBefore`). The induction is
  the one above, over datagrams: a list of VLANs on its way to a client that will use it tells the truth about
  the protected ports (`ReplyFits`), a write on its way leaves their bits as they are (`RequestFits`), and so
  does a change that waits for its scheme or salt (`ClientSafe`). It needs a fact about the transport: with nothing stray a client
  has at most one datagram under way, of the exchange it is in (`OneDatagram`, `Fits`), so that what it
  takes for an answer is one. `GiveUp` shows why: a client that gives up with nothing alive has nothing
  under way, and otherwise leaves a stray. A stray answer is just what breaks it (section 4).

* `NoSilentSuccessProved`: `[]NoSilentSuccess`; `RefusedOnlyByRivalProved` and `OnlyNamedPortMovesProved`, two action
  properties. They come from a second invariant, `StrayInv`, of which forced calls are no part but the *first stray datagram* is: with at most
  one, `Told` holds. `Ordered` counts: a datagram is its client, number and copy (`Key`); those that are not of their client's exchange
  (`~Current`) exist only with a stray, and of two datagrams of one client one is current. `Suits` says what they carry: a current
  request is the one that the client's control point asks for (`Asks`) with the change its call asks for (`Does`), and a
  current answer that shows the effect, or says *written*, is true. The point is `Doubts`: a client that waits for the read-back
  of a write which never took effect was told *written* by the one stray there can be, so nothing else of its own can deceive it, and
  the read-back will say *diverged*. `Clean` is for no stray at all: the scheme is the switch's, a token is the latest salt or another client drew
  a later one (`FreshSalt`), and, with one client, the table that was read is the table that is there (`Narrow`).

`HttpWriterProofs`, for any number of callers, each with any set of calls, on any of the four kinds of page

* `TypeCorrect`; `NeverTwiceProved`: `[]NeverTwice`; `NoSilentSuccessProved`: `[]NoSilentSuccess`; and three action properties,
  `OnlyNamedMovesProved`, `ProtectedKeptProved` and `RenameKeepsAddressProved`.
* A call is the list of requests it still has to make, so the first thing to prove is what such a list can look like:
  `Fits` (each form occurs once, what precedes what, how the list ends), established for the plan of every kind of call on every
  kind of page (`RequestsFit`) and kept by taking off the first request (`FitsTail`). Then a step of a caller is one of `Starts`,
  `Reads`, `Posts`, and one of the environment `Drifts`; all the other callers wait (`Waits`), which is *not* the same as
  being unaffected: the list a caller has read grows old while it waits, and `late` says so.
* `Inv` is `Base` (types, `Sound`: a VLAN that is gone has no members, and `CallsFit`), `OnceInv` (no request still to come has been
  sent already, which is why a retry, a second login or a lost answer cannot send it again), `HeldInv` (what is in force has been
  noticed, so a call that reaches the end of its list knows the truth about its effect), `ListInv`, `GuardInv` and `RenameInv` (unless the call is `late`, the
  list, the guard's answer and the address it has read are those of the switch at the moment the form goes out).
  The action properties are read off the last three: a form that writes a list of all ports writes back what is there, but for one.

`CliProofs`, for any VLANs, ports and hosts, any image of the switch, any way of saving, any number of calls, timeouts and closed streams

* `SessionInvariant`: `Spec => []IInv`, where `IInv` is `StageFits`, `SessionFits` and `Steady`. `InStepProved`: `[]InStep`;
  `NotParkedProved`: `[]NotParkedInStep`. Both follow from it.
* `StageFits` (in every state): the commands that a stage still has to send are commands of that stage (`Proper`, `Batch`), shown for each
  operation of `CliCalls`. It is what lets the proof about the session speak of five kinds of command and not of thirty operations.
  `SessionFits` (in every state): what can be said of the driver and the answer even out of step.
* `Steady` (while no `run()` of the session has raised, `Sound`) says for the line that `run()` waits for exactly where it is, with nothing else in the
  channel: on its way to the switch (`Sent`, `Password`), printed and on its way back (`Printout`, `Prompted`), turned into a question (`Asked`),
  whose answer is under way (`Replied`) or went out ahead of the question (`Stuffed`), or never to be answered, because the
  switch restarts (`Halted`). `AgendaFits` has what the setup still sends: it depends only on the line waited for. That is why a
  reader that stops at the first prompt, question or failure stops at its own (`Received`).
* `Depth` is the number of modes that the shell is in. It is `entered`, or what `unwind` has left to exit, except while an `enter` command or an `exit`
  is between the switch and the caller (`Entering`, `Leaving`): the switch has obeyed and the call does not know yet. A rejected
  `enter` command changes nothing on the switch, and the call does not count it; so one `exit` for each level counted is right, and
  the call ends at depth zero.
* The condition `~torn` cannot be dropped: a `run()` that timed out leaves its output in the channel for the next one (section 4).

`CliLateProofs`, what holds out of step too: after any number of timeouts, when every answer that a call reads may be of an earlier one

* `LateInvariant`: `Spec => [](IInv /\ LateInv)`. The idea is to *count*. Every level that the shell is in is paid for by one acceptance, which is
  unread in the stream (`Oks`), in the call's hands (`Won`), or turned into one exit, on its way (`Outs`) or owed (`Owed`):
  `Credit` says that the sum of these is at most the shell's depth. So an acceptance tells what mode the shell is in
  *whenever* it is read, and one that is used twice would be one too many. What the count needs beside it: a line that needs a mode has an exit behind it
  or is the present call's (`Owned`); the acceptances of `configure` come after those of what is inside (`Apart`); a prompt ends an answer and
  the next begins with a text (`Prompts`, `Clear`), so that an answer taken for success is the first two chunks; and where in its
  list of commands a call is (`Descent`).
* `ExitsWithinDepth`: `[]Credit`, `_in_mode` never leaves a mode that it has not entered. `PortCommandsAimed`: `[]Aimed`, a command for a port finds
  that port's interface selected when it arrives. It comes from `OwnOk`, `Landed` and `InHand`: the acceptance of `interface` carries
  the port in its echo, which `IsEmpty` compares, and when it is the call's own, nothing else is left in the channel: *entering an interface puts a session back in step*.
  This is why port calls are safe after timeouts; it is not so for the VLAN database or for `configure`, whose acceptances all look alike.
* `ProtectedProved`: `ProtectedKept`, where no caller passes `force` to a call for a port or to `delete_vlan` (`Unforced`; `force` for
  the management address or a reboot does no harm). For a port the command's aim is enough. `delete_vlan` is
  harder, since it decides on pages that may be late: `Pictures` says what every page that is still to be read shows of the protected ports, and
  that is constant; `Pages` says that the pages of VLANs come in a row, each once, so that a reader that finds the page of the VLAN it
  deletes has a page that shows all of that VLAN's protected members (`Noticed`).

`CliSuccessProofs`, for the same behaviours

* `NoSilentSuccessProved`: `[]NoSilentSuccess`, for every kind of call. The invariant has a part for each way in which a call can know:
  * `DbInv`, the VLAN database. Late acceptances all look alike there, so it follows pairs: an acceptance of `vlanDatabase` and that of the change
    behind it, both unread (`Pairs`), are of a call that has gone, whose change has been made and still stands, since nobody can be inside to undo it;
    `Leads` and `Settled` carry this to the call that takes them for its own, and on to its end.
  * `GlobalInv`, the settings of the switch: no call switches one off, so that once made it stays.
  * `InSync`, `AtOk`: once a port call has entered its interface the answers read are those of its own lines. `PortMade`: what the body has made of the port, line by line,
    with `AllGeneral` for the port mode that FASTPATH needs first; it survives the exits.
  * `ReadBack`: a power cycle and the calls on collectors are judged by their read-back, and the last page it can take was shown after the call's own lines had been executed.
  * `ScriptInv`, `deploy_certificate_scp`: only in step, as the property says.
  * `CallMade` gathers what the call has made by the time it returns.
* `OnlyNamedHostProved`: `OnlyNamedHostGoes`. `remove_syslog_collector` takes a row's number from a page, possibly an old one. `RowsInv`:
  a row that a page shows is, if its number is still taken, the same row (`Unshifted`). A new collector takes the number above the highest and so could
  take one that an old page shows, if that row has gone since; it does not, because a collector is added only behind an acceptance, and while there is one, or the addition is on its way,
  nothing can be removed first, so all numbers of all pages still to be read are taken (`Upheld`, by `HostTaken`: when a line about a collector is obeyed, the count leaves room for no
  other, and none for an acceptance).

`FrontEndProofs`, for any number of tasks and calls, any subset of the models and any pins

* `OneWebClient`: types and `NoLeak`, by `SessionInv`.
* `FrontEndKeepsPromise`: `Spec => KeepsPromise`, the refinement of `OneCall`. The inductive invariant is `HonestInv`: what
  has carried a call so far is its own carrier (`Faithful`), a request that is out has a wire, and a call that has
  written is past its guard and past every refusal. A step of a call is `Good` when it maps to a step of `OneCall` or
  to a stutter; there is one lemma for each kind of abstract step (`AskedStep`, `CarriedStep`, `AlteredStep`,
  `AnsweredStep`, `SilentStep`) and one for each group of actions.
* `OnePasswordPerFacade`: `OneCredential`, by `OnePassword`: if a password has been used, it is the one that is kept.
* `DeletionIsGuarded`: `GuardedDelete`, by `GuardInv`: a deletion whose guard's read was refused (`Unread`) is one the backend bars
  or declines. That is where the registry enters: `NoListNoDeletion` goes through the models and pages
  (`UisHaveMembers`, `CliModels`) to show that a backend that cannot list VLANs cannot delete one.
* `RefusalsAreHonestProved`: `[]RefusalsAreHonest`, and `OracleAgreesProved`: `[]OracleAgrees`, by `ToldInv`: a call that has been told
  *unsupported* stands before a reader or writer that does not serve it (`Served`), one that got as far as an answer of the switch stands
  before one that does, and a call of the web or the CLI has sent nothing and spent no secret until it goes. For `OracleAgrees` the two tables have to be compared:
  `TableAgrees` shows, for every model, backend and operation, that the table says *supported* exactly where the readers and writers serve. It is
  not an enumeration: SNMP, NSDP and the CLI follow from the shape of the tables, and for the web a few facts about every interface of the
  registry are enough (`WholeUi`: e.g. that a page dialect which reads the host name has a `sysinfo` page). The one place where the
  tables agree by luck of the data is `MacPages`: `get_macs` is barred where there is no SNMP, the table looks for a page, and no model has the page alone.

Model-checked only: liveness (`CallsEnd`, of the writers that state it), which is out of the prover's reach as `ENABLED` is; every other property of a
passing run is stated by a theorem. The types of the CLI (`Typed`, `StageFits`) are
proved as parts of the invariants and not as `TypeOK`, which bounds the counters too. The invariants of the three modules about the CLI were checked by TLC with
up to five timeouts and six calls before they were proved.

## 6. Order of work

Done, in this order: the SNMP VLAN writer with its agent and proofs; the CLI session and writer; NSDP; the other SNMP writes;
HTTP; the facades with the registry and the support table, and the refinement of `OneCall`; the proofs about the
agent, the SNMP and NSDP writers and the facade; those about the other SNMP writes and HTTP, about a single client of the SNMP VLAN writer, about the CLI session, and about the CLI out of step. What would come next:
an abstract atomic membership change that `SnmpVlanWriter` implements when alone.

## 7. What is not modelled

* Text parsers and page templates: pure functions of recorded text; what a page says is modelled, how it is written is not.
  Formatting, argument parsing, the TOML file, seed data (constant tables).
* NSDP writes of port names, host name and management address (one write between two reads, like `set_pvid`), clients with a wrong
  password, and two clients on one host, which compete for the fixed port.
* Starting and stopping the virtual server's faces, `capture` and `serve`: sockets and files.
* Reads that no write uses (MAC table, LLDP, sensors, users): one request with no effect; they appear in
  `FrontEnd` as operations only. `identify` and `snapshot` are sequences of reads.
* Below a transport: the bytes of SSH, telnet and the serial line, TLS, password hashing, net-snmp's output.
