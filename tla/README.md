# Formal models of the Halos outside-in safety core

TLA+ models of the safety core in `src/safety-core`, the TLC runs that check
them on small instances and the TLAPS proofs that hold for every instance.
`PROJECT.json` maps each definition to the lines it models.

## 1. The system

Cameras watch a floor where people and vehicles move. Perception publishes what
it sees; the safety core turns it into a command for the machine.

```
perception -> mdx_client -\
SAIM (AI monitor)  --------> SEI daemon (PSS) -> NvPSD gateway -> SDM -> command receiver / PLC
PCM (perception monitor) -/
```

- **SEI daemon** (`components/event-integrator/daemon`, called PSS in the code).
  Its clients register and report over RPC. Threads: the RPC server and its
  heartbeat tick (`NvPSSDRPC.cpp`), the input-queue loop, the fusion loop, the
  sender (`NvPSSSafetyEventManager.cpp`) and the server to PSD
  (`NvPSSDToPSD.cpp`).
- **Gateway** (`components/protocols/decision-maker-gateway`). Registers with
  PSS, receives one decision request at a time, checks its sequence and fans it
  out to at most ten SDM clients over a local sequenced-packet socket.
- **SDMs** (`decision-makers/*`): automatic truck loading (ATL), proximity, the
  two combined, crossing junction. Each keeps safe-state *causes*, a *latch* that
  outlives them and a *release* by the PLC, accepted only when no cause is active.
- **Command receivers** (`udp_cmd_receiver`) and the latch manager acknowledge
  commands and ask for the release.
- **Transport** (`components/safecomm`), **black box** (audit log), **sensor
  configuration**, and the **closed-loop test bench** (simulation and reporting).

## 2. Modules

One module per component; `MC*` modules give the constants of the runs and pick,
in a variable `scene` or `scenario` set at the start and never changed, which
component or which small instance a behaviour is about. So one run covers several
independent parts without multiplying their states.

| Module | Models | State and where it is in the code |
|---|---|---|
| `PssDelivery` | staging lanes and `managePsdSender` | `lane` = `criticalPrioQue`, `operationalPrioQue`; `refused` = `psdRefusedPending_`; `overflow` = `criticalLaneOverflow_`; `delivery` = `psdDeliveryState_`; `sender` = the thread's locals; `told` is history |
| `FusionHealth` | `NvPSSFusionHealthLatch` | `streak`, `error`, `holder` = owner of `edgeMutex_`; `pc`, `stage`, `todo` are thread locals |
| `TrustVerdicts` | trust reports, group and AI verdicts, event stamping, re-assertion | the trust table, the last emitted verdicts, the input queue, both lanes, and what a decision module holds failed |
| `PsdLink` | `NvPSSDToPSD.cpp`, `NvPSD.cpp` | peers and client ids, routes by event type, the response mailbox, the gateway's registration and its replay |
| `RpcServer` | `NvPSSDRPC.cpp` | slots with generation, type, heartbeat misses, latch, report streak; the published masks and the Safety Monitor cache; pending disconnects |
| `RpcClient` | a client process and `NvPSSDaemon_interface.cpp`, with the server | one call at a time with its number, the answers on the socket; `ahead`, `misled` are history |
| `SdmRequestState` | `sdm_decision_request_state.h` | none; bit masks are sets |
| `SafeState` | what a decision module promises about causes, latch and release | `active`, `latch` |
| `AtlSafeState` | `ATLControl.cpp`: listener, release, watchdogs, periodic decision | `faults` = the five active flags; `sub` = `pssSubCauseActive`; `latch` = `safeStateLatchCauses`; `suppress`, `miss`, `failed`, `seen`, `held`, `lastId`, `phys` as in the source; `transition`, `eval` = owners of the mutexes; `raised`, `gone` are history |
| `SdmControl` | the control that proximity, crossing and combined modules share | as `AtlSafeState`, with `decisionSendMtx` as `send`, and the active command; the decision taken from a batch is arbitrary |
| `ProximitySdm`, `CrossingSdm` with `JunctionZone`, `AtlProximitySdm` with `PairFusion` | what each of them decides | event binding; junction levels per camera, phases and holds; the pair table |
| `PlcAcks` | command numbers and acknowledgments | `pendingCommands`, the counter, the channel |
| `PlcReceiver` | the three `cmd_rx.cpp` | window, last action, heartbeat clock, prompt, the UDP channel both ways |
| `SdmLink` | launch, registration, heartbeat tiers, shutdown of an SDM | miss count, tier budget, connection, signal flag, thread places; a poll that fails, and the gateway's end of the link |
| `PsdGateway` | `NvPSDGateway.cpp` and the receiving end of an SDM | `table` = `clientTable`; `pending` = `pendingPeers`; `drops` = `g_deferredDrops`; `open` = the transport's peers; `gen` = `g_pssFaultGeneration`; `list`, `paid` = `g_toSendList`, `g_recoverySent`; `built`, `nth`, `gapped` are history |
| `LatchManager` | `safety_latch_manager.py` beside the log of an SDM | causes, doubt, mirrored scene, the request in progress |
| `SaimVerdict` | the camera verdict of the AI monitor and its reporter | `sensorInvalid_`, the alert counter, the slot with its stamp, the reporter's wait; `linked`: the socket of the registration is alive |
| `RtspSession` | `rtsp_client.cpp` | fragments, source id, queue, gate, two threads |
| `PerceptionMonitor` | perception monitor | per-check streaks, the window, the reporter |
| `DecisionContract`, `EventMapping`, `FramesParser` | rules, their validation, candidates of a frame | none: operators over a frame and a configuration |
| `MdxClient`, `CoMovement` | the VSS client and its tracker | ordinals per sensor; pair histories |
| `*Proofs` | theorems | |

**Grain.** A step is a critical section of the mutex that guards the state, or one
access to an atomic variable where the code has no mutex; a lock held across
several such steps is a variable. A send is a step of its own wherever the code
sends after it unlocks. Thus `PssDelivery` has one step per section of the lane
mutex and two per send attempt (the request leaves; the answer comes in time or
not); `FusionHealth` one per shared-memory access; the SDM modules one per section
of `safeStateLatchMtx`, per atomic flag and per command sent; `PsdGateway` one per
section of `clientTableMutex` or transport call.

**Abstractions.** Events, names and payloads are members of small sets. The
sequence check and the miss count an SDM computes from a clock are inputs. What
PSD does with a request is modelled from the gateway's duplicate rule: it forwards
one unless its id equals the last id it saw. A peer of the transport is a
connection, so a stale identity never names a newer one, as with the generation in
its peer ids. Counters use relaxed ordering in `NvPSSFusionHealthLatch`; the model
is sequentially consistent, and `FaultReleased` relies on a counter's store being
visible before the other thread's next iteration. In the gateway, registering is
one step although the code has two sections: only the listener registers, and the
heartbeat thread can only free the peer's own slot in between. The SDMs send
well-formed registrations every 30 s, so the rate limiter and the format check
have nothing to refuse and are left out. The RPC server recomputes a mask where the
code does, at each site, so a forgotten one would show. A release of a decision
module sends NORMAL or UNMUTE after its answer whether or not the answer could be
sent, as the code does. The object records copied into a command packet are left
out: no decision reads them. A fatal fault of the AI monitor's analyzer ends its
process within 500 ms (`emergencyShutdown`); what it does in that time is not
modelled.

**Refinements.** `SafeState` is what the request handlers, watchdogs and the
release of a decision module amount to: any cause may come and go, everything
active is latched, and the latch empties only in a step that finds nothing active.
`AtlSafeState` and `SdmControl` implement it (`SafeStateContract`,
`ControlContract`), and the proximity, crossing and combined modules implement
`SdmControl` (`ControlSpec` in run `sdms`).

## 3. Runs

| Run | Shows |
|---|---|
| `delivery` | frames become events without a violation untold or a carriage invented; of the reports a refusal never ends before the SDMs were told, no verdict rolls back, a retry is the same request; the gateway that forwards them: a lost packet shows as a gap, a client that holds `gateway_comm` is owed its recovery, no connection is leaked |
| `live` | both lanes drain although PSD may never answer; a latched ATL module has the PLC in the hold although a command is lost |
| `daemon` | the fusion fault is up exactly as long as it should be; what the daemon holds failed the decision modules come to hold failed, restarts included, and the group's VALID withdraws a failure only if it was earned or the next loss follows behind it; the link to PSD survives restarts of either side and takes no late answer |
| `atl` | the latch contract; a fault during a release survives it; a lost source keeps its sub-cause; a MUTE at rest is justified |
| `links` | an SDM is registered again once the gateway is back, through refusals, drops, failing polls and heartbeat tiers; over UDP that loses and reorders the hold arrives and a latch can be released |
| `sdms` | the same contract for three modules; hold on the PLC at rest; worst case wins, over a full pair table too; the siren starts at once and ends; acknowledgments are genuine |
| `rpc` | every absence of an expected source is announced; the published masks are exact; a call succeeds only with its own answer, although numbers recur; no release by the latch manager without what warrants it |
| `saim` | a lost stream is not trusted again before frames were seen; the verdict of a camera under its three producers is the one PSS ends up with, as long as the connection of the registration lives |
| `perception` | the pipeline verdict of the perception monitor, and the units and the end of a camera session |

Three runs show where the code does not do what its comments say (quoted in
`PROJECT.json`): `delivery_forgotten` (a retry overwrites `ERROR_ACTIVE` with
`RETRYING`, so a request stamped NORMAL ends a failure the SDMs were never told
of), `pending` (an ordinary event of the camera group withdraws the group's
failure while every camera initialises) and `self_healing` (the AI monitor
registers with PSS once; after a restart of PSS it goes on using the dead socket,
and its 30 s re-assertion never arrives).

Statements of comments that the model refutes and that no run repeats are kept
with their component: `RefusedHarmless` (`AtlProximitySdm`), `ReassertCurrent`
(`CrossingSdm`), `DoubtRenewed` and `UnnamedHeld` (`LatchManager`),
`StaleEntriesSkipped` (`RpcClient`), `SuppressionKnown` (`SaimVerdict`). The
hazards of `PROJECT.json` name the lines.

**Bounds.** Each is the smallest at which the interesting case happens.
`delivery`: lanes of three and batches of two, so a lane is full while a batch is
in flight, a late event is inserted before a batch being retried and a victim lies
outside the protected slots; six reports reach a second refusal between the
drained check and the clear. One attempt per request; with two,
`FailureHeldUntilTold` fails (`delivery_forgotten`). Two sensors and ordinals up to
four let rate selection interleave; one tracked pair makes the tracker full.
`live`: a lane of one overflows, two outer attempts separate retained from
abandoned. `daemon`: three stages with thresholds of two and three, streaks up to
three (no wrap); two cameras in one group, three reports, one restart of the SDM
and two events in transit; three connections over two client ids, so an id is
reused, and two event types of which a message carries one, so a replay can fail
half way. `atl`: four scenarios of four to seven requests; one warning tier, three
misses and one person make every tier and the count drift reachable; no command is
lost there. For the gateway of `delivery`: two SDMs and two slots, so stale
entries fill the table; PSS ids wrap at two; six budgets choose which disturbances
abound; packet numbers do not wrap (2^32 packets). `links`: two disturbances of the
gateway or refused sends, a tier budget of none or three; one latch, two packets
under way. `sdms`: command numbers modulo two, so a number is reused, but an
acknowledgment delayed over a full turn of the counter (2^16 commands) is dropped
(`Recent`); a pair table of two, so batches of pairs fill it, and the pairs of the
requests; a clock of three or four ticks past every hold. `rpc`: two Safety Monitor
processes compete for one identity beside one MDX client over two slots; call
numbers modulo three with two calls unanswered, so numbers recur; two log lines
unread, and a scene with a latch whose cause the log does not name. `saim`: two
sessions, a counter of two, one PSS restart and one refused report. `perception`: two containers, one camera and a
stranger; five packets over sequence numbers modulo six, a queue of two.

**Symmetry** is used in `rpc` only (the two Safety Monitor processes), which has
no liveness property.

**Deadlock** is checked in `atl`. Elsewhere the bounds on what comes from outside
are used up in the end, and nothing more has to happen.

**Fairness.** Weak fairness of a thread's own loop, never of its environment,
with one exception: `live`: the sender, its gate and back-off timers; the
periodic thread and, once begun, listener and release. `daemon`: the trust
threads and the delivery; the server, the sender and the gateway's threads and the
restart of a dead daemon by its supervisor. The periodic thread runs with the default repeat interval;
an interval of zero switches it off. `saim`: the producers once begun, the
reporter's loop, and its timer. `perception`: the tick, and the steps of the two
session threads. `links`: the steps of the SDM's process and its clock (the gateway
comes back for good only in the premise of `RegisteredAgain`); the evaluator, the
watchdog, the reading of a packet, and, the exception, strong fairness of a
repeated hold getting through: UDP may lose any packet but not every one for ever.

## 4. Proofs

TLAPS proves these for every value of the constants.

- `RequestProofs`: lemmas on what one decision request does to presence, input
  state, the AI verdict and the sub-causes (`PresenceFacts`, `InputFacts`,
  `AiFacts`, `SwFailFacts`), used for all decision modules.
- `AtlSafeStateProofs`. `ContractKept`: `AtlSafeState` implements `SafeState`. The
  invariant `Latched` says that every active flag has its latch bit and an active
  PSS sub-cause has `Pss` latched; each action leaves the latch at least as large,
  or is `ReleaseClear`, which re-reads the active causes. `LossIsHeld`,
  `SuppressionIsExact` and `FaultSurvivesRelease` need the places of the threads
  (`Places`). `MuteIsJustified`: a MUTE at rest is allowed. Its invariant `Covered`
  says that while the PLC is at MUTE, or a decision for MUTE is about to be sent,
  any reason against it has a thread that owes the correction (`Debtor`) or will
  look again (`Reconsiders`).
- `SdmProofs`. `ContractKept` and `LossIsHeld`: the same of `SdmControl`.
  `HoldIsOnPlc`: at rest and with no command lost the PLC is in STOP whenever a hold
  stands. Its invariant `HoldOwed` says who still owes the packet: for each reason
  to hold, the PLC has it or some thread stands at a place from which it cannot
  come to rest without sending. `ControlIsTyped` carries the places of the threads.
- `DecisionProofs`. `ProximityImplements`, `CrossingImplements` and
  `AtlProximityImplements`: the three modules implement `SdmControl`, so its
  theorems hold of them (`ModulesHold`). `WorstCaseDecides`: over any batch.
  `SirenIsTimely` and `AlarmIsNamed` rest on `ZoneInv`, which relates a junction to
  the last report of each camera and kind. `PairsAreHonoured` rests on
  `EntriesNewest` and `Complete` (a table that never refused knows every live pair)
  and, for a full table, on counting the entries at least as severe.
- `DaemonProofs`. `FaultIsHeld`: a stage past its threshold has the fault up. At
  the clear one must know that a stage found healthy earlier in the loop is still
  below its threshold or its owner waits to raise (`ScannedHealthy`).
  `FaultIsReleased`: all healthy and at rest, the fault is down, as long as no
  streak wraps (`MaxStreak < StreakWidth`; it takes 2^32 failures). `NoVerdictLost`
  and `WithdrawalEarned`: what stands in the RPC queue, the input queue and the
  critical lane, read in order, ends with the truth about every source
  (`TrustInv`). `AcksAreGenuine`: two commands of one number are a turn of the
  counter apart. `AnswersAreGenuine` and `WaiterIsTold`: whoever waits has its
  mailbox armed for its request and its peer alive, or its loss is being told
  (`LinkInv`).
- `GatewayAndLatchProofs`. `NothingLeaks` and `OneSlotEach`: two-stage admission.
  The two need each other and `NoneFromTheFuture`: a connection in the table or the
  transport has been made, so a new one cannot already be registered.
  `ReleasesAreWarranted`: the unread lines lead, one from the next, from the state
  of the SDM the manager last read of to the one it is in (`Chain`), and what the
  manager believes fits the state its last line was written in (`Believes`).
- `RpcProofs`. `StatusIsExact`: each operation leaves the masks and the cache equal
  to what the slots say (`Derived`, `Monitored`). `NoSilentAbsence`: a latched
  client is in one of the two lists (`Leaving`), and an entry whose slot was reused
  in the meantime names a client too young to be latched (`Outlived`).
  `SuccessIsGenuine`: the requests and answers on a connection, in order, carry
  consecutive numbers ending with the current call (`Lined`).

What a fold over a batch computes is proved by a least counterexample
(`LeastNat`), since the library's induction theorems cannot be instantiated by the
installed provers. Leaves that need no arithmetic name Zenon.

**Assumptions**, evaluated by TLC in every run that extends the module. Most give
the constants their types: `AtlAssumption`, `ControlAssumption`,
`GatewayAssumption`, `PsdLinkAssumption`, `AckAssumption`, `PairAssumption`,
`JunctionAssumption`, `FusionConstants` (one owner per stage). Those that say more:
`SourceAssumption` and `RequestAssumption` (a request is a finite batch whose
reports name known sources, a SW_FAIL those of its own group);
`ProximityAssumption` (a configuration is a list; physical and health events
differ); `CrossingAssumption` and `AtlProximityAssumption` (the events of a batch
are those the modules subscribe to, a batch is no longer than the pair table);
`TrustAssumption` (finitely many cameras); `RpcAssumption` (a turn of the server's
loop, 100 ms, sees no more ticks of 5 s than a client may miss);
`ClientAssumption` (fewer calls are unanswered on a connection than the counter has
numbers, 2^32); `LatchAssumption` (no cause of the configuration has one of the two
reserved names).

Only model-checked: all liveness (fairness and ENABLED are out of the prover's
reach), and of the invariants and action properties those of the delivery lanes,
the VSS client, the gateway's debts and gaps, the AI monitor, the RTSP session and
the perception monitor.

## 5. Not modelled

Correlation and fusion of safety events (numeric windows and similarity), the
socket layer under the transport, message validation (field ranges and CRC), the
message bus and its codec, image analysis, audit records, configuration parsing,
the simulation and the reporting tools. `PROJECT.json` gives the reason per
component.
