----------------------------- MODULE IrcardLink -----------------------------
(***************************************************************************)
(* The life of one instance (a dev_link_t and its ircard_cb) of the PCMCIA *)
(* driver pcmcia/ircard_cs.c: attach, configuration of an inserted card,   *)
(* card events, the release timer, detach, opening and closing of the net  *)
(* device, unloading of the module.                                        *)
(*                                                                         *)
(* Card Services and Driver Services are external: any request may fail, a *)
(* request fails when the card is not there, a release succeeds, events of *)
(* one client are delivered one at a time, and a new card is announced     *)
(* only after the shutdown delay, which is longer than the release timer's *)
(* HZ/20.  ircard_config runs inside the delivery of an event; only the    *)
(* card being pulled out interleaves with its steps.                       *)
(*                                                                         *)
(* A definition followed by one it differs from in one place is a faulty   *)
(* variant of it, used only to see the properties fail.                    *)
(***************************************************************************)
EXTENDS Integers

CONSTANT MaxOpens  \* bound on the configurations of one instance

ASSUME OpensAssumption == MaxOpens \in Nat

VARIABLES
  mem,        \* the instance's memory: "none", "live" or "freed"
  listed,     \* it is on dev_list
  handle,     \* it is registered with Card Services
  bound,      \* Driver Services has it bound to the socket
  state,      \* link->state, without the DEV_ of its flags
  held,       \* resources held: "io", "win", "irq", "conf"
  timer,      \* link->release is pending
  config,     \* where ircard_config is
  opens,      \* calls of irda_device_open not undone by irda_device_close
  up,         \* the net device is open (and so the module is in use)
  stop,       \* self->stop
  card,       \* a card is in the socket
  unloading   \* cleanup_module has been called

vars == <<mem, listed, handle, bound, state, held, timer, config, opens, up,
          stop, card, unloading>>

Flags == {"PRESENT", "CONFIG", "CONFIG_PENDING", "STALE_LINK", "STALE_CONFIG",
          "SUSPEND"}
Resources == {"io", "win", "irq", "conf"}

Init ==
  /\ mem = "none" /\ listed = FALSE /\ handle = FALSE /\ bound = FALSE
  /\ state = {} /\ held = {} /\ timer = FALSE
  /\ config = "idle"
  /\ opens = 0 /\ up = FALSE /\ stop = FALSE
  /\ card \in BOOLEAN
  /\ unloading = FALSE

-----------------------------------------------------------------------------
(* Building blocks: what the handlers call.  Each is a function from the   *)
(* state it reads to the value it leaves.                                  *)

(* link->open: cleared with the structure, and never assigned after that.  *)
LinkOpen == FALSE

ReleasedState_KeepConfig(st) == st

ReleasedState(st) == IF LinkOpen THEN st \union {"STALE_CONFIG"}
                                 ELSE st \ {"CONFIG"}

ReleasedHeld(h) == IF LinkOpen THEN h ELSE {}

ircard_release ==
  /\ state' = ReleasedState(state)
  /\ held' = ReleasedHeld(held)

(* ircard_detach frees the instance unless it is configured.               *)
DetachFrees_Always(st) == TRUE

DetachFrees(st) == "CONFIG" \notin st

(* irda_device_close refuses a device that is not open (external).         *)
Free ==
  /\ handle' = FALSE
  /\ listed' = FALSE
  /\ opens' = IF opens > 0 THEN opens - 1 ELSE 0
  /\ mem' = "freed"

-----------------------------------------------------------------------------
(* ircard_attach: a failing RegisterClient detaches again.                 *)
ircard_attach(ok) ==
  /\ mem # "live" /\ ~unloading /\ ~timer
  /\ mem' = IF ok THEN "live" ELSE "freed"
  /\ listed' = ok /\ handle' = ok /\ bound' = ok
  /\ state' = {} /\ held' = {} /\ opens' = 0
  /\ up' = FALSE /\ stop' = FALSE /\ config' = "idle"
  /\ UNCHANGED <<timer, card, unloading>>

(* Driver Services unbinds the socket; the net device may still be open.   *)
ircard_detach ==
  /\ bound /\ config = "idle"
  /\ bound' = FALSE
  /\ IF DetachFrees(state)
     THEN Free /\ up' = FALSE /\ UNCHANGED state
     ELSE state' = state \union {"STALE_LINK"} /\ UNCHANGED <<handle, listed, opens, mem, up>>
  /\ UNCHANGED <<held, timer, config, stop, card, unloading>>

-----------------------------------------------------------------------------
(* ircard_config, run by a CARD_INSERTION event.  Every CS_CHECK that      *)
(* fails releases what is held; a CFG_CHECK that fails goes on with the    *)
(* next table entry and keeps what it already got.                         *)

Events == mem = "live" /\ handle /\ config = "idle"

ConfigFrame == UNCHANGED <<mem, listed, handle, bound, timer, up, stop, card, unloading>>

CardInsertion ==
  /\ Events /\ card /\ "PRESENT" \notin state /\ ~timer
  /\ opens < MaxOpens
  /\ state' = state \union {"PRESENT", "CONFIG_PENDING"}
  /\ config' = "tuples"
  /\ UNCHANGED <<held, opens>> /\ ConfigFrame

(* cs_failed                                                               *)
CsFailedNoRelease == UNCHANGED <<state, held>>

CsFailed == ircard_release

ConfigFails ==
  /\ config \in {"tuples", "next", "irq", "conf"}
  /\ CsFailed
  /\ config' = "idle"
  /\ UNCHANGED opens /\ ConfigFrame

ReadConfigTuple ==
  /\ config = "tuples" /\ card
  /\ state' = state \union {"CONFIG"}
  /\ config' = "next"
  /\ UNCHANGED <<held, opens>> /\ ConfigFrame

(* Entries that cannot be used, or whose IO range is refused, are passed   *)
(* over; IO is always refused once an earlier entry got some (CS_IN_USE).  *)
RequestIO ==
  /\ config = "next" /\ card /\ "io" \notin held
  /\ held' = held \union {"io"}
  /\ config' \in {"window", "irq"}
  /\ UNCHANGED <<state, opens>> /\ ConfigFrame

(* The window is asked for when the entry has one.  RequestWindow refused, *)
(* or MapMemPage refused or granted.                                *)
RequestWindow ==
  /\ config = "window"
  /\ \/ held' = held /\ config' = "next"
     \/ card /\ held' = held \union {"win"} /\ config' \in {"next", "irq"}
  /\ UNCHANGED <<state, opens>> /\ ConfigFrame

(* The interrupt line is requested when some entry named one.              *)
RequestIRQ ==
  /\ config = "irq"
  /\ \/ held' = held
     \/ card /\ held' = held \union {"irq"}
  /\ config' = "conf"
  /\ UNCHANGED <<state, opens>> /\ ConfigFrame

RequestConfiguration ==
  /\ config = "conf" /\ card
  /\ held' = held \union {"conf"}
  /\ config' = "open"
  /\ UNCHANGED <<state, opens>> /\ ConfigFrame

(* The rest sets idev up and opens the IrDA device.                        *)
IrdaDeviceOpen ==
  /\ config = "open"
  /\ opens' = opens + 1
  /\ state' = state \ {"CONFIG_PENDING"}
  /\ config' = "idle"
  /\ UNCHANGED held /\ ConfigFrame

-----------------------------------------------------------------------------
(* The other events and the release timer                                  *)

CardRemovalNoTimer ==
  /\ Events /\ ~card /\ "PRESENT" \in state
  /\ state' = state \ {"PRESENT"}
  /\ stop' = (stop \/ "CONFIG" \in state)
  /\ timer' = timer
  /\ UNCHANGED <<mem, listed, handle, bound, held, config, opens, up, card, unloading>>

CardRemoval ==
  /\ Events /\ ~card /\ "PRESENT" \in state
  /\ state' = state \ {"PRESENT"}
  /\ stop' = (stop \/ "CONFIG" \in state)
  /\ timer' = (timer \/ "CONFIG" \in state)
  /\ UNCHANGED <<mem, listed, handle, bound, held, config, opens, up, card, unloading>>

TimerExpires ==
  /\ timer
  /\ timer' = FALSE
  /\ IF mem = "live" THEN ircard_release ELSE UNCHANGED <<state, held>>
  /\ UNCHANGED <<mem, listed, handle, bound, config, opens, up, stop, card, unloading>>

(* PM_SUSPEND, RESET_PHYSICAL                                              *)
Suspend(flags) ==
  /\ Events /\ card
  /\ state' = state \union flags
  /\ stop' = TRUE
  /\ held' = IF "CONFIG" \in state THEN held \ {"conf"} ELSE held
  /\ UNCHANGED <<mem, listed, handle, bound, timer, config, opens, up, card, unloading>>

(* PM_RESUME, CARD_RESET: the result of RequestConfiguration is ignored.   *)
Reconfigure == held' \in (IF "CONFIG" \in state THEN {held, held \union {"conf"}}
                                                ELSE {held})

Resume(flags) ==
  /\ Events /\ card
  /\ state' = state \ flags
  /\ stop' = FALSE
  /\ Reconfigure
  /\ UNCHANGED <<mem, listed, handle, bound, timer, config, opens, up, card, unloading>>

(* The card is put in or pulled out (external).                            *)
CardMoves ==
  /\ card' = ~card
  /\ card' /\ handle => "PRESENT" \notin state
  /\ UNCHANGED <<mem, listed, handle, bound, state, held, timer, config, opens, up,
                 stop, unloading>>

-----------------------------------------------------------------------------
(* ircard_net_open and ircard_net_close                                    *)
NetOpen ==
  /\ mem = "live" /\ opens > 0 /\ ~up /\ config = "idle" /\ ~unloading
  /\ up' = TRUE
  /\ UNCHANGED <<mem, listed, handle, bound, state, held, timer, config, opens, stop,
                 card, unloading>>

NetClose ==
  /\ up /\ mem = "live" /\ config = "idle"
  /\ up' = FALSE
  /\ UNCHANGED <<mem, listed, handle, bound, state, held, timer, config, opens, stop,
                 card, unloading>>

(* cleanup_module runs when the module is not in use; each turn of its     *)
(* loop releases a configured instance and detaches it.                    *)
CleanupModule ==
  /\ ~unloading /\ ~up /\ config = "idle"
  /\ unloading' = TRUE
  /\ UNCHANGED <<mem, listed, handle, bound, state, held, timer, config, opens, up,
                 stop, card>>

CleanupTurn ==
  LET st == IF "CONFIG" \in state THEN ReleasedState(state) ELSE state IN
  /\ unloading /\ listed /\ config = "idle"
  /\ held' = IF "CONFIG" \in state THEN ReleasedHeld(held) ELSE held
  /\ IF DetachFrees(st)
     THEN Free /\ bound' = FALSE /\ state' = st
     ELSE state' = st \union {"STALE_LINK"} /\ UNCHANGED <<handle, listed, opens, mem, bound>>
  /\ UNCHANGED <<timer, config, up, stop, card, unloading>>

-----------------------------------------------------------------------------
ConfigStep ==
  \/ ConfigFails \/ ReadConfigTuple \/ RequestIO \/ RequestWindow \/ RequestIRQ
  \/ RequestConfiguration \/ IrdaDeviceOpen

Next ==
  \/ \E ok \in BOOLEAN : ircard_attach(ok)
  \/ ircard_detach
  \/ CardInsertion
  \/ ConfigFails \/ ReadConfigTuple \/ RequestIO \/ RequestWindow
  \/ RequestIRQ \/ RequestConfiguration \/ IrdaDeviceOpen
  \/ CardRemoval \/ TimerExpires
  \/ \E flags \in {{}, {"SUSPEND"}} : Suspend(flags)
  \/ \E flags \in {{}, {"SUSPEND"}} : Resume(flags)
  \/ CardMoves
  \/ NetOpen \/ NetClose
  \/ CleanupModule \/ CleanupTurn

(* The kernel runs expired timers, Card Services tells of a removed card,  *)
(* a configuration that began ends (the table is finite), and the loop of  *)
(* cleanup_module runs on, between the events that may still come.         *)
Fairness ==
  /\ WF_vars(TimerExpires) /\ WF_vars(CardRemoval)
  /\ WF_vars(ConfigStep) /\ SF_vars(CleanupTurn)

Spec     == Init /\ [][Next]_vars
FairSpec == Spec /\ Fairness

-----------------------------------------------------------------------------
(* Properties                                                              *)

(* Values the driver's variables may take.                                 *)
TypeOK ==
  /\ mem \in {"none", "live", "freed"}
  /\ listed \in BOOLEAN /\ handle \in BOOLEAN /\ bound \in BOOLEAN /\ timer \in BOOLEAN
  /\ up \in BOOLEAN /\ stop \in BOOLEAN /\ card \in BOOLEAN /\ unloading \in BOOLEAN
  /\ state \subseteq Flags /\ held \subseteq Resources
  /\ config \in {"idle", "tuples", "next", "window", "irq", "conf", "open"}
  /\ opens \in 0 .. MaxOpens

Settled == mem = "live" /\ config = "idle"

(* Whatever step of a configuration failed, and whatever events, timers    *)
(* and releases followed, an instance that is not marked configured holds  *)
(* no resource of Card Services, and one that is holds its IO range.       *)
NoLeak ==
  Settled => IF "CONFIG" \in state THEN "io" \in held ELSE held = {}

(* An instance is freed only when nothing refers to it any more: no        *)
(* resource, no event, not dev_list, and (until the module is unloaded)    *)
(* no pending release timer.                                               *)
FreedIsForgotten ==
  mem = "freed" => held = {} /\ ~handle /\ ~listed /\ (timer => unloading)

(* --- the inductive invariant behind them ------------------------------- *)

(* Registered, listed and allocated go together; what is not there is at   *)
(* rest, but for a timer the unloaded module left behind.                  *)
Lifetime ==
  /\ listed <=> mem = "live"
  /\ handle <=> mem = "live"
  /\ bound => mem = "live"
  /\ mem # "live" => held = {} /\ config = "idle" /\ (timer => unloading)

(* The steps of ircard_config and what they have got so far.               *)
Configuring ==
  /\ config # "idle" => "PRESENT" \in state /\ ~timer /\ opens < MaxOpens
  /\ config = "tuples" => "CONFIG" \notin state /\ held = {}
  /\ config \in {"next", "window", "irq", "conf", "open"} => "CONFIG" \in state
  /\ config \in {"window", "irq", "conf", "open"} => "io" \in held

(* The release timer runs exactly for a configured instance without card.  *)
Releasing ==
  mem = "live" /\ config = "idle" =>
    (timer <=> "CONFIG" \in state /\ "PRESENT" \notin state)

IInv == TypeOK /\ Lifetime /\ Configuring /\ Releasing /\ NoLeak

(* The resources of a card that was pulled out are given back, whether its *)
(* net device is open or not and whoever else is handling the instance.    *)
RemovedIsReleased == "CONFIG" \in state /\ ~card ~> "CONFIG" \notin state \/ card

(* The loop of cleanup_module ends: a detach that is always postponed      *)
(* would keep it running for ever.                                         *)
CleanupEnds == unloading ~> ~listed

(* "it is marked so that when the release() function is called, that will  *)
(* trigger a proper detach()" (line 212): no released instance is left     *)
(* marked as stale.                                                        *)
StaleLinkDetached == Settled /\ "STALE_LINK" \in state => "CONFIG" \in state
=============================================================================
