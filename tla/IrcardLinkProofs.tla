-------------------------- MODULE IrcardLinkProofs --------------------------
(***************************************************************************)
(* IInv is an inductive invariant of IrcardLink, for every bound on the    *)
(* number of configurations: whatever fails, and however events, timer,    *)
(* detach and unloading interleave, no resource is leaked and nothing      *)
(* refers to freed memory.                                                 *)
(***************************************************************************)
EXTENDS IrcardLink, TLAPS

USE DEF Flags, Resources

(* Nothing is allocated and nothing is held at first.                      *)
LEMMA InitIInv == Init => IInv
<1> SUFFICES ASSUME Init PROVE IInv
  OBVIOUS
<1>1. /\ listed \in BOOLEAN /\ handle \in BOOLEAN /\ bound \in BOOLEAN /\ timer \in BOOLEAN
      /\ up \in BOOLEAN /\ stop \in BOOLEAN /\ card \in BOOLEAN /\ unloading \in BOOLEAN
  BY Zenon DEF Init
<1>2. mem \in {"none", "live", "freed"} /\ state \subseteq Flags /\ held \subseteq Resources
      /\ config = "idle" /\ opens \in 0 .. MaxOpens
  BY OpensAssumption DEF Init
<1>3. TypeOK
  BY <1>1, <1>2 DEF TypeOK
<1>4. ~listed /\ ~handle /\ ~bound /\ ~timer
  BY Zenon DEF Init
<1>5. mem = "none" /\ held = {}
  BY DEF Init
<1>6. Lifetime /\ Configuring /\ Releasing /\ NoLeak
  BY <1>2, <1>4, <1>5 DEF Lifetime, Configuring, Releasing, NoLeak, Settled
<1> QED BY <1>3, <1>6 DEF IInv

(* ircard_attach, whether RegisterClient succeeds or not, starts afresh.   *)
LEMMA AttachIInv == ASSUME IInv, NEW ok \in BOOLEAN, ircard_attach(ok) PROVE IInv'
<1>1. listed' \in BOOLEAN /\ handle' \in BOOLEAN /\ bound' \in BOOLEAN
      /\ up' \in BOOLEAN /\ stop' \in BOOLEAN
  BY Zenon DEF ircard_attach
<1>2. timer' \in BOOLEAN /\ card' \in BOOLEAN /\ unloading' \in BOOLEAN
  BY Zenon DEF ircard_attach, IInv, TypeOK
<1>3. mem' \in {"none", "live", "freed"} /\ state' \subseteq Flags /\ held' \subseteq Resources
      /\ config' = "idle" /\ opens' \in 0 .. MaxOpens
  BY OpensAssumption DEF ircard_attach
<1>4. TypeOK'
  BY <1>1, <1>2, <1>3 DEF TypeOK
<1>5. Lifetime'
  BY DEF ircard_attach, IInv, TypeOK, Lifetime
<1>6. Configuring' /\ Releasing'
  BY DEF ircard_attach, IInv, TypeOK, Configuring, Releasing
<1>7. NoLeak'
  BY DEF ircard_attach, NoLeak, Settled
<1> QED BY <1>4, <1>5, <1>6, <1>7 DEF IInv

(* Freeing an instance that holds nothing and has no timer running.        *)
LEMMA FreeIInv ==
  ASSUME IInv, Free, config = "idle", bound' = FALSE, up' \in BOOLEAN,
         state' \subseteq Flags, held' = {}, timer => unloading,
         UNCHANGED <<timer, config, stop, card, unloading>>
  PROVE  IInv'
<1>1. listed' \in BOOLEAN /\ handle' \in BOOLEAN /\ bound' \in BOOLEAN
  BY Zenon DEF Free
<1>2. timer' \in BOOLEAN /\ stop' \in BOOLEAN /\ card' \in BOOLEAN /\ unloading' \in BOOLEAN
  BY Zenon DEF IInv, TypeOK
<1>3. opens' \in 0 .. MaxOpens
  BY OpensAssumption DEF Free, IInv, TypeOK
<1>4. ~listed' /\ ~handle' /\ ~bound' /\ mem' = "freed"
  BY Zenon DEF Free
<1>5. TypeOK'
  BY <1>1, <1>2, <1>3, <1>4 DEF TypeOK
<1>6. timer' => unloading'
  OBVIOUS
<1>7. Lifetime' /\ Configuring' /\ Releasing' /\ NoLeak'
  BY <1>4, <1>6 DEF Lifetime, Configuring, Releasing, NoLeak, Settled
<1> QED BY <1>5, <1>7 DEF IInv

(* ircard_detach frees or marks the link as stale.                         *)
LEMMA DetachIInv == IInv /\ ircard_detach => IInv'
<1> SUFFICES ASSUME IInv, ircard_detach PROVE IInv'
  OBVIOUS
<1>a. mem = "live" /\ config = "idle"
  BY DEF ircard_detach, IInv, Lifetime
<1>b. bound' = FALSE /\ UNCHANGED <<held, timer, config, stop, card, unloading>>
  BY Zenon DEF ircard_detach
<1>1. CASE DetachFrees(state)
  <2>1. Free /\ up' = FALSE /\ UNCHANGED state
    BY <1>1, Zenon DEF ircard_detach
  <2>2. up' \in BOOLEAN
    BY <2>1, Zenon
  <2>3. held' = {} /\ ~timer
    BY <1>1, <1>a, <1>b DEF DetachFrees, IInv, Releasing, NoLeak, Settled
  <2>4. state' \subseteq Flags
    BY <2>1 DEF IInv, TypeOK
  <2> QED BY <1>a, <1>b, <2>1, <2>2, <2>3, <2>4, FreeIInv
<1>2. CASE ~DetachFrees(state)
  <2>1. state' = state \union {"STALE_LINK"} /\ UNCHANGED <<handle, listed, opens, mem, up>>
    BY <1>2, Zenon DEF ircard_detach
  <2>2. bound' \in BOOLEAN /\ ~bound'
    BY <1>b, Zenon
  <2>3. TypeOK'
    BY <1>b, <2>1, <2>2 DEF IInv, TypeOK
  <2>4. Lifetime' /\ Configuring' /\ Releasing' /\ NoLeak'
    BY <1>a, <1>b, <2>1, <2>2 DEF IInv, Lifetime, Configuring, Releasing, NoLeak, Settled
  <2> QED BY <2>3, <2>4 DEF IInv
<1> QED BY <1>1, <1>2

(* CARD_INSERTION begins a configuration with nothing held.                *)
LEMMA CardInsertionIInv == IInv /\ CardInsertion => IInv'
<1> SUFFICES ASSUME IInv, CardInsertion PROVE IInv'
  OBVIOUS
<1>1. TypeOK'
  BY OpensAssumption DEF CardInsertion, Events, ConfigFrame, IInv, TypeOK, Lifetime, Configuring
<1>2. Lifetime'
  BY DEF CardInsertion, Events, ConfigFrame, IInv, TypeOK, Lifetime, Configuring
<1>3. Configuring'
  <2>1. "CONFIG" \notin state /\ held = {}
    BY DEF CardInsertion, Events, IInv, Releasing, NoLeak, Settled
  <2> QED BY <2>1 DEF CardInsertion, ConfigFrame, Configuring
<1>4. Releasing'
  BY DEF CardInsertion, Events, ConfigFrame, IInv, TypeOK, Lifetime, Configuring, Releasing
<1>5. NoLeak'
  BY DEF CardInsertion, Events, ConfigFrame, IInv, TypeOK, Lifetime, Configuring, NoLeak, Settled
<1> QED BY <1>1, <1>2, <1>3, <1>4, <1>5 DEF IInv

(* A failed CS_CHECK releases all that was got so far.                     *)
LEMMA ConfigFailsIInv == IInv /\ ConfigFails => IInv'
<1> SUFFICES ASSUME IInv, ConfigFails PROVE IInv'
  OBVIOUS
<1>1. TypeOK'
  BY OpensAssumption DEF ConfigFails, CsFailed, ircard_release, ReleasedState, ReleasedHeld, LinkOpen, ConfigFrame, IInv, TypeOK, Lifetime, Configuring
<1>2. Lifetime'
  BY DEF ConfigFails, CsFailed, ircard_release, ReleasedState, ReleasedHeld, LinkOpen, ConfigFrame, IInv, TypeOK, Lifetime, Configuring
<1>3. Configuring'
  BY DEF ConfigFails, CsFailed, ircard_release, ReleasedState, ReleasedHeld, LinkOpen, ConfigFrame, IInv, TypeOK, Lifetime, Configuring, Releasing
<1>4. Releasing'
  BY DEF ConfigFails, CsFailed, ircard_release, ReleasedState, ReleasedHeld, LinkOpen, ConfigFrame, IInv, TypeOK, Lifetime, Configuring, Releasing
<1>5. NoLeak'
  BY DEF ConfigFails, CsFailed, ircard_release, ReleasedState, ReleasedHeld, LinkOpen, ConfigFrame, IInv, TypeOK, Lifetime, Configuring, NoLeak, Settled
<1> QED BY <1>1, <1>2, <1>3, <1>4, <1>5 DEF IInv

(* The configuration flag is set before anything is requested.             *)
LEMMA ReadConfigTupleIInv == IInv /\ ReadConfigTuple => IInv'
<1> SUFFICES ASSUME IInv, ReadConfigTuple PROVE IInv'
  OBVIOUS
<1>1. TypeOK'
  BY OpensAssumption DEF ReadConfigTuple, ConfigFrame, IInv, TypeOK, Lifetime, Configuring
<1>2. Lifetime'
  BY DEF ReadConfigTuple, ConfigFrame, IInv, TypeOK, Lifetime, Configuring
<1>3. Configuring'
  BY DEF ReadConfigTuple, ConfigFrame, IInv, TypeOK, Lifetime, Configuring, Releasing
<1>4. Releasing'
  BY DEF ReadConfigTuple, ConfigFrame, IInv, TypeOK, Lifetime, Configuring, Releasing
<1>5. NoLeak'
  BY DEF ReadConfigTuple, ConfigFrame, IInv, TypeOK, Lifetime, Configuring, NoLeak, Settled
<1> QED BY <1>1, <1>2, <1>3, <1>4, <1>5 DEF IInv

(* The IO range comes first.                                               *)
LEMMA RequestIOIInv == IInv /\ RequestIO => IInv'
<1> SUFFICES ASSUME IInv, RequestIO PROVE IInv'
  OBVIOUS
<1>1. TypeOK'
  BY OpensAssumption DEF RequestIO, ConfigFrame, IInv, TypeOK, Lifetime, Configuring
<1>2. Lifetime'
  BY DEF RequestIO, ConfigFrame, IInv, TypeOK, Lifetime, Configuring
<1>3. Configuring'
  BY DEF RequestIO, ConfigFrame, IInv, TypeOK, Lifetime, Configuring, Releasing
<1>4. Releasing'
  BY DEF RequestIO, ConfigFrame, IInv, TypeOK, Lifetime, Configuring, Releasing
<1>5. NoLeak'
  BY DEF RequestIO, ConfigFrame, IInv, TypeOK, Lifetime, Configuring, NoLeak, Settled
<1> QED BY <1>1, <1>2, <1>3, <1>4, <1>5 DEF IInv

(* A window, when the entry has one.                                       *)
LEMMA RequestWindowIInv == IInv /\ RequestWindow => IInv'
<1> SUFFICES ASSUME IInv, RequestWindow PROVE IInv'
  OBVIOUS
<1>1. TypeOK'
  BY OpensAssumption DEF RequestWindow, ConfigFrame, IInv, TypeOK, Lifetime, Configuring
<1>2. Lifetime'
  BY DEF RequestWindow, ConfigFrame, IInv, TypeOK, Lifetime, Configuring
<1>3. Configuring'
  BY DEF RequestWindow, ConfigFrame, IInv, TypeOK, Lifetime, Configuring, Releasing
<1>4. Releasing'
  BY DEF RequestWindow, ConfigFrame, IInv, TypeOK, Lifetime, Configuring, Releasing
<1>5. NoLeak'
  BY DEF RequestWindow, ConfigFrame, IInv, TypeOK, Lifetime, Configuring, NoLeak, Settled
<1> QED BY <1>1, <1>2, <1>3, <1>4, <1>5 DEF IInv

(* The interrupt line.                                                     *)
LEMMA RequestIRQIInv == IInv /\ RequestIRQ => IInv'
<1> SUFFICES ASSUME IInv, RequestIRQ PROVE IInv'
  OBVIOUS
<1>1. TypeOK'
  BY OpensAssumption DEF RequestIRQ, ConfigFrame, IInv, TypeOK, Lifetime, Configuring
<1>2. Lifetime'
  BY DEF RequestIRQ, ConfigFrame, IInv, TypeOK, Lifetime, Configuring
<1>3. Configuring'
  BY DEF RequestIRQ, ConfigFrame, IInv, TypeOK, Lifetime, Configuring, Releasing
<1>4. Releasing'
  BY DEF RequestIRQ, ConfigFrame, IInv, TypeOK, Lifetime, Configuring, Releasing
<1>5. NoLeak'
  BY DEF RequestIRQ, ConfigFrame, IInv, TypeOK, Lifetime, Configuring, NoLeak, Settled
<1> QED BY <1>1, <1>2, <1>3, <1>4, <1>5 DEF IInv

(* The configuration itself.                                               *)
LEMMA RequestConfigurationIInv == IInv /\ RequestConfiguration => IInv'
<1> SUFFICES ASSUME IInv, RequestConfiguration PROVE IInv'
  OBVIOUS
<1>1. TypeOK'
  BY OpensAssumption DEF RequestConfiguration, ConfigFrame, IInv, TypeOK, Lifetime, Configuring
<1>2. Lifetime'
  BY DEF RequestConfiguration, ConfigFrame, IInv, TypeOK, Lifetime, Configuring
<1>3. Configuring'
  BY DEF RequestConfiguration, ConfigFrame, IInv, TypeOK, Lifetime, Configuring, Releasing
<1>4. Releasing'
  BY DEF RequestConfiguration, ConfigFrame, IInv, TypeOK, Lifetime, Configuring, Releasing
<1>5. NoLeak'
  BY DEF RequestConfiguration, ConfigFrame, IInv, TypeOK, Lifetime, Configuring, NoLeak, Settled
<1> QED BY <1>1, <1>2, <1>3, <1>4, <1>5 DEF IInv

(* The end of a configuration that succeeded.                              *)
LEMMA IrdaDeviceOpenIInv == IInv /\ IrdaDeviceOpen => IInv'
<1> SUFFICES ASSUME IInv, IrdaDeviceOpen PROVE IInv'
  OBVIOUS
<1>1. TypeOK'
  BY OpensAssumption DEF IrdaDeviceOpen, ConfigFrame, IInv, TypeOK, Lifetime, Configuring
<1>2. Lifetime'
  BY DEF IrdaDeviceOpen, ConfigFrame, IInv, TypeOK, Lifetime, Configuring
<1>3. Configuring'
  BY DEF IrdaDeviceOpen, ConfigFrame, IInv, TypeOK, Lifetime, Configuring, Releasing
<1>4. Releasing'
  BY DEF IrdaDeviceOpen, ConfigFrame, IInv, TypeOK, Lifetime, Configuring, Releasing
<1>5. NoLeak'
  BY DEF IrdaDeviceOpen, ConfigFrame, IInv, TypeOK, Lifetime, Configuring, NoLeak, Settled
<1> QED BY <1>1, <1>2, <1>3, <1>4, <1>5 DEF IInv

(* CARD_REMOVAL starts the release timer of a configured instance.         *)
LEMMA CardRemovalIInv == IInv /\ CardRemoval => IInv'
<1> SUFFICES ASSUME IInv, CardRemoval PROVE IInv'
  OBVIOUS
<1>1. TypeOK'
  BY OpensAssumption DEF CardRemoval, Events, IInv, TypeOK, Lifetime, Configuring
<1>2. Lifetime'
  BY DEF CardRemoval, Events, IInv, TypeOK, Lifetime, Configuring
<1>3. Configuring'
  BY DEF CardRemoval, Events, IInv, TypeOK, Lifetime, Configuring, Releasing
<1>4. Releasing'
  BY DEF CardRemoval, Events, IInv, TypeOK, Lifetime, Configuring, Releasing
<1>5. NoLeak'
  BY DEF CardRemoval, Events, IInv, TypeOK, Lifetime, Configuring, NoLeak, Settled
<1> QED BY <1>1, <1>2, <1>3, <1>4, <1>5 DEF IInv

(* The timer releases; after unloading it finds freed memory.              *)
LEMMA TimerExpiresIInv == IInv /\ TimerExpires => IInv'
<1> SUFFICES ASSUME IInv, TimerExpires PROVE IInv'
  OBVIOUS
<1>1. TypeOK'
  BY OpensAssumption DEF TimerExpires, ircard_release, ReleasedState, ReleasedHeld, LinkOpen, IInv, TypeOK, Lifetime, Configuring
<1>2. Lifetime'
  BY DEF TimerExpires, ircard_release, ReleasedState, ReleasedHeld, LinkOpen, IInv, TypeOK, Lifetime, Configuring
<1>3. Configuring'
  BY DEF TimerExpires, ircard_release, ReleasedState, ReleasedHeld, LinkOpen, IInv, TypeOK, Lifetime, Configuring, Releasing
<1>4. Releasing'
  BY DEF TimerExpires, ircard_release, ReleasedState, ReleasedHeld, LinkOpen, IInv, TypeOK, Lifetime, Configuring, Releasing
<1>5. NoLeak'
  BY DEF TimerExpires, ircard_release, ReleasedState, ReleasedHeld, LinkOpen, IInv, TypeOK, Lifetime, Configuring, NoLeak, Settled
<1> QED BY <1>1, <1>2, <1>3, <1>4, <1>5 DEF IInv

(* PM_SUSPEND and RESET_PHYSICAL give the configuration back only.         *)
LEMMA SuspendIInv == ASSUME IInv, NEW flags \in {{}, {"SUSPEND"}}, Suspend(flags) PROVE IInv'
<1>1. TypeOK'
  BY OpensAssumption DEF Suspend, Events, IInv, TypeOK, Lifetime, Configuring
<1>2. Lifetime'
  BY DEF Suspend, Events, IInv, TypeOK, Lifetime, Configuring
<1>3. Configuring'
  BY DEF Suspend, Events, IInv, TypeOK, Lifetime, Configuring, Releasing
<1>4. Releasing'
  BY DEF Suspend, Events, IInv, TypeOK, Lifetime, Configuring, Releasing
<1>5. NoLeak'
  BY DEF Suspend, Events, IInv, TypeOK, Lifetime, Configuring, NoLeak, Settled
<1> QED BY <1>1, <1>2, <1>3, <1>4, <1>5 DEF IInv

(* PM_RESUME and CARD_RESET ask for it again when configured.              *)
LEMMA ResumeIInv == ASSUME IInv, NEW flags \in {{}, {"SUSPEND"}}, Resume(flags) PROVE IInv'
<1>1. TypeOK'
  BY OpensAssumption DEF Resume, Reconfigure, Events, IInv, TypeOK, Lifetime, Configuring
<1>2. Lifetime'
  BY DEF Resume, Reconfigure, Events, IInv, TypeOK, Lifetime, Configuring
<1>3. Configuring'
  BY DEF Resume, Reconfigure, Events, IInv, TypeOK, Lifetime, Configuring, Releasing
<1>4. Releasing'
  BY DEF Resume, Reconfigure, Events, IInv, TypeOK, Lifetime, Configuring, Releasing
<1>5. NoLeak'
  BY DEF Resume, Reconfigure, Events, IInv, TypeOK, Lifetime, Configuring, NoLeak, Settled
<1> QED BY <1>1, <1>2, <1>3, <1>4, <1>5 DEF IInv

(* The socket alone changes.                                               *)
LEMMA CardMovesIInv == IInv /\ CardMoves => IInv'
<1> SUFFICES ASSUME IInv, CardMoves PROVE IInv'
  OBVIOUS
<1>1. TypeOK'
  BY OpensAssumption DEF CardMoves, IInv, TypeOK, Lifetime, Configuring
<1>2. Lifetime'
  BY DEF CardMoves, IInv, TypeOK, Lifetime, Configuring
<1>3. Configuring'
  BY DEF CardMoves, IInv, TypeOK, Lifetime, Configuring, Releasing
<1>4. Releasing'
  BY DEF CardMoves, IInv, TypeOK, Lifetime, Configuring, Releasing
<1>5. NoLeak'
  BY DEF CardMoves, IInv, TypeOK, Lifetime, Configuring, NoLeak, Settled
<1> QED BY <1>1, <1>2, <1>3, <1>4, <1>5 DEF IInv

(* ircard_net_open.                                                        *)
LEMMA NetOpenIInv == IInv /\ NetOpen => IInv'
<1> SUFFICES ASSUME IInv, NetOpen PROVE IInv'
  OBVIOUS
<1>1. up' = TRUE
  BY Zenon DEF NetOpen
<1>2. up' \in BOOLEAN
  BY <1>1, Zenon
<1>3. UNCHANGED <<mem, listed, handle, bound, state, held, timer, config, opens, stop, card, unloading>>
  BY DEF NetOpen
<1>4. TypeOK'
  BY <1>2, <1>3 DEF IInv, TypeOK
<1>5. Lifetime'
  BY <1>1, <1>3, Zenon DEF IInv, Lifetime
<1>6. Configuring' /\ Releasing' /\ NoLeak'
  BY <1>3, Zenon DEF IInv, Configuring, Releasing, NoLeak, Settled
<1> QED BY <1>4, <1>5, <1>6 DEF IInv

(* ircard_net_close.                                                       *)
LEMMA NetCloseIInv == IInv /\ NetClose => IInv'
<1> SUFFICES ASSUME IInv, NetClose PROVE IInv'
  OBVIOUS
<1>1. up' = FALSE
  BY Zenon DEF NetClose
<1>2. up' \in BOOLEAN
  BY <1>1, Zenon
<1>3. UNCHANGED <<mem, listed, handle, bound, state, held, timer, config, opens, stop, card, unloading>>
  BY DEF NetClose
<1>4. TypeOK'
  BY <1>2, <1>3 DEF IInv, TypeOK
<1>5. Lifetime'
  BY <1>1, <1>3, Zenon DEF IInv, Lifetime
<1>6. Configuring' /\ Releasing' /\ NoLeak'
  BY <1>3, Zenon DEF IInv, Configuring, Releasing, NoLeak, Settled
<1> QED BY <1>4, <1>5, <1>6 DEF IInv

(* cleanup_module begins.                                                  *)
LEMMA CleanupModuleIInv == IInv /\ CleanupModule => IInv'
<1> SUFFICES ASSUME IInv, CleanupModule PROVE IInv'
  OBVIOUS
<1>1. unloading' = TRUE
  BY Zenon DEF CleanupModule
<1>2. unloading' \in BOOLEAN
  BY <1>1, Zenon
<1>3. UNCHANGED <<mem, listed, handle, bound, state, held, timer, config, opens, up, stop, card>>
  BY DEF CleanupModule
<1>4. TypeOK'
  BY <1>2, <1>3 DEF IInv, TypeOK
<1>5. Lifetime'
  BY <1>1, <1>3, Zenon DEF IInv, Lifetime
<1>6. Configuring' /\ Releasing' /\ NoLeak'
  BY <1>3, Zenon DEF IInv, Configuring, Releasing, NoLeak, Settled
<1> QED BY <1>4, <1>5, <1>6 DEF IInv

(* Steps that change nothing.                                              *)
LEMMA StutterIInv == IInv /\ UNCHANGED vars => IInv'
<1> SUFFICES ASSUME IInv, UNCHANGED vars PROVE IInv'
  OBVIOUS
<1>1. TypeOK'
  BY DEF vars, IInv, TypeOK
<1>2. Lifetime'
  BY Zenon DEF vars, IInv, Lifetime
<1>3. Configuring' /\ Releasing' /\ NoLeak'
  BY Zenon DEF vars, IInv, Configuring, Releasing, NoLeak, Settled
<1> QED BY <1>1, <1>2, <1>3 DEF IInv

(* A turn of the loop of cleanup_module releases before it detaches.       *)
LEMMA CleanupTurnIInv == IInv /\ CleanupTurn => IInv'
<1> SUFFICES ASSUME IInv, CleanupTurn PROVE IInv'
  OBVIOUS
<1> DEFINE st == IF "CONFIG" \in state THEN ReleasedState(state) ELSE state
<1>1. DetachFrees(st)
  BY DEF DetachFrees, ReleasedState, LinkOpen
<1>2. Free /\ bound' = FALSE /\ state' = st
  BY <1>1, Zenon DEF CleanupTurn
<1>3. config = "idle" /\ UNCHANGED <<timer, config, up, stop, card, unloading>>
  BY Zenon DEF CleanupTurn
<1>4. mem = "live"
  BY DEF CleanupTurn, IInv, Lifetime
<1>5. held' = {}
  BY <1>3, <1>4 DEF CleanupTurn, ReleasedHeld, LinkOpen, IInv, NoLeak, Settled
<1>6. state' \subseteq Flags
  BY <1>2 DEF ReleasedState, LinkOpen, IInv, TypeOK
<1>7. up' \in BOOLEAN /\ (timer => unloading)
  BY <1>3, Zenon DEF CleanupTurn, IInv, TypeOK
<1> QED BY <1>2, <1>3, <1>5, <1>6, <1>7, FreeIInv


-----------------------------------------------------------------------------
(* Every step of the driver, of Card Services, of the timers and of the    *)
(* socket keeps IInv.                                                      *)
LEMMA NextIInv == IInv /\ [Next]_vars => IInv'
<1> SUFFICES ASSUME IInv, [Next]_vars PROVE IInv'
  OBVIOUS
<1>1. ASSUME NEW ok \in BOOLEAN, ircard_attach(ok) PROVE IInv'
  BY <1>1, AttachIInv
<1>2. CASE ircard_detach
  BY <1>2, DetachIInv
<1>3. CASE CardInsertion
  BY <1>3, CardInsertionIInv
<1>4. CASE ConfigFails
  BY <1>4, ConfigFailsIInv
<1>5. CASE ReadConfigTuple
  BY <1>5, ReadConfigTupleIInv
<1>6. CASE RequestIO
  BY <1>6, RequestIOIInv
<1>7. CASE RequestWindow
  BY <1>7, RequestWindowIInv
<1>8. CASE RequestIRQ
  BY <1>8, RequestIRQIInv
<1>9. CASE RequestConfiguration
  BY <1>9, RequestConfigurationIInv
<1>10. CASE IrdaDeviceOpen
  BY <1>10, IrdaDeviceOpenIInv
<1>11. CASE CardRemoval
  BY <1>11, CardRemovalIInv
<1>12. CASE TimerExpires
  BY <1>12, TimerExpiresIInv
<1>13. ASSUME NEW flags \in {{}, {"SUSPEND"}}, Suspend(flags) PROVE IInv'
  BY <1>13, SuspendIInv
<1>14. ASSUME NEW flags \in {{}, {"SUSPEND"}}, Resume(flags) PROVE IInv'
  BY <1>14, ResumeIInv
<1>15. CASE CardMoves
  BY <1>15, CardMovesIInv
<1>16. CASE NetOpen
  BY <1>16, NetOpenIInv
<1>17. CASE NetClose
  BY <1>17, NetCloseIInv
<1>18. CASE CleanupModule
  BY <1>18, CleanupModuleIInv
<1>19. CASE CleanupTurn
  BY <1>19, CleanupTurnIInv
<1>20. CASE UNCHANGED vars
  BY <1>20, StutterIInv
<1> QED BY <1>1, <1>2, <1>3, <1>4, <1>5, <1>6, <1>7, <1>8, <1>9, <1>10, <1>11, <1>12,
           <1>13, <1>14, <1>15, <1>16, <1>17, <1>18, <1>19, <1>20 DEF Next

(* The inductive invariant holds in every state of every behaviour, for    *)
(* every bound on the configurations of an instance.                       *)
THEOREM Inductive == Spec => []IInv
BY InitIInv, NextIInv, PTL DEF Spec

(* The variables of a dev_link_t and its ircard_cb keep their types;       *)
(* irda_device_open was not called more often than there were              *)
(* configurations, and its calls are never undone more than once.          *)
THEOREM TypeCorrect == Spec => []TypeOK
<1>1. IInv => TypeOK
  BY DEF IInv
<1> QED BY <1>1, Inductive, PTL

(* Whichever step of ircard_config fails, and however card events, the     *)
(* release timer, suspend and unloading follow: an instance that is not    *)
(* configured holds no resource of Card Services.                          *)
THEOREM NoLeakAlways == Spec => []NoLeak
<1>1. IInv => NoLeak
  BY DEF IInv
<1> QED BY <1>1, Inductive, PTL

(* What ircard_detach frees is referred to by no resource, no event, not   *)
(* by dev_list and, until cleanup_module ran, by no release timer.         *)
THEOREM FreedForgotten == Spec => []FreedIsForgotten
<1>1. IInv => FreedIsForgotten
  BY DEF IInv, Lifetime, FreedIsForgotten
<1> QED BY <1>1, Inductive, PTL
=============================================================================
