--------------------------- MODULE RuntimeHandles ---------------------------
(***************************************************************************)
(* The live-handle registry of lonejson runtimes (src/src/impl/30_api.h).  *)
(* A runtime is one allocation, the bundle, that holds the public wrapper  *)
(* `lonejson`, its state and the registry entry `live_handle`.  Client     *)
(* threads call the API through the owner pointer, or through by-value     *)
(* copies of the wrapper.  Calls pin the bundle (`active_pins`) while they *)
(* run; `lonejson_free` marks it closing, unlinks it, waits for the pins   *)
(* to drain and releases the memory, whose address may then be reused.     *)
(*                                                                         *)
(* A thread runs a stack of API calls: a call at depth d + 1 is made from  *)
(* a callback of the call at depth d.  One frame stands for one call.      *)
(* Sections under the registry spin lock are single steps; the lock-free   *)
(* owner path is split at every access to shared memory.                   *)
(***************************************************************************)
EXTENDS Naturals, FiniteSets

CONSTANTS
  Threads,            \* client threads
  Addrs,              \* addresses at which a bundle can be allocated
  Copies,             \* caller-owned by-value copies of a wrapper
  MaxDepth,           \* bound: nesting of API calls through callbacks
  GenMod,             \* 2^w for the w-bit generation counter
  MaxNews             \* bound: number of generations handed out

ASSUME ConstantsAssumption ==
  /\ IsFiniteSet(Threads) /\ Addrs # {}
  /\ MaxDepth \in Nat \ {0}
  /\ GenMod \in Nat /\ GenMod > 2
  /\ MaxNews \in Nat

VARIABLES
  allocated,     \* addresses that hold a bundle
  published,     \* owner pointers a client may still use: returned by
                 \* lonejson_new and not yet passed to lonejson_free
  live,          \* g_lonejson_runtime_handle_live_list
  generation,    \* live_handle.generation
  closing,       \* live_handle.closing
  pins,          \* live_handle.active_pins
  token,         \* the wrapper's _state_token (0: cleared, as `state` is)
  genCounter,    \* g_lonejson_runtime_handle_generation
  copies,        \* by-value copies: address and token they carry
  pc,            \* where each frame is
  at,            \* the bundle a frame works on
  news,          \* number of generations handed out so far
  birth          \* history: which lonejson_new made the bundle at an address

handleVars == <<allocated, live, generation, closing, pins, token, genCounter>>
historyVars == <<news, birth>>
vars == <<allocated, published, live, generation, closing, pins, token,
          genCounter, copies, pc, at, news, birth>>

Frames == Threads \X (1..MaxDepth)

NewPC     == {"new", "numbered", "registered"}
EntryPC   == {"enter", "pinned", "fallback", "ownerWrite"}
PinnedPC  == {"pinned", "use"}
FreePC    == {"drain", "reclaim"}
PC        == {"idle", "use", "copyWrite"} \cup NewPC \cup EntryPC \cup FreePC

(***************************************************************************)
(* The call stack of a thread.                                             *)
(***************************************************************************)

\* f is the next frame of its thread, and nothing runs in it.
Available(f) ==
  /\ pc[f] = "idle"
  /\ f[2] > 1 => pc[<<f[1], f[2] - 1>>] = "use"

\* No nested call is running in a callback of f.
Innermost(f) ==
  f[2] < MaxDepth => pc[<<f[1], f[2] + 1>>] = "idle"

\* An enclosing call of the same thread holds a pin on a.
HeldBelow(f, a) ==
  \E d \in 1..MaxDepth : /\ d < f[2]
                         /\ pc[<<f[1], d>>] = "use"
                         /\ at[<<f[1], d>>] = a

\* The frames that hold a pin on a.
Pinners(a) == {f \in Frames : pc[f] \in PinnedPC /\ at[f] = a}

(***************************************************************************)
(* lonejson_new.                                                           *)
(***************************************************************************)

NextGeneration_ZeroNotSkipped(g) == (g + 1) % GenMod

\* lonejson__runtime_handle_next_generation: zero is skipped on wrap-around.
NextGeneration(g) ==
  IF (g + 1) % GenMod = 0 THEN 1 ELSE (g + 1) % GenMod

\* The bundle is allocated and cleared.
NewAllocate(f, a) ==
  /\ f[2] = 1 /\ Available(f)
  /\ news < MaxNews
  /\ a \notin allocated
  /\ allocated' = allocated \cup {a}
  /\ generation' = [generation EXCEPT ![a] = 0]
  /\ closing' = [closing EXCEPT ![a] = FALSE]
  /\ pins' = [pins EXCEPT ![a] = 0]
  /\ token' = [token EXCEPT ![a] = 0]
  /\ pc' = [pc EXCEPT ![f] = "new"]
  /\ at' = [at EXCEPT ![f] = a]
  /\ UNCHANGED <<published, live, genCounter, copies, historyVars>>

\* A temp_dir string cannot be duplicated: the bundle is released again.
NewFails(f) ==
  /\ pc[f] = "new"
  /\ allocated' = allocated \ {at[f]}
  /\ pc' = [pc EXCEPT ![f] = "idle"]
  /\ UNCHANGED <<published, live, generation, closing, pins, token, genCounter,
                 copies, at, historyVars>>

\* lonejson__runtime_handle_register, up to the generation it is given.
NewNumber(f) ==
  /\ pc[f] = "new"
  /\ news < MaxNews
  /\ genCounter' = NextGeneration(genCounter)
  /\ generation' = [generation EXCEPT ![at[f]] = genCounter']
  /\ news' = news + 1
  /\ birth' = [birth EXCEPT ![at[f]] = news + 1]
  /\ pc' = [pc EXCEPT ![f] = "numbered"]
  /\ UNCHANGED <<allocated, published, live, closing, pins, token, copies, at>>

\* lonejson__runtime_handle_register: the handle is pushed on the live list.
NewRegister(f) ==
  /\ pc[f] = "numbered"
  /\ live' = live \cup {at[f]}
  /\ pc' = [pc EXCEPT ![f] = "registered"]
  /\ UNCHANGED <<allocated, published, generation, closing, pins, token,
                 genCounter, copies, at, historyVars>>

\* The wrapper is filled in and returned to the client.
NewReturn(f) ==
  /\ pc[f] = "registered"
  /\ token' = [token EXCEPT ![at[f]] = generation[at[f]]]
  /\ published' = published \cup {at[f]}
  /\ pc' = [pc EXCEPT ![f] = "idle"]
  /\ UNCHANGED <<allocated, live, generation, closing, pins, genCounter, copies,
                 at, historyVars>>

(***************************************************************************)
(* Calls through the owner pointer.  A client may make one while the       *)
(* pointer has not been passed to lonejson_free, or from a callback of a   *)
(* call that has the bundle pinned.                                        *)
(***************************************************************************)

MayUseOwner(f, a) ==
  /\ Available(f)
  /\ a \in published \/ HeldBelow(f, a)
  /\ token[a] # 0

\* Entry checks of borrow_const, owner_pin_const_nohook and the snapshots.
OwnerEnter(f, a) ==
  /\ MayUseOwner(f, a)
  /\ pc' = [pc EXCEPT ![f] = "enter"]
  /\ at' = [at EXCEPT ![f] = a]
  /\ UNCHANGED <<handleVars, published, copies, historyVars>>

\* The optimistic increment of active_pins.
OwnerPin(f) ==
  /\ pc[f] = "enter"
  /\ pins' = [pins EXCEPT ![at[f]] = @ + 1]
  /\ pc' = [pc EXCEPT ![f] = "pinned"]
  /\ UNCHANGED <<allocated, published, live, generation, closing, token,
                 genCounter, copies, at, historyVars>>

OwnerAdmits(a) == generation[a] = token[a] /\ ~closing[a]

\* The handle is still open: the call keeps its pin and runs.
OwnerAdmitted(f) ==
  /\ pc[f] = "pinned"
  /\ OwnerAdmits(at[f])
  /\ pc' = [pc EXCEPT ![f] = "use"]
  /\ UNCHANGED <<handleVars, published, copies, at, historyVars>>

OwnerRejected_KeepsPin(f) ==
  /\ pc[f] = "pinned"
  /\ ~OwnerAdmits(at[f])
  /\ pc' = [pc EXCEPT ![f] = "fallback"]
  /\ UNCHANGED <<handleVars, published, copies, at, historyVars>>

\* The handle is closing: the pin is given back.  borrow_const goes on to the
\* live list; owner_pin_const_nohook and snapshot_visit_policy give up.
OwnerRejected(f) ==
  /\ pc[f] = "pinned"
  /\ ~OwnerAdmits(at[f])
  /\ pins' = [pins EXCEPT ![at[f]] = @ - 1]
  /\ \E next \in {"fallback", "idle"} : pc' = [pc EXCEPT ![f] = next]
  /\ UNCHANGED <<allocated, published, live, generation, closing, token,
                 genCounter, copies, at, historyVars>>

\* The match of the list walk, under the lock: state pointer, generation, open.
Resolves(a, tok) == a \in live /\ generation[a] = tok /\ ~closing[a]

\* borrow_const walks the live list after the owner path rejected the call.
OwnerFallback(f) ==
  /\ pc[f] = "fallback"
  /\ IF Resolves(at[f], token[at[f]])
     THEN /\ pins' = [pins EXCEPT ![at[f]] = @ + 1]
          /\ pc' = [pc EXCEPT ![f] = "use"]
     ELSE /\ pc' = [pc EXCEPT ![f] = "idle"]
          /\ UNCHANGED pins
  /\ UNCHANGED <<allocated, published, live, generation, closing, token,
                 genCounter, copies, at, historyVars>>

\* snapshot_write_policy reads the wrapper and copies the policy, all under
\* the lock and without a pin.
OwnerSnapshot(f) ==
  /\ pc[f] = "enter"
  /\ pc' = [pc EXCEPT ![f] = "idle"]
  /\ UNCHANGED <<handleVars, published, copies, at, historyVars>>

\* set_auth_provider and set_http_provider take the state of the owner
\* without a check and write to it without a pin.
OwnerSetProvider(f, a) ==
  /\ MayUseOwner(f, a)
  /\ pc' = [pc EXCEPT ![f] = "ownerWrite"]
  /\ at' = [at EXCEPT ![f] = a]
  /\ UNCHANGED <<handleVars, published, copies, historyVars>>

(***************************************************************************)
(* Calls through a copy.                                                   *)
(***************************************************************************)

CopyMatches_AnyGeneration(c, a) ==
  copies[c].token # 0 /\ copies[c].addr = a /\ a \in live /\ ~closing[a]

\* The copy resolves to the bundle at a.
CopyMatches(c, a) ==
  copies[c].token # 0 /\ copies[c].addr = a /\ Resolves(a, copies[c].token)

\* borrow_const on a copy: match and increment under the lock.
CopyBorrow(f, c, a) ==
  /\ Available(f)
  /\ CopyMatches(c, a)
  /\ pins' = [pins EXCEPT ![a] = @ + 1]
  /\ pc' = [pc EXCEPT ![f] = "use"]
  /\ at' = [at EXCEPT ![f] = a]
  /\ UNCHANGED <<allocated, published, live, generation, closing, token,
                 genCounter, copies, historyVars>>

\* set_*_provider on a copy: lookup_mut matches under the lock, no pin.
CopySetProvider(f, c, a) ==
  /\ Available(f)
  /\ CopyMatches(c, a)
  /\ pc' = [pc EXCEPT ![f] = "copyWrite"]
  /\ at' = [at EXCEPT ![f] = a]
  /\ UNCHANGED <<handleVars, published, copies, historyVars>>

\* The provider struct is stored into the runtime state.
ProviderStore(f) ==
  /\ pc[f] \in {"ownerWrite", "copyWrite"}
  /\ pc' = [pc EXCEPT ![f] = "idle"]
  /\ UNCHANGED <<handleVars, published, copies, at, historyVars>>

Release_PinLeaked(f) ==
  /\ pc[f] = "use"
  /\ Innermost(f)
  /\ pc' = [pc EXCEPT ![f] = "idle"]
  /\ UNCHANGED <<handleVars, published, copies, at, historyVars>>

Release_Twice(f) ==
  /\ pc[f] = "use"
  /\ Innermost(f)
  /\ pins' = [pins EXCEPT ![at[f]] = @ - 2]
  /\ pc' = [pc EXCEPT ![f] = "idle"]
  /\ UNCHANGED <<allocated, published, live, generation, closing, token,
                 genCounter, copies, at, historyVars>>

\* borrow_release at the end of a call.
Release(f) ==
  /\ pc[f] = "use"
  /\ Innermost(f)
  /\ pins' = [pins EXCEPT ![at[f]] = @ - 1]
  /\ pc' = [pc EXCEPT ![f] = "idle"]
  /\ UNCHANGED <<allocated, published, live, generation, closing, token,
                 genCounter, copies, at, historyVars>>

\* The client copies the wrapper by value.
CopyWrapper(c, a) ==
  /\ a \in published
  /\ copies[c].token = 0
  /\ copies' = [copies EXCEPT
                  ![c] = [addr |-> a, token |-> token[a], birth |-> birth[a]]]
  /\ UNCHANGED <<handleVars, published, pc, at, historyVars>>

\* lonejson_free on a copy only clears the copy.
FreeCopy(c) ==
  /\ copies[c].token # 0
  /\ copies' = [copies EXCEPT ![c].token = 0]
  /\ UNCHANGED <<handleVars, published, pc, at, historyVars>>

(***************************************************************************)
(* lonejson_free on the owner pointer.                                     *)
(***************************************************************************)

\* What the client owes: when it calls lonejson_free, no other call through
\* the owner pointer is between its entry and its answer from the registry,
\* unless an enclosing call keeps the bundle pinned.
OwnerQuiet(a) ==
  \A f \in Frames : pc[f] \in EntryPC /\ at[f] = a => HeldBelow(f, a)

FreeClose_StaysLive(f, a) ==
  /\ f[2] = 1 /\ Available(f)
  /\ a \in published
  /\ OwnerQuiet(a)
  /\ closing' = [closing EXCEPT ![a] = TRUE]
  /\ published' = published \ {a}
  /\ pc' = [pc EXCEPT ![f] = "drain"]
  /\ at' = [at EXCEPT ![f] = a]
  /\ UNCHANGED <<allocated, live, generation, pins, token, genCounter, copies,
                 historyVars>>

\* Under the lock: closing is set and the handle leaves the live list.
FreeClose(f, a) ==
  /\ f[2] = 1 /\ Available(f)
  /\ a \in published
  /\ OwnerQuiet(a)
  /\ closing' = [closing EXCEPT ![a] = TRUE]
  /\ live' = live \ {a}
  /\ published' = published \ {a}
  /\ pc' = [pc EXCEPT ![f] = "drain"]
  /\ at' = [at EXCEPT ![f] = a]
  /\ UNCHANGED <<allocated, generation, pins, token, genCounter, copies,
                 historyVars>>

FreeDrained_NoWait(f) ==
  /\ pc[f] = "drain"
  /\ pc' = [pc EXCEPT ![f] = "reclaim"]
  /\ UNCHANGED <<handleVars, published, copies, at, historyVars>>

\* The spin loop reads active_pins = 0.
FreeDrained(f) ==
  /\ pc[f] = "drain"
  /\ pins[at[f]] = 0
  /\ pc' = [pc EXCEPT ![f] = "reclaim"]
  /\ UNCHANGED <<handleVars, published, copies, at, historyVars>>

\* The wrapper is cleared and the bundle is released.
FreeReclaim(f) ==
  /\ pc[f] = "reclaim"
  /\ token' = [token EXCEPT ![at[f]] = 0]
  /\ allocated' = allocated \ {at[f]}
  /\ pc' = [pc EXCEPT ![f] = "idle"]
  /\ UNCHANGED <<published, live, generation, closing, pins, genCounter, copies,
                 at, historyVars>>

\* All generations are handed out and every call has returned.
Finished ==
  /\ news = MaxNews
  /\ \A f \in Frames : pc[f] = "idle"
  /\ UNCHANGED vars

-----------------------------------------------------------------------------

\* Where copies and frames that were never used point; it does not matter.
Somewhere == CHOOSE a \in Addrs : TRUE

Init ==
  /\ allocated = {} /\ published = {} /\ live = {}
  /\ generation = [a \in Addrs |-> 0]
  /\ closing = [a \in Addrs |-> FALSE]
  /\ pins = [a \in Addrs |-> 0]
  /\ token = [a \in Addrs |-> 0]
  /\ genCounter = 1
  /\ copies = [c \in Copies |-> [addr |-> Somewhere, token |-> 0, birth |-> 0]]
  /\ at = [f \in Frames |-> Somewhere]
  /\ pc = [f \in Frames |-> "idle"]
  /\ news = 0
  /\ birth = [a \in Addrs |-> 0]

\* One step of the call that runs in frame f.
Step(f) ==
  \/ NewFails(f) \/ NewNumber(f) \/ NewRegister(f) \/ NewReturn(f)
  \/ OwnerPin(f) \/ OwnerAdmitted(f) \/ OwnerRejected(f) \/ OwnerFallback(f)
  \/ OwnerSnapshot(f) \/ ProviderStore(f)
  \/ FreeDrained(f) \/ FreeReclaim(f)

\* A client begins a call in frame f.
Call(f) ==
  \/ \E a \in Addrs : \/ NewAllocate(f, a)
                      \/ OwnerEnter(f, a)
                      \/ OwnerSetProvider(f, a)
                      \/ FreeClose(f, a)
  \/ \E c \in Copies, a \in Addrs : CopyBorrow(f, c, a) \/ CopySetProvider(f, c, a)

Next ==
  \/ \E f \in Frames : Call(f) \/ Step(f) \/ Release(f)
  \/ \E c \in Copies : FreeCopy(c) \/ \E a \in Addrs : CopyWrapper(c, a)
  \/ Finished

\* Threads keep running, so a call that can step does; and the user callbacks
\* of a call return, however many nested calls they make.
Fairness ==
  \A f \in Frames : WF_vars(Step(f)) /\ SF_vars(Release(f))

Spec == Init /\ [][Next]_vars
FairSpec == Spec /\ Fairness

-----------------------------------------------------------------------------

\* The types of the registry, the copies and the call stacks.
TypeOK ==
  /\ allocated \subseteq Addrs /\ published \subseteq Addrs /\ live \subseteq Addrs
  /\ generation \in [Addrs -> Nat]
  /\ closing \in [Addrs -> BOOLEAN]
  /\ pins \in [Addrs -> Nat]
  /\ token \in [Addrs -> Nat]
  /\ genCounter \in Nat
  /\ copies \in [Copies -> [addr : Addrs, token : Nat, birth : Nat]]
  /\ pc \in [Frames -> PC]
  /\ at \in [Frames -> Addrs]
  /\ news \in 0..MaxNews
  /\ birth \in [Addrs -> 0..MaxNews]

\* Memory safety of the whole registry: every call that is anywhere between
\* its entry and its return works on a bundle that lonejson_free has not
\* released, and a walk of the live list meets only such bundles.  Not so
\* set_*_provider on a copy, which stores without a pin: that call is excepted.
NoUseAfterFree ==
  /\ \A f \in Frames : pc[f] \notin {"idle", "copyWrite"} => at[f] \in allocated
  /\ live \subseteq allocated

\* active_pins is the number of calls that hold the bundle: no error path
\* leaks a pin or gives one back twice, so the drain loop waits for exactly
\* the calls in progress.
PinsCountBorrows ==
  \A a \in allocated : pins[a] = Cardinality(Pinners(a))

\* A copy that outlived its runtime never resolves to a later runtime that
\* was allocated at the same address.
StaleCopyNeverResolves ==
  \A c \in Copies, a \in Addrs : CopyMatches(c, a) => copies[c].birth = birth[a]

\* A runtime that was returned to the client and not passed to lonejson_free
\* admits every call: it is registered, open, and its token is usable.
PublishedAdmits ==
  \A a \in published : token[a] # 0 /\ Resolves(a, token[a]) /\ OwnerAdmits(a)

\* Once the drain loop saw no pins, nobody works on the bundle any more, but
\* for a set_*_provider on a copy.
ReclaimIsExclusive ==
  \A f, g \in Frames :
    pc[f] = "reclaim" /\ g # f /\ pc[g] \notin {"idle", "copyWrite"} => at[g] # at[f]

\* lonejson_free, which is not called from callbacks, returns once the calls in
\* progress have returned.
FreeReturns ==
  \A t \in Threads : pc[t, 1] = "drain" ~> pc[t, 1] = "idle"

=============================================================================
