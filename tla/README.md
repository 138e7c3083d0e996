# A verification project for PriceSight

PriceSight compares prices by driving a phone or a browser: an accessibility
service uploads what is on the screen (an *observation*), a backend plans actions
against it and queues them, the phone polls for them, performs them and reports;
what the shops show is read as products and prices, cached and compared. The
hard promises of the system are that an action is never performed on another
screen than the one it was planned for, never twice, never on a payment page;
that every queued action comes to an end; and that no offer is recommended on
evidence the page did not give or that is out of date. This directory states
these promises in TLA+, checks them with TLC on small instances, and proves
them for every size with TLAPS: for the session store and the phone that is
connected to it, the workflow engine with planner and router behind it, the reading
of prices and titles, offers and their comparison, the transports, the mock shop
and the browser.

    tlc -workers 2 -config MCSessionStore.cfg MCSessionStore
    tlapm SessionStoreProofs.tla

## 1. Inventory

Paths are below `src/`; `app/` is `backend/app/`, `kt/` is
`android-client/app/src/main/java/com/pricesight/androidclient/`.

| Component | State it keeps | Operations | Talks to | Hard behaviour | Correct when |
|---|---|---|---|---|---|
| Session store `app/transport/store.py`, facade `session.py`, handlers `app/main.py` | latest observation and last_seen per device; per command lifecycle, lease, retry count, result; index by (device, action_id) | save observation, enqueue, lease next, complete/fail, snapshot | HTTP handlers on a thread pool, one lock per store call | check outside the lock, insert inside; leases that expire while the device works; late, repeated reports; restart; silent devices | queue bounded, at most MaxRetries+1 hand-outs, results final, only current and safe actions handed out, everything settles |
| Android bridge `kt/DeviceBridgeClient.kt`, `RetryPolicy.kt` | one-place observation slot, uploadScheduled flag, currentObservationId, processed ids | submit observation, drain, poll, execute, report, retry | accessibility thread, one executor thread, HTTP | lost answers, late requests, nested retries, service restart, flag/slot race | action performed at most once, on the uploaded screen, honestly reported; no observation stuck |
| Workflow engine `app/workflow/engine.py` with `app/action/executor.py`, `verifier.py`, `core/reliability.py` | index, context counters, current observation, repetition counts | run a step: safety, guard, plan, execute with retries, route | device, executor, agent router | the screen moves under it; retries re-observe; loops through routes | bounded steps, safety stops first, completed steps verified |
| Agent planner and router `app/agent/planner.py`, `router.py` | retry budget, attempts | plan, route | LLM provider, executor | malformed or unsafe answers, provider errors, budget | only accepted, safe decisions reach the device |
| Event and polling transports `app/transport/event.py`, `polling.py` | event queue, latest observation, the wait in progress | publish, observe, wait for change | HTTP and websocket handlers, the device | debounce against a deadline, an unbounded queue filled from another thread, changes taken back, late uploads, several devices on one queue | returns only a changed screen, after a burst the last published, by the deadline; sets no change aside |
| Price reading and price rules `app/parser/price.py`, `specification.py`, `app/comparison/pricing.py`, `app/platform/base.py` | none | parse prices and promotions, normalize, calculate | adapters, comparison engine | two prices of one rank, ranges, coupons inside prices, two functions that price one card | no price without evidence; abstains on conflict; the sums add up |
| Titles, model fallback, matching `app/parser/quantity.py`, `product.py`, `hybrid.py`, `app/comparison/matcher.py`, `app/llm/` | none | parse a title, ask the model once, match | comparison engine, LLM provider | overlapping patterns, several quantities, a model that fails or answers anything | every piece counted once; certain only on evidence |
| Offer cache and comparison `app/cache/offer.py`, `app/comparison/engine.py` | cached offers with expiry, in memory or a file | lookup, set, clear, close, compare | parsers, adapters | an offer whose price changed behind the same key; exceptions in the middle of a list; close and restart | no stale or foreign offer compared; the cheapest of at least two recommended |
| Mock shop `app/platform/mock_shopping.py`, its adapter, `mock_e2e.py`, the app in `mock-shopping-app/` | page, choices, cart, revision | observe, click, set text, scroll, back, wait, stop; the scenario | executor, engine, safety guard | callers that act on old observations; one click from payment | observations tell the truth; never pays; the scenario ends at the order |
| Browser runtime `app/runtime/browser.py`, adapters `app/platform/taobao`, `web`, runner `scripts/run_taobao_readonly.py` | allowed hosts, observation number, attributes on the page | observe, click, set text, scroll, back, wait, assess, extract | Playwright, the page | the page navigates between check and snapshot; numbers of old snapshots; captcha, login, dialogs | products only of allowed, undisturbed pages; operations reach what was observed |
| Compressor, matcher, collector, action executor `app/observation/compressor.py`, `app/action/matcher.py`, `kt/ObservationCollector.kt`, `AndroidActionExecutor.kt` | none | collect, compress, match, resolve, perform | bridge, executor | merged leaves, odd links between nodes, children that cannot be fetched | nothing that can be used is lost; the element meant is the one acted on |
| Configuration, logging, wiring; evaluation scripts; mock web page | read at start-up, or reports of a script | | | | |

## 2. Modules

| Module | Models |
|---|---|
| `ActionDelivery` | the abstract promise of the store: a command waits, is handed out a bounded number of times, is settled once |
| `SessionStore` | the store, its facade and its handlers; refines `ActionDelivery` |
| `SessionStoreProofs` | theorems about `SessionStore` |
| `DeviceBridge` | the phone, composed with `SessionStore` (EXTENDS) over a lossy, delaying HTTP channel |
| `DeviceBridgeProofs` | theorems about `DeviceBridge` and its store |
| `WorkflowRun` | one run of the workflow engine with executor, verifier and repetition detector, on a screen that changes by itself |
| `WorkflowRunProofs` | theorems about `WorkflowRun` |
| `AgentHandoff` | planner and router after such a run, composed with `WorkflowRun` (EXTENDS) |
| `AgentHandoffProofs` | theorems about `AgentHandoff` |
| `ChangeWait` | the abstract promise of a transport: a wait ends, with a changed screen or with nothing |
| `Transports` | waiting on the event queue and by polling; both refine `ChangeWait` |
| `TransportsProofs` | theorems about `Transports` |
| `PriceReading` | from the text of a card to the price of an offer |
| `ProductReading` | from the text of a title to a product, with the model's second opinion, and the match with a requirement |
| `ReadingProofs` | theorems about `PriceReading`, `ProductReading` and `ScreenTree` |
| `OfferComparison` | the comparison over the offer cache, with expiry, clear, close and restart |
| `OfferComparisonProofs` | theorems about `OfferComparison` |
| `ShopApp` | the mock shop as its Android app shows it, the abstract shop |
| `MockShop` | the mock device with its adapter, its callers and the end-to-end scenario; refines `ShopApp` |
| `BrowserPages` | observing a page that navigates, the adapters that read it, the read-only runner |
| `BrowserNodes` | how the nodes of an observation are found on the page again |
| `SurfaceProofs` | theorems about `MockShop`, `BrowserPages` and `BrowserNodes` |
| `ScreenTree` | a screen from the collector through compressor and matcher to the tap |
| `MCSessionStore`, `MCDeviceBridge`, `MCWorkflowRun`, `MCAgentHandoff`, `MCShops` | instances for TLC |

The halves share no state in the code: the engine drives any `ActionDevice` and
the repository wires none of them to the session store; the handler of an upload
also publishes it to the event transport (`Publish` there) and nothing of the
store depends on that; parsers and comparison are called by neither. So they are
modelled apart. What they do share
are functions: `MockShop` and `WorkflowRun` both contain the executor's checks,
each with what its device tells apart.

Operators called `Name_Something` beside `Name` are variants: what `Name` would
be with a plausible bug. No specification uses them; they are put in the place
of `Name` to see that a property notices.

### SessionStore

A command id (`Commands`) stands for one POST to `/devices/{id}/actions`; the
variable `request` holds what it asked for, `lifecycle` its
`ActionLifecycle` (or where it is before it is stored). An observation is its
id; `Unsafe` are those whose text makes the `SafetyGuard` say STOP. The rest of
an action's content is a function of its `observation_id` here, so two requests
for one action id conflict when their observations differ.

- `Check` is the first half of `DeviceSessionManager.enqueue_action` (no lock is
  held) with the guard (`SafetyStops`), `Enqueue` the store call; anything may
  happen between them.
- `LeaseNext` is one poll: reclaim, stale marking and lease are one lock
  section, hence one action. `Sweep` is its effect.
- `RecordResult` is a report that changes something. A device can report
  whatever it was handed at any time; `lease_id` is never compared, so a report
  for an older lease counts.
- `LeaseExpires` and `DeviceSilent` are the passing of time as the code sees it.
- `Restart` kills the process: with SQLite (`Durable`) committed state stays,
  the in-memory store loses all; a request between its halves is lost.
- `Snapshot` is the three counters of a device's snapshot. `dispatches`, `answer` are
  history.

`EXECUTING` is declared by the code and selected by its queries, but only a
report with a lifecycle of its own can write it.

### DeviceBridge

The accessibility thread is `Collect` (set the slot) and `ScheduleUploadDrain`
(compareAndSet and execute). The executor thread is a program counter: a drain
takes the slot, uploads, polls, and when the slot is empty releases the flag
(`Release`) and looks again (`Recheck`). Each HTTP call is sent, handled at the
server (`ServerHandles`, an action of `SessionStore`) and answered; `CallFails`
at any time stands for a timeout before or after the server handled it, a lost
answer or an error status, and a request that was given up may be handled later
(`late`, `ServerHandlesLate`). `Retry` is `withRetry`, also the nested case in
which a failed report fails the poll around it. `PhoneRestarts` clears the
memory of the client.

### WorkflowRun

The engine is one thread; what interleaves with it is the screen. So an action
ends where the code observes or operates the device, and `ScreenMoves` may come
between any two. An observation is a version (its id) and a page; what guards,
targets and expectations look at is a set of pages per step.

| Variable | In the code |
|---|---|
| `pc` | `next` head of the loop in `run()`, `attempt` top of `_execute_with_retries`, `verify` between the device call and `observe()` in `execute()`, `failed`/`passed` after it, `done` |
| `current` | the local observation of `run()`: renewed only after a success |
| `known` | `context.current_observation`: renewed by every retry too |
| `used` | the observation the attempt is bound to |
| `registered` | the detector's counts for this request; earlier requests have other `action_id`s and can never match again |
| `verified`, `performs`, `acted` | history |

`StepBegins` is the head of the loop down to `_plan`, with one disjunct per
early return; `Attempt` the detector and `ActionExecutor.execute` up to the
device's answer (accepted, rejected, or `TimeoutError` with or without an
effect); `Verify` the rest of `execute()`; `Retry`, `GiveUp` and `StepCompletes`
what follows. An exception of `observe()` or `stop()` ends `run()` without a
result and is left out. `STALE_OBSERVATION` cannot occur here: the engine and
the router always hand the executor the observation they bound the action to,
so that check compares an id with itself.

### AgentHandoff

`TakeHandoff` computes `attempts_allowed`; each `AskModel` is one call of the
provider with all it may do: fail, answer something malformed, or a decision
that fails one of the checks in the code's order. `RejectPlan` is the router's
answer to a plan that was not accepted; `Route` binds the decision to
the run's final observation and executes it, with the operators of
`WorkflowRun` that stand for the executor; `RouteVerifies` ends it. A decision
is a record of what the checks look at. The planner's, the router's and the
executor's guard are separate parameters in the code and may disagree.

### Transports

`wpc` is where the one wait is: `get` in `wait_for(queue.get())`, `settle` in the
sleep of the debounce, `drain` in the loop of `get_nowait`, `judge` between the
empty queue and the comparison with what the caller knows, `poll` and `check` in the
loop of the polling transport. `Pass` is a tick; a sleep is over when `settle` is 0.
`ShowScreen` is a device that shows something, `Publish` a handler that puts any
screen a device has ever shown into the queue: the handlers of all devices feed the one
queue (`main.py:80-84`), on time, late or twice, and between any two steps of a wait,
`DrainOne`, `DrainEnds` and `JudgeEvent` included. So what a wait answers is the last
event of the burst, and not always what a device shows now. `newest` remembers the
last event when the queue was found empty. `observe()` of the event transport returns
the delegate's screen or the last event that was taken, hence
`latest' \in {latest, shown}`. A handler puts events
into the queue from another thread and does not wake the loop: `Take` is
possible as soon as an event is there, and may come late or not at all.

### PriceReading and ProductReading

A card is what the patterns find in its text: amounts, each with the patterns that match
it, a range, a coupon or a voucher, a discount on the second piece, the count of
pieces. `Candidates`, `Select`, `HasConflict` and the order of the returns in
`ParsePrices` are the code's. `Sums` is what the pricing engine has after each of the rules,
`Calculate` its quote; amounts are quarters of a cent so that halving stays exact,
and what a text says is whole cents (`Money`). `ReadCard` prices a card the
way an adapter does, `PriceCard` as the comparison engine does afterwards,
`AbortComparison` is the exception of a rule with a ratio of 0, and
`AskQuote` calls the pricing engine directly. A title is the set of places where
the quantity patterns match. `Scan` goes through the text as the sorted loop of
`parse_all` does: at each position it takes the first pattern that matches there, unless
`occupied_until` lies behind it; another match that starts there is inside the one
taken, since no match is empty. `AskModel` has the failures of the provider as its outcomes.

### OfferComparison

`compare()` goes source by source (`TakeSource`) and card by card: a hit
(`UseCached`), a card priced anew and stored (`PriceAnew`), or one that raises
and ends the comparison (`Abort`). Time may pass, the cache may be cleared or
closed, and the process may restart between any two. `entries` is the memory,
`disk` the table, `open` whether the connection is. A card has a text, which is in the
key, and a price and a confidence, which are not: that is how an offer gets stale.

### MockShop and ShopApp

`page`, `spec`, `coupon`, `cart`, `loaded` are `MockShoppingState`. A caller acts
on `view`, an observation that may be old, through the executor's checks; the
device accepts only nodes of the page it is on. `Do` is an operation that is
accepted and raises the revision. The scenario is the list of steps that
`run_mock_e2e` walks through; `at` = 0 are the behaviours without it. The
refinement shows the mock's dialog as the detail page it lies over.

### BrowserPages and BrowserNodes

`observe()` is two steps, `CheckHost` and `Snapshot`, and the page may `Navigate`
at any time. A page is given by its host and what the tests of the adapters find
on it. `ReadProducts` reads a list of results, `ReadProduct` the product of a detail
page with a title. The runner is a program counter (`runner`) with its report. In
`BrowserNodes` an element has a look and the number an earlier snapshot left on
it; `First` is the locator's first element with the number, `Located` that element if
it shows, which `click` and `fill` wait for and the `evaluate` of a scroll does not;
`AtBounds` is the second way of a click, which meets whatever lies there.

### ScreenTree

A layout is a list of nodes with parents and slots, and links a client may have sent
beside them. `Collected` tells which layouts the collector itself makes; for
those `PathTo` gives a node's id and `Resolve` is the walk on the device.
`Compress` is tree building, pruning, and merging of leaves; `Stages` the six
stages of the matcher in the order of `match` (resource, id, text, normalized text,
fuzzy text, bounds), of which the first that finds anything decides (`Matched`). A
text is a word; `Normal` is what `_normalize` makes of it, and `Ratio` how alike two
words are, in percent: any function that gives percentages, so nothing rests on
`difflib`. `Closest` is the rule of `_fuzzy`: the nodes within 3 hundredths of the
best. When the device acts the screen may differ (`later`): one child that was
collected is lost, or children that were missing are there. `Operates` are the ways an
operation can go: on the node that was found, as a gesture on the bounds, as a
scroll of the whole screen, or not at all; `by` tells which.

The code prunes by a nested function with a shared set of visited nodes; `Walk` states it as the steps of that recursion, with its stack
(`Advance`: ask the next node whether it is called, call it, or return), since lists
from a client may be circular and no order of the nodes is sure. `Moves` is how many
steps it takes. What is kept is the least set with the roots that is closed
under children.

## 3. Runs

| Run | Bounds | Shows |
|---|---|---|
| `store_queue` | 1 device, 3 requests, 3 action ids, 2 safe screens and an unsafe one, queue of 2, 1 retry, SQLite | the safety properties of the store |
| `store_delivery` | 1 device, 2 requests, 2 action ids, 2 screens, queue of 2, 1 retry, SQLite, fairness | refinement of `ActionDelivery`; every request is answered and settled, also one that waits behind another, unless the device falls silent for good |
| `bridge_retries` | 2 commands for 2 actions, 1 screen, 1 retry per call and 1 lease retry, 2 remembered ids, SQLite | at most once, honest results |
| `bridge_screens` | 1 command, 3 screens (1 unsafe), no retries, in-memory store, fairness | acts only on the approved screen; no lost wake-up, one drain, the slot is emptied |
| `engine_and_agent` | 6 workflows of up to 3 steps, 3 pages (1 unsafe), 3 changes of the screen, 4 steps per run; 9 decisions, 3 calls, budgets 0 to 3; fairness | the engine's and the router's safety, no action from before a verified effect, bounded effort, an answer in every case |
| `shops_and_screens` | see below | prices, titles, offers, transports, mock shop, browser, screens |
| `store_reported_lifecycle`, `bridge_latest`, `workflow_newest`, `workflow_repeats`, `offers_second_item`, `android_paths` | smallest | violated: see section 6 |

Why these bounds are enough: three requests for three action ids is the smallest
instance in which a duplicate, a conflict and a full queue of two all occur; one
lease retry makes a first expiry and an exhaustion both happen; two screens make
staleness happen and a third (unsafe) tests the guard. The phone has one
outstanding call, so one retry per call already covers every nesting of the
three `withRetry` loops. Symmetry (commands, action ids) is used in runs
without liveness properties. `clock` counts checked requests, at most one per
command id, so it needs no bound of its own; `collected` is bounded by the set
of observations, `late` by the calls.

The six workflows of `engine_and_agent` have among them every field of a step:
a line with an optional step, a loop through success, failure and skip routes,
the cart opt-in, STOP, a risky step, hand-overs after a success, a failure, a
skip and on demand, and a step that cannot be planned. Four steps go round the
loop and reach the limit; three changes of the screen suffice for an action, a
retry and a step after it to see a screen each. The decisions fail one check
each; budgets from 0 to 3 lie below, at and above `max_calls` = 3. Deadlock is
checked in the runs of store and bridge; a run of the engine really ends.

`shops_and_screens` has eight parts that share no state. `part` says which one
a behaviour is about, so that the run explores their sum and not their product;
a property of one part holds of the others' behaviours as they begin. Its bounds:

| Part | Bounds | Why they are enough |
|---|---|---|
| prices | amounts 0.2 to 4 yuan, at most 2 of 7 mentions on a card, every coupon, voucher and second piece; up to 3 of 6 rules | a conflict takes two amounts of one rank; three rules have one before and one after any other |
| titles | at most 3 of 7 matches, combo, review and gift or not; 2 names, 6 suggestions | an overlap takes two matches and a third shows what it hides; the suggestions lie on both sides of the threshold |
| offers | 2 stores, one text at two prices and a card that raises, at most one card per store, TTL 2, clock up to 2 (`MaxTime`) | an entry is fresh, about to end and ended; two stores make a recommendation, a tie and a comparison cut off in the middle |
| transports | 3 screens, timeout 3, settling time 1, 2 queued events (`MaxQueue`), 2 events put during a drain (`MaxPuts`) | a change, a change back and another one; a burst before and at the deadline; an event before the queue is found empty and one after it |
| mock shop | 8 revisions (`MaxRevision`) for free callers; the scenario is as long as it is | the order page is 5 accepted operations away, the rest go back and off the way |
| pages | 9 pages, 1 of them elsewhere | one for each outcome of the assessment, and the ways the two adapters disagree |
| elements | 3 elements | one hides or fades, one takes its number, one is left to be mistaken |
| screens | trees of 4 nodes with 4 looks, of 3 with 4 others, of 3 with a missing child, lists of 3 with odd links; targets that name a resource, a node, a text, something like a text, or bounds | a wrapper over leaves that merge, and one beside it; a link that makes a circle; each stage decides, finds too many or gives way to the next |

The parts may stop (a card is read once, a scenario ends), so this run does
not check deadlock.

Fairness. `store_delivery`: a handler that passed its checks finishes; a lease
time passes; the phone polls every 500 ms for as long as it lives, but a poll
counts only while it is connected, hence strong fairness. No answer, no upload, no
new screen and no new request is assumed: a phone uploads on accessibility events
only, so one that fell silent may stay so, and its commands then stay active for ever
(`EverySettles` says so). `bridge_screens`: both threads keep running, every call ends
(it has connect and read timeouts), and a queued drain is not overtaken by
polls for ever (strong fairness: the executor's queue is ordered by time).
`engine_and_agent`: the one thread of engine, planner and router takes its next
step (weak fairness), as every call of device and provider returns or raises;
nothing is assumed of the screen or of what the model answers.
`shops_and_screens`: the clock ticks, a wait whose sleep or deadline is over goes
on, and the one thread of the scenario takes its next step. Nothing makes the
waiting loop take an event, since the handler's `put_nowait` does not wake it;
nothing makes a page, a shop or a caller do anything. The drain of a burst takes
steps without a deadline; that it ends is due to `MaxPuts`, that is, to handlers
that do not put events faster than the loop takes them for ever.

## 4. Proofs

`SessionStoreProofs` proves, for all sets of devices, commands, screens and all
values of the bounds: the type invariant; `RecordsAgree` (results and leases
match the lifecycle, and the three counters of a snapshot add up);
`WithinLimits` (hand-outs and queues); `DispatchesOnlyCurrent`; with `Durable`
also `NothingIsTakenBack` (results are final, leases are honoured) and
`OneCommandPerAction`; and that the store implements `ActionDelivery`. Except
for the types, they assume `HonestReports`: devices send no lifecycle of
their own beside the result (what the Android client does); section 6 shows
that the assumption is needed.

None of these is inductive alone. The bound on hand-outs, for one, needs their
number for a queued command to equal its retry count and that of a leased one to
be one more, and that needs to know that an unleased command is never
`DISPATCHED`. The inductive invariant `Accounting` collects this per command
(`Accounted`), with what is known of its request (`Requested`: among others,
creation times are distinct, which makes the choice of the oldest unique).
The bound on queues adds the invariance of the bound itself under a sweep, whose set
of active commands only shrinks; `OneCommandPerAction` adds `Indexed`. The
refinement maps `lifecycle` to a stage and a poll to `Poll` with the sets that
were reclaimed, exhausted, dropped and handed out.

`WorkflowRunProofs` proves, for every set of valid workflows, pages and limits:
the type invariant, which includes that routes never lead out of the workflow
(`RouteLeads`, from what `validate_step_graph` checks); `EffortAccounted`;
`PerformsOnlyAllowed`; `CompletedWasVerified`. The invariant behind them says
that every request for the device was paid for before it is made (`EffortPaid`:
at the top of an attempt one request is still free), and that what was checked
when a step began holds through all its attempts although the screen, the
observation and the attempt number change (`StepVetted`). That a retry cannot
act on an unsafe page follows from the executor alone, since nobody else looks
at that page.

`AgentHandoffProofs` proves `CallsArePaid`, `AgentActsOnlyAccepted`,
`ActsBehindNoEffect`, and, carried over to the composition, the engine's
invariant, `EffortAccounted` and `HandoffTypeOK`, for all decisions, limits and
budgets. The invariant: while the planner is asking, the calls made are exactly
what the budget lost, and fewer than both limits allow (`CallsPaid`); what is
about to be routed passed the planner's checks (`DecisionVetted`). The router's
steps leave the engine's variables alone or repeat its executor, so the engine's
invariant survives them (`RunInvariantInHandoff`). `ActsBehindNoEffect` needs that the
observation of `run()`, what it bound the attempt to and the last verified effect keep
their order on every route (`EffectsBehind`); it does not say that either acts on the
newest screen, which is false (section 6).

`OfferComparisonProofs` proves `OffersCanBeTrusted` for every TTL, every set of
stores, cards and shelves, with a file and without. An offer is fresh because
the entry it came from was honest when it was used: the inductive invariant
`CompareInv` is the types, `CacheIsHonest` (every entry under its own key,
ending a TTL after it was made, on disk too) and `OffersAreFresh`. That the
entry is still alive is the test in `Hit`; the rest is that clear, close
and restart only lose entries and never mix those of memory and disk. It assumes
a TTL above zero, as the constructor does.

`TransportsProofs` proves `AnswersAreTrue` and the safety part of the
refinement of `ChangeWait` (`PromiseKept`), for all screens and durations, a
settling time of zero included. The invariant `WaitInv` says that the last event
published is the last of the queue, or else the one in hand or the one that was judged
(`LastIsKept`), and that a wait that goes on has set aside nothing but what the caller
knows (`SetAside`). That an answer is what a device shows now is not claimed: uploads
may be late, and the queue is shared by all devices.

`DeviceBridgeProofs` is about the phone and the store together, over a channel
that loses, delays and repeats. It first proves what the phone's two threads can be
doing (`PhoneConsistent`: types, which call is out for which task, one drain at
most), and that every behaviour of the composition is one of `SessionStore`
(`BridgeImplementsStore`), so that all the store's theorems hold of it
(`StorePromisesKept`). `DrainHandedOver` needs only `SlotIsServed`: while something
is in the slot, a drain is scheduled or the thread that would see to it is still on its
way. For the rest the invariant `BridgeInv` follows an observation and a command
through the system. Observations only move on, from collected through slot and upload to
current and past (`ObservationsPassOn`); the first lease of a command, its first report
and the number of its leases fit the store's lifecycle and the phone's memory. From that
follow `PerformsApproved` without a condition on the memory, and `PerformedAtMostOnce`
and `RecordedHonestly` while the phone has been handed no more commands than its memory
of processed ids holds (`MemorySuffices`; 256 in the code). That condition is needed: an
action is performed and its report is lost, newer commands push its id out of the
memory, its lease ends and it is handed out again on the same screen. `FewCommands`
states the two without it, for at most `Capacity` commands. `HonestReports` is
assumed, which the Android client meets: it never sends a lifecycle beside its result.

`SuccessIsEarned` (in `WorkflowRunProofs`, and in `AgentHandoffProofs` for the
composition) rests on `ProgressKept`: the end of a workflow is reached only over
its last step, and without routes every step before the index was completed or is an
optional one that was skipped. `WinnerIsCheapest` (`OfferComparisonProofs`) rests on
`WinnerInv`, what holds while the comparison is under way, and on the fact that a set of
prices, like every set of natural numbers, has a least one.

`SurfaceProofs` proves of the mock shop that it never pays, that an observation whose
id is still the device's tells the truth, and that it implements `ShopApp`. `ShopInv`
adds that a caller's view is from the past, and is the screen itself when
its revision is (`ViewIsPast`): an old view cannot carry the id of a new page. Of
pages it proves `ProductsComeFromShops` (`BrowserInv`: where products come from, and
how far the runner is when its report says so), of elements `OperatesOnObserved`:
an observation numbers the places in it, no two alike, and the elements it numbered
carry their place (`PlacesCarried`), so that the first element with a number is the one
that was observed, or one that has faded or been hidden since; `click` and `fill` leave
out the hidden one, a scroll does not.

`ReadingProofs` proves the three properties of `PriceReading` for every list of rules and
every text, the two of `ProductReading` for every title, and the two of
`ScreenTree` for every screen. What the two loops
(over rules, over a text) compute is a recursive function; that it exists is proved in
`StepByStep`, by an induction over the natural numbers whose predicate is a set (`UpTo`,
from the least number of a set). The sums after a rule account for the listed price
(`SumsAccount`), and without ratios they commute (`OrderIsFree`). The measures taken
before a position are apart, and every other measure starts inside one (`TakenBefore`).
A target that is matched among all nodes is matched among fewer (`SameMatch`): each
stage finds the same node or still none (`FewerInStages`), and among fewer nodes the
best score does not rise (`ClosestOfFewer`). A path that is one slot longer leads one
step further (`OneStepFurther`), to the node it was
made for where an index is a slot (`IndexIsSlot`, `PathLeadsBack`), or nowhere if a
child is lost on the way.
`NothingIsLost` is about the walk of the compressor over lists of children that may be
circular. It ends within `Moves`, because every step asks a question or makes a return
that no step before it did (`Asked`, `OneMoreAsked`) and there are only so many
(`WalkEnds`). At each step (`RunInv`) what was retained lies below the open visits or
below a node that was retained itself, each node in one place. `Merged` adds
that a leaf that is merged away does nothing, and that an earlier sibling looks the same;
a wrapper that is left with one child lost the others to it.
One theorem has a condition: `CertaintyEarned` assumes
a `Threshold` of at most 88 hundredths; section 6 says why.

Only model-checked:

- liveness, which is outside the prover's reach: `EverySettles`, `SlotIsEmptied`,
  `RouterAnswers`, `ScenarioSucceeds`, that a wait ends.

## 5. Not modelled

- Texts character by character: what a pattern matches is given, not computed, so
  that a pattern itself is wrong cannot be seen here.
- HTTP and JSON encoding, the shared token, wall-clock lengths, logging. Two
  requests with the same `created_at` are taken to differ.
- Configuration and wiring: read once at start-up.
- Evaluation (`evaluation/runner.py`, the reports), `run_android_runtime_e2e.py`
  and the parser reports in `scripts/`: offline, sequential, without state that
  outlives a call; their result is a report. Together they are close to
  half of the lines.
- The mock web page: static.
- Promotions without an amount (buy-get, gifts, combos): no rule is built from
  them. Gestures and global actions of Android: platform calls, with an outcome.
- A browser runtime with no allowed hosts, which admits every host
  (`browser.py:231`): `BrowserPages` is about one that was given some.
- How much memory the event queue takes: it is unbounded in the code and bounded in
  `Transports`.

## 6. Where code and documents disagree

Each of these is a run that TLC finds violated:

- `store_reported_lifecycle`: a failure report's own `lifecycle` overrides the
  computed one (`store.py:103`), so a settled command can be handed out again.
- `bridge_latest`: the phone checks a command against the last *uploaded*
  observation, not its latest (`DeviceBridgeClient.kt:103`).
- `workflow_newest`: a step that fails after retries leaves `run()` with the
  observation from before them (`engine.py:141`): the next step, on a failure
  route or past an optional step, is matched and performed on a screen the engine
  itself has seen replaced. The project overview says old coordinates are not
  used.
- `workflow_repeats`: the repetition detector sees an action's `action_id`, which
  is new for every request (`reliability.py:63`), so repeating the same action on
  the same observation in a loop of routes goes unnoticed until the step limit.
- `offers_second_item`: a discount on the second piece is applied by the
  comparison engine whatever the count (`comparison/engine.py:161`), although
  normalization asks for two pieces (`platform/base.py:99`) and the documents
  say that a missing count gives no price.
- `android_paths`: the collector numbers the children it got, the executor
  counts slots (`ObservationCollector.kt:68`, `AndroidActionExecutor.kt:104`):
  after a child that could not be fetched, a node id leads to another element.

Noted without a run:

- In a text like "99元，现价10元券" (99 yuan, now a coupon of 10) the offer sells for 10:
  `price.py:270-277` leaves the amounts of a coupon out only for the loose patterns,
  not for a labelled one. `OffersAreEvidenced` states what is left.
- `BrowserRuntime.scroll` scrolls the first element that carries the number, hidden or
  not, and returns True (`browser.py:188-190`): with the numbers of an older
  observation about, that is not always the element observed, on an unchanged page.
  A click whose element is covered goes to what lies at its bounds.
- The compressor prunes before it merges (`compressor.py:141-149`, then 180-189), so a
  wrapper whose two equal leaves become one stays, with a single child.
- Commands of a device that stays silent are never settled and count against its
  queue (`store.py:81`); the phone uploads only on accessibility events
  (`PriceSightAccessibilityService.kt:23-35`).
- A wait that times out returns nothing even if a change is already in the queue
  (`event.py:73`, a timeout of 0), and what it returns may be the screen of another
  device.
- A late upload makes an older screen the "latest" one (`store.py:208`,
  `main.py:77`); the phone's own check then refuses what is planned on it.
- `docs/agent-decision-boundary.md:22` says a workflow must hand off when the
  expected transition is not observed; without an `on_failure` route
  `engine.py:143` ends it as FAILED. The router binds a decision to the
  observation of the run's end (`router.py:57`) after calls of the model that may
  take long, though it promises "freshly bound" decisions.
- "Fewer than two comparable platform offers" (`comparison/engine.py:103`) counts
  offers: two cards of one shop are enough for a recommendation.
- The comparison's matcher does not look at `ambiguous`, so an ambiguous product may
  be recommended.
- A free second piece makes `compare()` raise (`specification.py:43`: a ratio of
  0, which a rule does not accept), for all sources.
- `docs/ARCHITECTURE.md:100` says leaving the allowed hosts stops the runtime;
  `set_text`, `scroll` and `wait` do not look at the host (`browser.py:178`).
  `stop()` sets `stopped` (`browser.py:212`), which nothing reads.
- After a failed call of the model `HybridProductParser` returns the result of the rules
  with its own `ambiguous` (`hybrid.py:54`): with a `confidence_threshold` above 0.88
  (0.75 is the default) a result below the threshold may claim to be certain.
- After a page that was still loading, the runner's report keeps `login_required` and
  `captcha_detected` of the first look (`run_taobao_readonly.py:107`).
- The Taobao adapter reads `data-original-price`, which is not among the attributes
  of the browser's snapshot (`browser.py:69`): `original` in `PriceReading` occurs
  only for observations from elsewhere.

## 7. Plan

What is left, the most useful first:

1. A bound on the event queue, should `EventDrivenTransport` get one, and what is
   dropped then.
2. The walk of `run_android_runtime_e2e.py` over a phone, if its report becomes
   something the rest relies on.
