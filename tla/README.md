# esprayo, specified

esprayo is "money spraying" for live events: guests join a gift room over a
WebSocket, fund an in-app wallet and spray notes; hosts watch a live leaderboard.
The server is a NestJS application over Postgres, Redis and BullMQ; the client is
a Next.js application. Nothing in the repository is tested (README.md:282), and
almost every operation is several awaits on two stores. These modules model the
operations at that grain: **one await is one step**, and steps of different
requests, sockets, jobs and failures interleave freely.

Two facts about the platform are used everywhere. A Node process runs the code
between two awaits without interruption, so a command and the code after it are
one step. Commands on the one ioredis connection reach Redis in the order they
are sent; a Lua script is atomic; a pipeline is not.

## Inventory

| component | state it keeps | operations | what is hard | what makes it correct | module |
|---|---|---|---|---|---|
| Wallet service and debit worker (`libs/wallet`) | Redis `wallet:<user>:balance` with a TTL or without; `wallets` row; `wallet_transactions` rows; BullMQ queue `wallet` | createWallet, getBalance, credit, debit, syncWallet, the worker's `process` | two copies of one balance, one of them late; unlocked read-modify-write; expiry; jobs retried and redelivered; an add nobody awaits | no overdraft, one credit per reference, the two stores agree once the queue is empty | `Account`, `Wallet`, `WalletAccount` |
| Transfers (`WalletService.transfer`) | row locks, uncommitted ledger rows | transfer, with credit and the worker | lock order, waits on a unique index | nobody waits for ever, a check holds until it is used | `Transfer` |
| Gift sends (`libs/gift`) | Redis lock `gift:lock:<reference>`; queue `gifts-persist`; `gifts` rows | sendGift, saveGift, the worker | failure after each of five awaits, clean-up racing a second send | charge once per reference, record only what was paid, keep what was answered | `GiftSend` |
| Leaderboard (`libs/leaderboard`) | sorted set, meta hashes, totals | addGiftFull, getTop, setExpiry, resetEvent | a pipeline that runs in part | scores cover exactly the answered gifts | in `GiftSend` (addGiftFull) and `RoomFeed` (getTop) |
| Room gateway (`getway/event`) | `client.data`; Redis `guest:active:<user>`, `event:<id>:guest_count` | handleJoin, handleLeave, handleDisconnect | handlers overlap, even those of one socket; two tabs | nobody counted twice, the count returns to zero | `GuestPresence` |
| Events (`libs/event`) | `events` row, Redis hash `event:<id>` | createEvent, activateEvent, endEvent, updateEvent, validateAndReseedEvent | find, check and save are apart; row and hash are apart | status moves forward; the door of a room follows it | `EventLifecycle`, composed with the gateway in `RoomAccess` |
| Room feed (`useGiftRoom`, `useLeaderBoardDisplay`, `RealtimeGateway`) | leaderboard and stats in the browser, 250 ms batch, the rooms of a socket | snapshot, patches, clean-up, reconnection | a snapshot read before a patch and delivered after it; a broken connection | the last board shown is the server's; nothing is announced that nobody sprayed | `RoomFeed` |
| Spray client (`Note`, `useSprayState`, `GiftRoom`, `giftWorker`, `useSendGift`) | the gesture, what is left, the optimistic balance, the pending amount | press, charge, swipe, batch, POST, answer, refund | a worker that outlives its page; refunds with sprays under way; rounding up | the balance promises no money twice, every spray settles | `NoteGesture`, `SprayClient` |
| Overlay (`useSprayState`, `WorldCanvas`, `CelebrationScreen`) | the amount shown, pools of notes, sparks and rings, two animation loops | swipe, frame, burst, celebration, close | frames that run late, loops nobody cancels | the counter follows, pools are bounded, all comes to rest | `SprayStage` |
| Phone login (`auth.controller`, `libs/otp`) | `otps` rows, the rate-limit key | sendPhoneOtp, verifyPhoneOtp | check then increment; delete, send, create; any await rejects; a crash before EXPIRE | bounded guesses, bounded texts, a lockout that ends | `PhoneLogin` |
| Accounts and sessions (`auth.controller`, `users`, `TokenPage`) | `users`, `wallets` rows, one-time codes, cookies | Google callback, exchange, POST /users, password login | sign-ins that race, a crash between user and wallet | one token per code, a wallet for whoever signed in by Google | `Session` |
| Push (`libs/push`, `PushSubscriber`) | `push_subscriptions` rows | subscribe, send, clean up | a clean-up of a renewed endpoint | a live subscription stays | `Session` |
| Join page (`join.tsx`, `services/Event`) | boxes, preview, recent events in localStorage | type, erase, paste, look up, enter | lookups answered in any order, also after their page | a guest enters the event typed | `JoinByCode` |

Left out: SMS and storage services (HTTP calls to others), the JWT guard
(stateless), migrations (offline), configuration, the admin API (no handlers), the
big screen's effects, pages and the service worker (presentation). See "Not modelled".

The components meet as follows. `GiftController` makes a reference and calls
`GiftService.sendGift`, which calls `WalletService.debit`, the persist queue and
the leaderboard, then emits to the room. The gateway asks `EventService` for the
status and `WalletService` for the balance on every join. Logins call
`createWallet`. A swipe goes to the overlay, the page's balance and the worker, whose
batch is the POST that `GiftController` answers. `PROJECT.json` lists every component, and under `hazards` every
place where this goes wrong in a way a test would hardly reach.

## Modules

### Account, Wallet, WalletAccount

`Account` is what a wallet promises: a top-up adds, a debit takes only what is
there. `Wallet` is the code. `cache` is the Redis key (`Missing` when absent),
`expires` says which keys have a TTL (getBalance, credit and debit's hydration
set one, createWallet and syncWallet do not), `wallet` the row, `refs` the
unique column of the ledger, `net` the ledger's sum, and each call has a `pc` and
the balance it `seen`. `FindWallet` is the findOne that all five operations make,
`Publish` the plain SET that four of them end with, `CommitCredit` credit's
transaction after its unlocked read, `Lua` the script together with what follows
it in `debit`, `Hydrate` the SET NX. `debit` does not await `walletQueue.add`:
`Enqueue` happens after the answer, or `EnqueueLost` does. The worker takes
waiting jobs in any order (20 at a time); `ApplyDebit` is its transaction, one
step because its UPDATE locks the row; `Stall` redelivers a job, committed or not.

`WalletAccount` maps the wallet to the account: the spendable balance is the row
less the debits Redis has accepted and Postgres has not taken.

The worker's `const [result] = await em.query("UPDATE ... RETURNING")` means to take the
first row, and its `!result` to notice that no row had enough money. The pinned TypeORM
(0.3.28 in `pnpm-lock.yaml`) answers an UPDATE with `[rows, count]`, so `result` is the array
of rows, an empty one at worst, and the branch at wallet.processor.ts:46-55 is dead:
`ApplyDebit` writes the ledger row whether or not its UPDATE took anything
(`LedgerDebitsTaken`, violated in `wallet_overspend`). A SET that fails after credit's commit,
or at the end of getBalance, is logged and answered with success (`PublishFails`).

### Transfer

Only the statements that lock or wait: transfer's two SELECT FOR UPDATE in sorted
order, the row lock of an UPDATE, and the wait of an INSERT for another open
transaction's row with the same unique reference. An UPDATE whose guard fails locks
nothing (`Misses`); the debit job goes on to its INSERT all the same, and its commit moves
the balance only if it `Took` the row. Balances a transaction writes
show at its commit, where locks are given up. credit's UPDATE and its stale sum
appear too, since it meets transfers at their rows.

### GiftSend

One send is `AcquireLock`, `Debit`, `Enqueue`, `Score` and, on failure,
`Cleanup`, each with its failing twin in which the effect has or has not taken
place. The debit takes from one balance what is there, as `Wallet` is shown to do
(`ImplementsAccount`, under `QuietSpec`). References are the model's choice: the one caller in
the repository makes a new one for each request (gift.controller.ts:46), and `ChargedOnce` says what
`sendGift` does for a caller that would not. A
send that dies leaves its lock (`LockLeftBehind`). `AddGift` is the pipeline,
whose commands may run in part when it fails.

### GuestPresence

A handler per message of a socket; the handlers of one socket start in order and
then overlap. `validate`, `claim`, `incr` or `renew` and `read`, `snapshot` are
handleJoin's awaits, `get`, `del`, `decr` those of handleLeave and
handleDisconnect, which differ only in where the event comes from and in clearing
`client.data`. The ghost `orderly` becomes FALSE when a handler of a user starts
while another of that user is under way, or if the user visits two rooms: exact
counts are promised only before that, and `NeverOvercounts` always.

### EventLifecycle

Only the status of an event matters here. `Find` and `Save` are the two awaits of
each host call; `updateEvent` saves back the status it found, because TypeORM's
save writes every column in which the entity differs from the row. `Reseed` changes
nothing: it writes a key nobody reads (finding). The ghost `orderly` says that
host calls have not overlapped. The module is a part: it has no specification of
its own.

### RoomAccess

The gateway and the events composed. A join to the event whose host is at work is a
call of `EventLifecycle`: its handler waits at `validate` for the awaits of
validateAndReseedEvent, and enters the room, or is turned away, in the step of the
last of them. Events of other hosts admit as they like. `began` remembers the status
a join began with, when no host call was under way. The lifecycle's `orderly` is
`calm` here, where `orderly` is the gateway's.

### RoomFeed

`Serve` is the gateway's side of one socket: the handler of a join enters the
room, later reads the snapshot, later answers; `Gift` raises a score and emits
the patch to the sockets that are in the room at that moment. `Show` is the
browser's: it receives answers and patches, collects patches, and applies
them when the batch timer fires. The display page then compares podiums (`Render`).
The ghost `applied` is the number of the latest gift on the board. `SteadySpec` adds `Lucky`, what
the code leaves to luck: a page is not closed while its join is under way, the next
page opens when all messages are through, and nothing puts an older score back:
no batch is applied between a join's read and its answer, nor a patch older than the
answer's board after it, which takes two sends that failed after their points. Without
these the board can stay wrong, or a raise is announced twice; these are findings.

### NoteGesture, SprayClient

`NoteGesture` is the state of the top note: pressed, held, charging, dragged. Its
timers and frames fire when they like. `SprayClient` adds what a swipe does: useSprayState
takes the notes off, handleSend debits the balance shown, the worker batches until
300 ms pass without a spray, the POST is charged or refused at the server and the
answer settles or refunds. The worker lives as long as the tab, so batches
of a closed page go through the handler of the next. Three *mishaps* make the balance
shown wrong, and are counted: a state updater that runs after its ref was cleared, an answer
that is lost, and a page opened while the one before was still spraying. The ghost `dropped`
says that this page's handler, for want of a token, sent a batch nowhere. `SpraysSettle` asks
that again and again nothing is under way, and that a page which is there without a mishap or
a dropped batch then shows what the wallet holds: each of its notes was charged, or given back.
A batch that finds no page at all is lost with its notes, which nobody charged.

### SprayStage

One overlay after another. `SwipeNotes` takes notes off what is left and asks for a
frame, `Render` is that frame; the canvas has pools (`notes`, `bursts`, `rings`)
whose members have at most `Life` frames to live; `Play` is the celebration's own
loop, which a closed overlay does not stop (finding).

### PhoneLogin

One phone number, requests that overlap. `Count` is INCR and `CheckRate` what follows
its answer, EXPIRE for the first request of a window; `ClearRows`, `Text` and `SaveRow` the three awaits of a
send; `Look`, the provider's `Answer` and `Guessed` those of a guess. `Crash` kills all
requests, and `Fail` is any await that rejects while the process lives: the INCR whose reply is
lost, the EXPIRE, a delete that was or was not done, the INSERT, the provider, the increment of the
attempts. Ghosts count the texts of a window and the guesses sent to the provider for a pin.

`fits` says whether the table `otps` has every column of its entity. On the repository's own
migrations it does not: 1779260218941 makes no `user_id`, `orm.module.ts` has `synchronize: false`, and
every INSERT and SELECT of the entity fails (finding). As shipped, therefore, only the behaviours
with `~fits` arise: texts are sent and no row is ever saved. `SmsBounded` and `LockoutEnds` are about
those as well; `GuessesBounded` has no guess to count until the column is there. The run has both.

A counter that never got its time to live locks the number out for good. `LockoutEnds` allows for
the three ways in which that happens, a crash, a lost reply and a rejected EXPIRE (ghost `lost`,
finding), and shows that there is no other.

### Session

`Callback` is the Google callback: find the user, upsert, find the wallet, save it,
store the code and redirect; `Exchange` is GETDEL, once per code. `Registration`
covers POST /users (whose password a callback that looked before it nulls in `UpsertUser`, as the
upsert does), the password login, the cookie and the push subscription of
whoever is signed in, and `SendAll` with `CleanUp` a push with its deletes.

### JoinByCode

The boxes hold a full code or not; a lookup is two awaits (token, request) and goes on
when its page is left. The ghost `orderly` says that the code was not changed while a
lookup was under way; without it a guest can enter another event than the one typed (finding).

## What is checked

| run | instance | shows |
|---|---|---|
| `wallet_full` | 1 user, 3 calls of any operation, 2 references, balances to 3, 1 fault, 2 attempts | TypeOK, no overdraft in either store (`NeverOverdrawn`), one credit per reference (`CreditedOnce`), balances moved only by money (`OnlyMoneyMoves`), a queued debit reaches the ledger unless all its attempts fail (`QueuedDebitSettles`) |
| `wallet_quiet` | the same with every request and 2 faults, under `QuietSpec` | the wallet implements `Account` (`ImplementsAccount`); ledger and rows agree (`BooksBalance`); Redis never promises more than Postgres will hold (`CacheNeverOverpromises`) |
| `wallet_overspend` | a top-up and two debits | **violated** `LedgerDebitsTaken`: the same money is spent twice, and the ledger has a debit that no row paid |
| `transfer` | 2 users, 3 transactions of 3 kinds | funds found under a lock are there when they are written (`ChecksHold`), every transaction ends, and no transfer ever commits (`TransfersNeverLand`) |
| `gift` | 2 guests, 2 gifts, 3 sends over 2 references, 1 fault | a reference is charged once, nothing unpaid is recorded, answered gifts count and are saved |
| `room` | 2 tabs of one guest or of two, up to 4 handlers a socket, 2 rooms, 1 fault, hosts at rest; and 1 tab with 4 calls of the host, 1 fault, 1 failed call or lost hash | nobody is counted twice (`NeverOvercounts`), counts are exact (`CountsGuests`), an older tab leaves the newer one's key (`NewestTabStays`), the status moves forward, the door follows the host (`DoorFollowsHost`) |
| `feed` | 1 browser, 2 rooms, 2 guests, podium and snapshot of 1 entry, 3 gifts, 2 joins, 1 fault | a page with nothing under way shows the server's board, nothing is announced that nobody sprayed, a page that stays ends up right |
| `spray` | full charge of 2 notes, 2 POSTs under way, balance 3 with notes of 2, 3 pages or overlays, 1 mishap | the balance shown promises no money twice, an overlay overdraws by less than a note, every batch settles and is on the page's books |
| `otp` | 2 requests at a time, limit 1, 2 attempts, 2 pins, 2 requests a window, 1 crash, 1 await that rejects | TypeOK, guesses and texts are bounded, a lockout ends unless a window's INCR or EXPIRE met one of these |
| `session` | 2 people, 2 browsers, 2 codes, 2 endpoints, 1 crash | SessionTypeOK, whoever came by Google has a wallet, no clean-up takes a live subscription |
| `join` | 4 codes, 3 of them events, 2 recent, 4 lookups, 1 fault | recent events are the latest, the code in the boxes is the event entered, the page settles |
| `stage` | totals 0 and 7 with notes of 2, swipes of 1 and 2, pools of 2 and 3, 2 overlays | pools stay bounded, the counter follows, all comes to rest |

**Why these bounds suffice.** Wallets do not share state except through
transfers, so one user is enough for `Wallet`. Every hazard listed for it needs at
most three requests: a writer, a second writer, a debit. Balance 3 with amounts 1
and 2 makes a debit covered, just covered and refused; an integer column that
overflows is reached too. Two references make equal and different ones. One
deadlock cycle needs two transactions, three show that a bystander does no harm.
A reference lock's worst case is an owner, a contender and a second gift. Two tabs
meet in every pairing of join, leave and close, with a rejoin between. A host's
door needs creation, activation and two calls more: a double activation, an end, an update after
the end. A snapshot of one entry and two guests push each other off the podium,
which is where announcements go wrong. Three pages are the one that sprayed, the one that
gets its batch and the one that fetches too early. A limit of 1 is passed by a second
request, and a window that ends lets both count anew. Two lookups make any order of answers, four
let pages be left in between. `MaxFaults`, `MaxAttempts`, `MaxMishaps`,
`MaxCrashes` and `MaxRestarts` cap failures; the debit job has ten attempts, where two already separate
"retried" from "given up". All other `Max...` constants marked *bound* in the modules
cap counters that the code lets grow.

**Deadlock** is checked in `transfer`, `room` and `join`. `Transfer` and `RoomAccess`
stutter explicitly when all is over, `JoinByCode` never is. The other modules stop when
their requests, visits or bounds are used up, and their configurations say so.

**Fairness.** `Wallet!FairSpec` is weak fairness of each job's steps: BullMQ keeps
polling. `Transfer!FairSpec` is weak fairness of each transaction's next
statement: Postgres grants a lock that stays free, and the client of an open
transaction sends its next statement. `GiftSend!FairSpec` is weak fairness of a
send that is past its lock, which the event loop carries on, and of the worker.
`RoomFeed!FairSpec` is weak fairness of each socket's handlers and messages and of each page's
timers, including socket.io's reconnection, which tries without end.
`SprayClient!FairSpec` is weak fairness of the worker's timer and of each POST,
which is answered or times out. `PhoneLogin!Spec` obliges handlers to go on and Redis
to expire a key that has a TTL; `JoinByCode!FairJoinSpec` lookups to be answered;
`SprayStage!StageSpec` the browser to run frames that were asked for. No request, gesture,
expiry without a property that names it, or fault is ever obliged to happen, and no guest to do anything.

**Environment assumptions.** `QuietSpec` restricts `Wallet` to behaviours in which no
request that copies the Postgres balance into Redis (createWallet, getBalance on
a miss, credit, syncWallet, a hydration) overlaps a debit of the same user that
Postgres has not taken, or another such copy, and no committed job is delivered
again. `Lucky` restricts `RoomFeed` as described above. The ghosts `orderly` and `calm`
condition single properties on handlers of one guest, calls of one host, or edits and
lookups of one page that do not overlap. The code enforces none of these; the findings
show what happens without. They are stated so that everything else can still be checked.

## Findings

Each is in `PROJECT.json` with the line it quotes. Shown by a run: money spent twice, with a
ledger row for a debit nobody paid (`wallet_overspend`), and transfers that can never commit (`transfer`, and a theorem).
Met while modelling, each named where the model accounts for it:

- money: the lost top-up, the redelivered debit that subtracts twice, the retried gift
  that is charged again, the refund given twice, the reopened overlay that starts from
  the balance of the page, the last note rounded up, the charge that goes on with no pointer down;
- rooms: the event that an update reopens, the reseed under the wrong key, an older snapshot over newer
  scores, an older patch over a snapshot after sends that failed late, a join that enters after its leave, an error page that stays, fields that client
  and server name differently, the display that counts as a guest;
- accounts: the phone user that can not be created, the phone login's missing page, the `otps` table
  without its column, two OTP rows of a number, the counter that never expires, the account without a wallet, the push subscription
  that is never posted again;
- pages: the wrong event entered after overlapping lookups, the cancellation that does
  nothing, seven rings where six are allowed, loops and pieces that outlive their screens.

## What is proved

TLAPS proves the following for every value of the constants that satisfies the named
assumptions. Users' calls, sends, OTP requests, a room's users, events and sockets, the
POSTs of a page and the guests of a leaderboard are finite sets of any size (`CallsAssumption`,
`SendsAssumption`, `LoginAssumption`, `FiniteAssumption`, `SprayAssumption` and `RoomFeed`'s
`BoundAssumption`); references, transactions, browsers, rooms and codes may be any sets.

| theorem | statement | argument |
|---|---|---|
| `Wallet_proofs!TypeCorrect` | `Spec => []TypeOK` | inductive as it stands, with what a step's `pc` says of its row |
| `Wallet_proofs!NoOverdraft` | `Spec => []NeverOverdrawn` | needs `seen >= 0` as well: a snapshot is written back steps after it was read |
| `Wallet_proofs!TopUpCreditedOnce` | `Spec => []CreditedOnce` | strengthened by: a committed top-up's reference is in `refs`, which only grows |
| `Wallet_proofs!MoneyMoves` | `Spec => OnlyMoneyMoves` | one case per operation; the worker's and credit's commits are the only ones that write a row's money |
| `Wallet_proofs!QuietBooksBalance` | `QuietSpec => []BooksBalance` | a top-up about to commit holds the row's present balance; a job about to commit has a fresh reference |
| `Wallet_proofs!QuietPromisesKept` | `QuietSpec => []CacheNeverOverpromises` | `PromiseInv`: what Redis has accepted and Postgres not yet taken (`Owed`, a sum over the calls) is covered by the row, and the key holds no more than the difference; a copy under way has seen the row as it is |
| `Wallet_proofs!WalletIsAccount` | `QuietSpec => ImplementsAccount` | under `PromiseInv` each step either leaves row less `Owed` alone, or is the account's top-up or debit: the refinement, step by step |
| `Transfer_proofs!TransferTypes`, `LocksTakenInOrder` | the lock discipline | what is locked at each `pc`: nothing at `first`, at most the first row at `second` |
| `Transfer_proofs!CheckedFundsStay` | `Spec => []ChecksHold` | needs that a transfer past its lock statements has its rows, that a debit job holds a row only if its UPDATE found the money, and that no row has two holders |
| `Transfer_proofs!NoTransferLands` | `Spec => []TransfersNeverLand` | a transfer's two equal references fail `Unique`, so it is never at `commit` |
| `GiftSend_proofs!ReferenceChargedOnce` | `Spec => []ChargedOnce` | a send in flight, or answered, owns its reference's lock, alone among the unfailed sends of it |
| `GiftSend_proofs!EverythingPaid` | `Spec => []NothingUnpaid` | `PaidInv`: whatever a step goes on to record was charged before it, and the board is no more than the sums over the sends that reached the pipeline |
| `GiftSend_proofs!AnsweredCounts` | `Spec => []AnsweredGiftCounts` | inductive with the types: a send is answered in the step that adds its gift in full, and no step takes anything off the board |
| `RoomAccess_proofs!StatusForward` | `RoomSpec => StatusMovesForward` | while calm, one call of the host is under way at most and overwrites the status it found |
| `RoomAccess_proofs!DoorIsRight` | `RoomSpec => DoorFollowsHost` | with the above: unless it was lost, the hash is behind the row by that call's save at most, so what a join that met the event active, or ended, reads and finds is what it met or later |
| `RoomAccess_proofs!NewestTabKept` | `RoomSpec => NewestTabStays` | while orderly, a user has one handler under way at most, and at `del` the key is its socket |
| `RoomAccess_proofs!GuestsNeverOvercounted` | `RoomSpec => []NeverOvercounts` | `OvercountInv`: the handlers about to increment count as guests already |
| `RoomAccess_proofs!GuestsCounted` | `RoomSpec => []CountsGuests` | while orderly, a guest's key is there from its claim on (`PresenceInv`), each room drifts by failed calls only (`DriftInv`), and what a join will announce includes its guest (`ToldInv`) |
| `RoomFeed_proofs!FeedTypes` | `Spec => []TypeOK` | queues and batches stay sequences of their messages; what a batch leaves on the page is again a board |
| `RoomFeed_proofs!FeedNothingInvented` | `SteadySpec => []NothingInvented` | `FeedInv`, below: what is announced of a guest is at most what the page shows, or what is on its way to it |
| `RoomFeed_proofs!FeedSettles` | `SteadySpec => []SettledBoardIsRight` | `FeedInv`, below: a guest whom no patch is about any more is shown as the server has it |
| `Login_proofs!LoginTypes`, `SmsStayBounded` | `Spec => []TypeOK`, `Spec => []SmsBounded` | the texts of a window and the requests that may still send one are together no more than its hits, nor than the limit |
| `Login_proofs!GuessesStayBounded` | `Spec => []GuessesBounded` | `GuessInv`: the guesses sent at a pin are no more than its row's attempts, those still under way, those that crashes may have forgotten and those whose await rejected |
| `Login_proofs!SessionTypes` | `SessionSpec => []SessionTypeOK` | with what a handler's place says of its user, and that a code which still has an owner has given no token out |
| `Login_proofs!GoogleSignInHasWallet` | `SessionSpec => []SignedInHasWallet` | strengthened backwards along the callback: a code's owner, and a callback past its wallet step, have a wallet; wallets are never removed |
| `Login_proofs!LiveSubscriptionsStay` | `SessionSpec => LiveSubscriptionStays` | what a send is about to delete, the push service no longer knows, and an endpoint once gone never works again |
| `WebClient_proofs!SprayTypes` | `Spec => []TypeOK` of `SprayClient` | with `PageInv`: nothing of a page is there without one, and an overlay or a debit belongs to a page that knows its balance |
| `WebClient_proofs!SpraysItsBalance` | `Spec => []OverlaySpraysItsBalance` | sprayed and remaining are the first balance until the last spray, which is rounded up by less than a note |
| `WebClient_proofs!BalanceStaysHonest` | `Spec => []BalanceIsHonest` | `CalmInv`: without a mishap all under way is the page's own, and a balance on its way is the wallet's; then each step moves an amount between the balance, what is owed, the batch and the POSTs (`Amounts`, sums over them) |
| `WebClient_proofs!CounterIsRight` | `StageSpec => []CounterFollows` | inductive as it stands; the frame renders what is left then |
| `WebClient_proofs!PoolsStayBounded` | `StageSpec => []PoolsBounded` | what joins a pool adds to its size, a frame moves its members on and drops the oldest; sizes are sums over the frames left |
| `WebClient_proofs!EnterIsRight` | `JoinSpec => EntersTheCode` | while orderly, the page has at most one lookup, of the code in the boxes, and only with one under way may the preview be another event |
| `WebClient_proofs!RecentsAreTheLatest` | `JoinSpec => []RecentsAreLatest` | `RecentInv` (lists of events, no more than `MaxRecent`) makes it inductive; `WithoutMeans` says what the filter leaves of a list without repetitions, `SavedMeans` where the rest moves |

**The room feed's invariant.** `SettledBoardIsRight` speaks of a page with nothing under way, so
an induction needs what is true meanwhile, and `FeedInv` says it in two parts for each browser.
`JoinInv` is where the page's join is: on its way, with its handler, or answered; from this follows
whether the socket is in the page's room, and so whether it receives the patches. `PageInv` is about
the patches collected or arriving (`Stream`) and the boards being answered (`Boards`): the patches are in
the order of their gifts (`Ordered`) and each says what was true of the page's room (`Honest`); the
last of a guest has the score the server has now, but for a guest whose last send failed
after its points (`Complete`); nothing more is announced of a guest than is shown or on its
way (`Modest`); and a guest whom no patch is about is right on the page (`Current`) and on a board
that will be shown (`Fresh`). *Right* is `Fine`: the server's score, or no entry while `Limit`
guests are at least as high, since a snapshot is cut. TLC checked `FeedInv` on the run's
instance and on two with five gifts and two faults before it was proved.

A batch is a fold along its patches (`Patched`), the recent list one along itself (`Without`). Neither is
unfolded by the provers, so `IterationExists` (`FiniteSums`) shows that the function a fold
chooses exists, and a least prefix for which its meaning fails leads to a contradiction
(`PatchedScores`, `WithoutMeans`).

`FiniteSums` holds what these proofs need of sums (`SumFunctionOnSet`) and cardinalities over
finite sets: that a fold over a finite set exists, that a sum loses or gains one term, that it
depends on the terms only, adds up termwise, is monotone, and is the same when the terms move.
A fact about all finite sets is shown by taking a minimal subset of which it fails.
It also holds the least and the greatest of a set of naturals, and `IterationExists`.
`WebClient_proofs` covers three modules of the client, `SprayClient`, `SprayStage` and
`JoinByCode`, and `Login_proofs` the two ways in, `PhoneLogin` and `Session`. The modules taken
together share no variable, and their names differ.
Every inductive invariant was first checked by TLC on the instance of its component's run.

Only model-checked: liveness (`QueuedDebitSettles`, `EveryTransactionEnds`,
`AnsweredGiftIsSaved`, `EventuallyRight`, `SpraysSettle`, `LockoutEnds`,
`SettlesOnTheCode`, `StageComesToRest`), which is beyond the prover. Every other property of the passing
runs is a theorem.

Working towards the proof of `NothingInvented` showed that an earlier form was false on instances
larger than the run's: two sends that fail after their points let a snapshot overtake a patch that
waits in a batch, and the raise that the batch undoes is announced again. `Lucky` excludes this,
and is the premise of both theorems about boards: it stands for what the code leaves to timing.

## Not modelled

Most lines of the web application are markup, styling and animation, which
change no state that the properties could tell apart: this is why the map covers a
modest share of the repository's lines. In particular the big screen's alert, cash rain, glory
and confetti, a row's flash and the feed's lines, where notes fly, forms that make one
request, and the service worker's asset cache. `onRivalry` listens to an event
the server never emits. Storage and SMS are calls to external services, whose answers are
choices where a module needs them; guards and controllers check and delegate; migrations run offline. The guest
counter's TTL, set by the first guest only, is left out of `GuestPresence`:
after it ends the count is simply wrong, and no property could say more.

## Plan

Done, in this order: `Account`, `Wallet`, `WalletAccount`; `Transfer`; `GiftSend`;
`GuestPresence`; `EventLifecycle`; `RoomFeed`; `NoteGesture` and `SprayClient`; `PhoneLogin`;
`Session`; `JoinByCode`; `SprayStage`; `RoomAccess`; with the proofs listed above, last those of
`RoomFeed` and of the recent events.

Left: a composition of `SprayClient` with `GiftSend` over several guests, for which the
present instances are too large.
