# Verification of the room-booking service

TLA+ modules for the service in this repository: the handlers, services and SQL
statements that make and cancel bookings, those that turn weekly schedules into
bookable slots, the users for whom all of that is done, the lists they read, the
process that runs it and the command that fills it with demonstration data, with
the interleavings, failures and crashes that a unit test cannot reach. TLC checks
small instances; TLAPS proves what matters most for every size. The code is the
reference for every definition; `PROJECT.json` names, under `map`, the lines
that each definition stands for.

## The system

One Go process serves HTTP and runs a background worker; PostgreSQL holds all
state. The program takes no locks: requests and the worker meet only in the
tables, statement by statement. There are no transactions, so a handler that
needs several statements is interleaved with every other one.

| Component | State | Operations | What makes it correct |
|---|---|---|---|
| Bookings (`internal/booking`) | table `bookings` | create, cancel | one active booking per slot; answers that stay true; only owners cancel |
| Booking lists (`internal/booking`) | none | list, my | pages and totals; only future slots under `my` |
| Conference links (`internal/conference`) | links alive at an external service | create, delete | no link lost without anyone knowing |
| Schedules (`internal/schedule`) | table `schedules` | create | one per room, never changed |
| Slot builder (`internal/slot/builder.go`) | none | build | exact half hours within the schedule |
| Slot worker (`internal/worker`) | table `slots` | one round per tick | every schedule gets its slots, whatever failed before |
| Available slots (`internal/slot`) | none | list | free and bookable |
| Rooms (`internal/room`) | table `rooms` | create, list | rooms never vanish |
| Auth and users (`internal/auth`, `internal/user`, `internal/middleware`) | table `users`, tokens | register, login, dummy login, token check | one user per email; tokens of real users only |
| Database access (`internal/db`) | connection pool | query, exec with a deadline; connect with retries | deadlines; nothing leaked |
| Process (`cmd/app`) | server, worker, pool | start, shut down | order of the shutdown |
| Seed (`cmd/seed`) | rows of a demo | users, rooms, schedules and slots, a sample booking | a reported success is complete; can be run again, after anything |

How they interact. A booking request reads a slot, calls the conference service
and inserts a row; the row's foreign key and the partial unique index
`idx_bookings_slot_active` have the last word. Creating a schedule reads the
room and the room's schedule, inserts a schedule (the unique `room_id` has the
last word) and then inserts slots one by one. The worker does the last part for
all schedules at its start and on each tick. No code removes a room, a schedule,
a slot or a booking, and a booking's only change is its cancellation.

What is hard here:

- between two statements of a request anything may happen: other requests, the
  worker, the clock, midnight;
- every statement has a deadline, and `Storage.Query` and `Storage.QueryRow`
  cancel their context before the rows are read: a statement that fails for the
  caller may have been executed, or be executed later;
- the conference service and the database share no transaction;
- slots are inserted one at a time, and any of these inserts can be the one that
  fails; the process can exit anywhere.

`PROJECT.json` lists each of these hazards at its line, with the properties that
would notice it.

## Modules

| Module | Models |
|---|---|
| `SlotReservation` | what bookings promise about slots, with no request and no database: a booking takes a slot nobody holds, and may give it up once |
| `Bookings` | create and cancel, from handler to statement, and the conference links |
| `BookingsProofs` | theorems about `Bookings` |
| `SlotBuilder` | `Builder.Build` as operators |
| `SlotHorizon` | the calls of `Build` that the worker makes for one schedule, a day after the other |
| `SlotBuilderProofs` | theorems about `SlotHorizon`, and so about `SlotBuilder` |
| `SlotCalendar` | what schedules and slots promise, with no call, no worker and no failure: a room gets one schedule for good, and its slots are half hours of it, each made once |
| `SlotGeneration` | schedule creation and the slot worker over the tables `rooms`, `schedules` and `slots` |
| `SlotGenerationProofs` | theorems about `SlotGeneration`: types, refusals, no overlap, the refinement, what a 201 and a finished round have generated |
| `BookingService` | `Bookings` on top of `SlotCalendar`, with the lists of free slots, of a user's bookings and of rooms, and the creation of rooms |
| `BookingServiceProofs` | theorems about `BookingService` |
| `Accounts` | registration, login, dummy login and the token check over table `users` |
| `AccountsProofs` | theorems about `Accounts` |
| `BookingLists` | the admin's list of bookings, page by page, while bookings are stored |
| `BookingListsProofs` | theorems about `BookingLists` |
| `Lifecycle` | `cmd/app/main.go`: the attempts of `db.New`, the goroutines of server and worker, the signal and the shutdown |
| `LifecycleProofs` | theorems about `Lifecycle` |
| `Seed` | `cmd/seed/main.go` over the tables, beside a service that writes them too |
| `SeedProofs` | theorems about `Seed`: the refinement, that remains do no harm and that a success is complete |
| `MCBookings`, `MCSlotBuilder`, `MCSlotGeneration`, `MCBookingService`, `MCAccounts`, `MCBookingLists`, `MCLifecycle`, `MCSeed` | the constants of the instances TLC checks |

Which implements which. `Bookings` implements `SlotReservation`, and
`SlotGeneration` and `Seed` each implement `SlotCalendar` (`ImplementsReservation`
and `ImplementsCalendar`). `BookingService` composes `Bookings` with the calendar
in place of `SlotGeneration`, whose control would multiply its states for
nothing: all that bookings and lists read of it is tables.

Operators marked `\* defect` are not part of a specification: each is a bug that
one could plausibly write in the operator below it, and some property must
notice when it takes that operator's place.

### Bookings

A step is one call that leaves the process (an SQL statement or a call of the
conference service), with the local code up to the next one. A request `r`
stands for its goroutine, and also for the UUID of the booking and of the link
it makes, both fresh.

| Variable | Code |
|---|---|
| `slots`, `bookings` | the tables |
| `links` | the links alive at the conference service |
| `req` | the parsed request: user and role from the token, slot or booking id |
| `pc` | where the goroutine is: `getSlot`, `createLink`, `insert`, `deleteLink` for `Service.Create`; `getBooking`, `update` for `Service.Cancel`; `lost` if the process died under it |
| `result` | the domain error or success; while the link is being deleted, the error that will be answered |
| `inflight` | requests that gave up on a statement which the database may still execute |
| `now`, `crashes` | the clock, and how often the process died |

`InsertAbandoned` and `UpdateAbandoned` are the errors of `QueryRow` that say
nothing about what the database did. The statement goes to `inflight`, and later
`ApplyLate` executes it, or `DropLate` does not. A `Crash` does the same to
statements that were just being made. A definite error of the server is an
abandoned statement that is then dropped. `InsertOutcome` is the statement's own
logic: conflict on the index first, foreign key second. Of the malformed
requests (no token, bad JSON, bad UUID) nothing is modelled, since they reach no
state; the check of the role is.

The service compares a slot's start with its own clock, while `created_at` and
`updated_at` are the database's; the model has one clock for both. Nothing
depends on the difference except how far a booking can be past the start of its
slot.

### SlotBuilder and SlotGeneration

`SlotBuilder` states `Build` as a set: for each day of the range with a matching
weekday, the half hours from the schedule's start that end by its end. `Cut` is
the inner loop as it is written. Times are minutes, day 0 is a Sunday, and
everything is UTC as in the code. `SlotHorizon` puts a state machine around it: `sch`
is a schedule that passed the validation of `Service.Create`, `from` the first day
of the worker's range, which `NextDay` moves on.

`SlotGeneration` names a schedule by the call that made it, and keeps of a
slot's UUID who made it (`by`): the call or the worker.

| Variable | Code |
|---|---|
| `rooms`, `schedules`, `slots` | the tables |
| `call`, `pc`, `result` | the create calls, as above |
| `worker` | where `SlotWorker` is: `waiting` for its ticker, `listing`, `generating`, or `down` with the process |
| `todo`, `round` | the schedules of the current round still to process, those listed, and the rooms whose `BulkCreate` failed (the last is bookkeeping for a property) |
| `from`, `pending` | the first day of a `Build`, and what `BulkCreate` has yet to insert |
| `late`, `lateCalls` | abandoned inserts of slots and of schedules |
| `today`, `faults` | the UTC date, and the number of faults so far |

`BulkInsert` and `BulkFails` are one turn of the loop in `BulkCreate`, used by
calls and worker alike. `WorkerListsSome` is `ListAll` returning part of the
rows with no error, which it can because it never asks `rows.Err`.

Validation comes after the reads, as in `Service.Create`: an invalid body for a
room with a schedule is answered with the conflict. Malformed bodies are left
out as above.

`SlotCalendar` is the abstraction of both. `HoursOf` maps the schedule rows of a
room to its hours. Since a step of the calendar gives hours only to a room that
has none, never takes a slot away and adds a slot only of the hours its room
has, the refinement also says that schedules and slots stay as they are
(api.yaml:443) and that every slot lies on the grid of its room's schedule.

### BookingService

The module extends `Bookings` with the calendar's variables and with clients, who
make the calls below one after the other. `RowOf` is what the id of a slot stands
for: its room, times and maker. The slots of `Bookings` and those of the calendar
are one table: `CutSlot` is the step `SlotAppears` of the one and `CutSlot` of the
other.

| Variable | Code |
|---|---|
| `rooms`, `hours` | tables `rooms` and `schedules`, the latter as in `SlotCalendar` |
| `call` | the call each client makes: its next statement, its parameters, and what had been answered when it began (`heard`, bookkeeping for the properties) |
| `reply` | its answer, with the ids of the rows |
| `lateRooms` | rooms whose INSERT, abandoned or cut short by a crash, may still be executed |

`ListAvailable` reads the room, then the free slots of the day in one statement,
then leaves out what is booked; `ListByUserFuture` gets the clock that `ListMy`
read a step before; `ListRooms` is one statement. All three look at `rows.Err`, so
a list cut off is an error (`CallFails`). The list of rooms is there for completeness,
so that every route of the program is in some module; no property is about it. A
`ServiceCrash` may come whenever a request or a call is under way, and leaves the
INSERTs of rooms to the database as it does those of bookings. Order is left out, and conference links
are not requested here, which `Bookings` covers. A slot that has started stays on
the list of its day: api.yaml:514 asks only that it is not booked.

### Accounts

A user that registers has a fresh UUID, for which the request stands; the two
dummy users have the ids of the configuration. A stored hash is told from
another by its password, so the model keeps that, and `none` for NULL. bcrypt
refuses to hash more than 72 bytes (`Hashable`), but compares a password of any
length by those bytes alone (`BcryptKey`), so that passwords which agree on them are
one password to it. `LoginNeedsPassword` is stated up to that.

| Variable | Code |
|---|---|
| `users` | the table |
| `req`, `pc`, `result`, `inflight`, `crashes` | as in `Bookings`; the email in `req` is the normalized one |
| `token` | the token a login was answered with: user, role, expiry |
| `claims` | what `middleware.Auth` hands to the handler of a call that brings such a token |

`NormalEmail` says which spellings `normalizeEmail` makes one. `Ensure` fails
when another id has the dummy user's email, as the statement arbitrates on `id`
only. The assumption that the two dummy ids differ holds for the defaults of
`JWTConfig`; the code does not check it, and with one id for both roles
`AccountsAreStable` and `IdentitiesAreReal` would not hold.

### BookingLists

One action reads one page: `normalizePagination`, the statement, the total. The
table only grows, which is what `RowsOnlyGetCancelled` of `Bookings` says; a row
appears with any `created_at` up to now, since that is taken before the commit.
Rows with equal `created_at` come in an order that may differ from one request
to the next. The product of page and size is cut to an int of `MaxInt`. Who walks
through the pages is a client, there to state what the pages are worth together.

### Lifecycle

Three goroutines and the requests. Time is counted in seconds, and only where one
timeout of the configuration is set against another: while the database is being
reached, and while requests run.

| Variable | Code |
|---|---|
| `main`, `status` | where `main` is: `connecting` in `db.New`, `serving` until `<-ctx.Done()`, `draining` in `srv.Shutdown`, `closing` in the deferred `pg.Close`, `exited`; and with which status |
| `failures`, `elapsed`, `pools` | the loop of `db.New`: attempts that failed, the time they took, the pools that were opened and not closed |
| `signalled` | whether the context of `signal.NotifyContext` is done |
| `server`, `worker` | the two goroutines |
| `req`, `age` | each request and how long it runs |
| `busy` | who waits for a statement, and holds a connection |
| `draining` | how long `Shutdown` has been waiting |

`RequestTimeout` is the time within which every request ends. Nothing in the code
bounds it as such; a body is read within `HTTP_READ_TIMEOUT` (5 s), the router
cancels the context after 5 s and with it any statement, and beyond its statements
a handler computes a password hash at most. `HTTP_WRITE_TIMEOUT` (10 s) stands for
them together. The assumption that it is below `HTTP_SHUTDOWN_TIMEOUT` (30 s) holds
for the defaults and `.env.example`; nothing in `config.Load` checks it.

A failed `Ping` leaves its pool open, and `New` does not close it: with 10 s and
2 s at most 4 of them by the time one succeeds, since then the context is over.
`LeakIsBounded` says just that. A second signal, which `NotifyContext` would still
swallow, changes nothing.

### Seed

A run of the command is a process of its own, with `seedData` as its only
goroutine; a step is one statement, as elsewhere.

| Variable | Code |
|---|---|
| `users` | for the addresses of both test users, whether the row has the command's id, another one, or is missing |
| `rooms`, `hours`, `slots`, `held` | the tables, for the two seeded rooms; `held` are the slots with an active booking |
| `run` | each run: its next statement (`pc`), the room it is at, the slots it has yet to insert, tomorrow's date, the slot it books |
| `today`, `faults` | as in `SlotGeneration` |

`Register`, `OtherSchedule`, `OtherSlot` and `OtherBooking` are what the service's
users, admins and worker do to these rows. Only bookings of slots that the command
may look for are kept. A statement that fails, or whose run dies, may have been
executed (`Effect`); that it may also be executed later is not modelled here, since
to any other run it looks like a statement of a slower run. `OtherSlot` inserts from
the days ahead of today or of an earlier day, since a round of the worker may have
begun before a midnight. The time of day is not kept: once midnight has struck,
`CreateLink` may or may not find that tomorrow's 9:00 has passed (`SlotInThePast`),
which takes a run that was stopped for hours. The sample booking's
conference link is left out but for its failures, as it is `Service.Create` of
`Bookings` unchanged.

## Runs

| Run | Instance | Shows |
|---|---|---|
| `booking_safety` | 3 requests, 2 users, 1 slot, clock 0..1, 1 crash, deletions may fail | the meaning of every answer, the table's invariants, and that `Bookings` implements `SlotReservation` |
| `booking_liveness` | 2 requests, 2 users and an admin, 2 slots, 1 crash | every request is answered or lost in a crash |
| `slot_builder` | 17 boundary times for start and end, 4 sets of weekdays, 9 first days, 2 days ahead | the loop, its definition and a reference agree; next day's slots differ by one day |
| `generation_safety` | 2 calls and 3 inputs (two that would overlap, one invalid) for 1 room, 2 days, 2 faults | no overlaps, the meaning of the answers, and that `SlotGeneration` implements `SlotCalendar` |
| `generation_liveness` | 2 rooms, 2 calls, 2 days, 1 fault | the slots of the days ahead are made in the end, and a failing room costs the others nothing |
| `accounts_safety` | 3 requests, 1 mailbox in 2 spellings and the 2 dummy addresses, 3 passwords (one too long for bcrypt, and like another as far as it looks), 1 crash, tokens of 1 unit of time | one account per mailbox, the meaning of refusals, tokens and logins, stability of rows |
| `lists_walk` | 4 bookings, pages of 1, 2 and the default 3, clock 0..3 | a walk misses nothing, and repeats nothing without a reason |
| `service_safety` | 2 requests, 2 users and an admin, 1 client, 1 room, 2 schedules it may get, 3 slots on 2 days, 1 crash | no room is booked twice for one time; lists of slots and of bookings agree with the answers given before them |
| `lifecycle` | 2 requests, the timeouts of `.env.example` | leaked pools, orderly shutdown, and that a signal ends the process |
| `seed` | 2 runs, 2 rooms with one slot a day, 3 days ahead, 1 midnight, 1 fault | a success is complete, remains do no harm, and `Seed` implements `SlotCalendar` |

Why these sizes are enough. Conflicts on a slot are between two bookings; a
third request is needed to cancel in between, and three also give two cancels of
one booking. A second slot would only add requests that do not meet. One unit of
time separates "not started" from "started". For generation, two calls race for
a room; two faults are an error and a crash, or a fault of the call and one of
the worker; two days are one midnight, after which the next would be alike.
Requests and calls are symmetric in the safety runs: they are model values, used
only as names, and no temporal property other than an action property or a
refinement without fairness is checked there.

Three requests on users are two that race for an address and a login, or a login
and a call with its token. Four bookings are two pages and two bookings that
come between; four instants let all of them differ. An int has 4 bits (`MaxInt`
= 7): the offset of page 7 wraps to a negative number or to that of another
page, as those of pages near 2^62 do in the program. That a single request for
such a page is answered with other rows is in the model, but no property is
stated about it; the walks end well before that.

In `service_safety` a slot at midnight of either day shows both ends of the window
of a list, and a third overlaps the first if the room has the other schedule; two
requests are two bookings that could overlap, or a booking and its cancellation,
and a client that reads between any of their statements. `lifecycle` needs two
requests so that one may end while the other runs. In `seed` two runs are one
after another as well as at once; three days ahead let the sample booking find its
slot after a midnight, and with a fault that ends a run anywhere, what is left for
the other is any prefix of the command's work.

Bounds: `MaxTime` (bookings, accounts, lists), `MaxCrashes` (bookings,
accounts), `MaxDay`, `MaxFaults` (generation, seed), `Moments` and `LastDay`
(service). They stand in guards of `Tick`, `TimePasses`, `Crash`, `Midnight` and
`Fault`, and in the days a client asks for and the calendar cuts. In `Bookings`
and `Accounts` the action `Quiescent` lets an instance stop when all of its
requests have ended, so that every other standstill is a deadlock; `Stopped` of
`Lifecycle` does so once the process has exited. `lists_walk`, `service_safety`
and `seed` may stop: a walk that is over leaves nothing to do once all bookings
are stored, clients are free to call nothing, and the command ends.

### Where code and documentation differ

These runs are expected to fail; each checks a sentence of the documentation.

- `booking_link_lost` (README.md:208): a link is to be deleted when the booking
  could not be stored. It is also deleted when the booking was stored and only
  the answer was lost, and the booking keeps the dead link.
- `lists_total` (api.yaml:217): `total` is to be the number of all bookings. On a
  page past the last it is 0.

Two more differences can be read off the models and have no run. A slot that has
started is to be refused (api.yaml:570), but is refused at the time of the first
read only: `Bookings` lets the clock move between `GetSlot` and `Insert`. And a
schedule is to get its first slots at once (README.md:82), but if an insert fails
it stays without them until the worker's next round, while the client was told 500
and a retry is told 409: see `CallFailsToInsert` of `SlotGeneration`.

## Fairness

`Bookings`: weak fairness for the next step of each request (goroutines do not
wait for one another, and each call ends by its deadline), and for late
statements, which end with their connection. Arrival of requests, crashes and
time are not fair.

`SlotGeneration`: weak fairness for the steps of a call and of the worker
(nothing blocks them, the ticker ticks) and for `Restart`: somebody starts a dead
process again, which the repository leaves to its operator, as
`docker-compose.yaml` has no restart policy for the service. Faults are bounded
by `MaxFaults`; so `HorizonIsCovered` says that slots are completed once faults
stop for long enough, and not that they are while the database keeps failing.

`Lifecycle`: weak fairness for `main` (an attempt ends by its deadline, a pending
`<-ctx.Done()` or `Shutdown` returns when it can) and for the answers of
statements, which have deadlines; strong fairness for `Respond`, since a handler
makes a handful of statements and then answers. Nothing is assumed of the worker's
own steps, of the server, nor of the signal: `SignalEndsProcess` only follows one.

`Seed` and `BookingService` are checked for safety only. `SlotReservation` and
`SlotCalendar` have no fairness: what they promise is what never happens.

## Proofs

`BookingsProofs` proves, for any sets of users, slots and requests, any start
times, any number of crashes and any range of the clock, from the named
assumptions about the constants in `Bookings`:

- `TypeCorrect`, `NoDoubleBooking`, `RefusalsAreFinal`, `SuccessIsDurable`,
  `LinksAreAccountedFor`, `CancelledIsTrue`: the invariants of `booking_safety`;
- `OnlyTheOwnerCancels`, `RowsStay`: its action properties;
- `BookingsImplementReservation`: the refinement of `SlotReservation`.

The argument. None of these invariants is inductive alone. `Inv` adds what the
position of a handler says about the rest: a request that has not sent its
INSERT has no row (`RowInv`); a late statement belongs to a request that knows
no better than 500 (`LateInv`); an INSERT with a link finds the link alive
(`LinkInv`); an UPDATE, sent or late, names a stored row of its caller
(`CancelInv`). That the table changes in only two ways, an insertion on a free
slot by a request without a row and a cancellation by the owner, is `TableStep`;
uniqueness, the action properties and the refinement are read off from it.
`TypeOK` needs `CancelInv`: an UPDATE of a missing row would write no row.

`AccountsProofs` proves every property of `accounts_safety`, for any sets of
requests, addresses and passwords, whichever bcrypt hashes or tells apart, any
normalization that is idempotent, any lifetime of tokens, any number of crashes and any range of the clock:
`TypeCorrect`, `AddressesAreUnique`, `RefusalsAreFinal`, `TokensNameUsers`,
`LoginsAreTheOwners`, `AccountsStay`, `TheRegisteredGetIn`. Its invariant adds
that addresses in requests are normalized (`NormalInv`) and that a row is what
the registration of its id, or the configuration, would write again (`RowInv`).
From the latter follows that no statement changes a row (`RowsStable`), and from
that nearly everything about tokens, which outlive any number of steps;
uniqueness of mailboxes needs `NormalInv`, since the index compares spellings.

`SlotGenerationProofs` proves, for any rooms, calls and inputs, any number of
generated days, of faults and of midnights: `TypeCorrect`, `RefusalsAreFinal`,
`SlotsNeverOverlap` and `GenerationImplementsCalendar`. The argument. A row can be
in table `slots`, yet to be inserted, or in an abandoned statement; `RowsInv` says
that in each case it was cut from a stored schedule, `OneSchedulePerRoom` and
`StoredStays` that a room has one such schedule and keeps it, `OneSlotPerStart`
what the unique constraint adds. Half hours of one schedule that do not start
together do not meet (`HalfHours`, arithmetic); that is `SlotsNeverOverlap`. The
tables change in three ways, a room, a schedule of a room without one, a row cut
from a stored schedule (`TableStep`), and each is a step of `SlotCalendar`.
`ControlInv` and `RefusalInv` say where a call may be while its row is stored or on
its way: `LateSchedule` can store a row only for a call that was answered 500 or
not at all. `TypeOK` needs that the slot with the earliest start exists, which
follows from the order of the numbers being well-founded (`EarliestExists`).

`CreatedIsGenerated` and `FailuresAreIsolated` follow from these. Both `BulkCreate`s
take their rows one by one and may find another writer's in place of one; `CallInv`
says that what a call owes is stored or yet to be inserted, and `RoundInv` the same
of each schedule that the worker has taken, save those of rooms whose INSERT failed.
`RoundInv` has to know that the rows the worker is at are all of one room: else a
failure would drop rows of a room that is not reported. `BulkInsertKeeps` is where
`DO NOTHING` matters: the row in the way covers the same half hour.

`LifecycleProofs` proves, for any timeouts that the assumption of `Lifecycle` allows
(requests end before the shutdown gives up) and any number of requests:
`TypeCorrect`, `NobodyIsCutOff`, `FewPoolsLeak`. `Graceful` is the reason for the
first safety property: a request that is running began before the shutdown, which
so has waited no longer than it runs; `PoolInv` counts pools by failed attempts and
these by the time they took.

`BookingServiceProofs` proves every property of `service_safety`, for any users,
slots, rooms, hours, clients and moments, from `ServiceAssumption` (slot ids name
different rows) and `HoursAssumption` (hours lie within a day):
`RoomsAreHeldAlone`, `OffersRespectAnswers`, `OffersAreOfTheHours` and
`OwnBookingsAreShown`. It first proves `ServiceIsBookings`, that the composed
service behaves as `Bookings` does alone, and so inherits its invariant. `TableInv`
adds that only slots are booked and only bookings somebody asked to cancel are
cancelled, `CalendarInv` that slots are half hours of their room's hours, no two
with one start. A list is true when it is read; it remains so because no step takes
anything back that it depends on (`World`: what was answered, stored or asked stays
so), which is `ToldStays`.

`SeedProofs` proves, for any runs, rooms, days, faults and midnights, from
`ConstantsAssumption` and `HoursAssumption` (hours pass the validation of a
schedule): `SeedImplementsCalendar`, `RemainsNeverFailARun` and
`SuccessMeansComplete`. Every write, of a
run, of a statement that lost its answer or of the surroundings, is one of three
(`TableStep`): a room, hours for a room without, a row cut from the hours that its
room has. For the last a run must know that what it has still to insert was cut from
hours that are still those of the room (`RowsInv`), which holds because hours once
given stay (`TablesKeep`). `OpenInv` says that a run which has found its room
closed did not find it open at the start, so that the refusal of its schedule is
somebody else's doing.

`SuccessMeansComplete` needs to know what a run has achieved before each of its
statements, and that nobody undoes it (`SuccessInv`): the users it has put in, the
rooms it has done with, and, once the hours of the board room are generated, a slot
at 9:00 that is stored or to be inserted, for whatever day will be tomorrow
(`Ready`). That day is read from the clock only at the end, perhaps midnights after
the slots were computed, hence the premise that the days generated outlast them; and
an insert that meets another writer's row leaves a slot of the same start. The
theorem assumes that 9:00 is when the board room opens, as in `main.go`.

`BookingListsProofs` proves, for any bookings, pages, sizes, limits and range of the
clock, `WalksMissNothing` and `WalksRepeatNothing`. It assumes that there are no more
bookings than an int can count. The argument: when no two bookings share a
`created_at`, the place of one in the list is its `Rank`, the number of bookings that
are no older (`RankIsPlace`: the first places of a list map one to one to those
bookings). A booking that is stored only raises ranks (`StoreKeeps`), so one that was
there and has not been seen is at or behind the next page (`MissInv`); if nothing is
stored, what has been seen are the bookings of rank 1, 2 and so on (`RepeatInv`). The
offset of the next page is below the number of bookings (`PlaceInv`), which is why it
does not wrap on a walk (`OffsetIsGone`), although it does for a page far enough off.

`SlotBuilderProofs` proves the properties of `slot_builder` for every schedule and
any number of days. `TheLoopIsRight`: the recursion of `Cut` has the half hours from a
point on as a solution, and no other, since the last place at which two solutions
differ would have to be followed by one at which they agree (`CutIsHalfHours`); a
day has room for 48 half hours, so that `DaySlots` leaves none out
(`DayIsHalfHours`). `BuildIsRight` is the arithmetic of minutes, days and weekdays,
`TheHorizonMovesByADay` that a slot lies within its day (`SlotIsOfItsDay`).

Only model-checked: `EveryRequestAnswered`, `HorizonIsCovered` and
`SignalEndsProcess`. Liveness under fairness is out of the prover's reach. Every
other property of a passing run is a theorem.

## Not modelled

- Formatting, parsing, configuration, logging, the mapping of errors to HTTP
  statuses, generated documentation, the load test: no state, nothing that
  interleaves.
- PostgreSQL itself: each statement is atomic, as under its default isolation a
  single-row INSERT or UPDATE is.

- The number of connections of the pool: a request waits for one with the
  deadline of its statement, which then is a statement that failed.
- Retries by clients. A retry is another request, of which every model has some.

## Plan

Done: bookings and their abstraction; generation of slots and its abstraction; the
service composed of both, with its lists; accounts; the admin's list; the process;
the seed command; the proofs listed above. Left:
`BookingService` with `SlotGeneration` in place of `SlotCalendar`, should a property
ever need the control of the generator. So far none does, and as `SlotGeneration`
implements `SlotCalendar`, what is proved of the service holds beside it.
