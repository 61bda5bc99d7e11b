# Verification of Task Timer

TLA+ specifications of Task Timer: the desktop timer, its SQLite table, the
reconcile daemon, and the gateway server that writes to Jira. TLC checks them on
small instances; TLAPS proves the main safety results for every instance.

## The system

| Part | Code | State it keeps | Operations |
|---|---|---|---|
| Session table | `internal/task/store.go`, `task.go` | `tasks.db`: `tasks`, `remote_tasks`, `sync_state` | Save, Complete, Reopen, RequestPush, PendingPush, SetStatus, MarkPushed, PendingCompletions, MarkCompletionPushed, UpsertRemote, LastPull, SetLastPull, migrate |
| Reconcile engine | `internal/reconcile/engine.go`, `cmd/task-timer-daemon` | nothing but the rows of its last query | Run, RunOnce: pull, push, complete, provider by provider |
| Desktop app, store side | `internal/ui/app.go`, `table.go`, `connect.go` | a copy of recent rows | commit, Complete, Reopen, queuePush |
| Desktop app, timer | `internal/ui/app.go` | `running`, `startTime`, `stopTick` | Start, Stop, Lap, Reset, SwitchTask, poll |
| Gateway provider | `internal/reconcile/providers/gateway` | bearer token read once | Pull, Push with an idempotency key, Complete |
| File provider | `internal/reconcile/providers/jsonfile` | an exchange directory | Pull, Push, Complete |
| Client sign-in | `gateway/connect.go`, `ui/connect.go` | a loopback listener, one code | Connect, exchange, SaveToken, saveConnection |
| Configuration | `internal/reconcile/config.go`, `env.go`, `ui/settings.go` | `config.yaml`, `credentials.env` | LoadConfig, SaveConfig, LoadEnv, SetEnvVar |
| Server: work logs | `server/internal/api`, `server/internal/store` | `pushed_worklogs`, unique per user and key | pushWorklog |
| Server: Jira grant | same, `server/internal/jira/oauth.go` | `jira_tokens`, one row a user | jiraFor, refresh, storeTokens |
| Server: login | same | `pending_auth`, `auth_codes`, `users`, `api_keys` | login, callback, exchange, authed requests |
| Reports | `internal/task/stats.go`, `ui/reports.go`, `ui/dashboard.go` | none | Between, TotalToday, DurationsToday, Summarize, DailyTotals, filterTasks |
| Widgets, packaging | the rest | none the protocol depends on | |

The app and the daemon never talk to each other. They meet in the `tasks` table:
the app writes a flag (`sync_requested`), the daemon reads it on its next cycle,
calls the provider, and writes a status and a work-log id back. Provider calls
are HTTP requests (gateway) or files. A second daemon may run beside the service
(`task-timer-daemon -once` from a terminal or cron); nothing in the code prevents
it. The server handles requests concurrently, and each request runs several SQL
statements and Jira calls with no transaction around them.

### What is hard, and what makes each part right

- **Table and engine.** `PendingPush` is read once and walked from memory while
  the app writes, while requests take up to 30 seconds each, and while another
  daemon walks the same rows. The daemon dies between any two statements. Right
  means: nothing leaves unasked; nothing is recorded that was not accepted; a
  session is not sent twice without a cause; nothing is wedged; what was asked
  for gets out whatever else fails; a status never lies.
- **Work logs (gateway and server).** A request is retried by the client while
  the first is still running on the server; the server dies between Jira and its
  ledger. Right means: one ledger row a key, every answer names the same work
  log, duplicates in Jira only where a crash or a lost answer explains them.
- **Jira grant.** A refresh token is single-use and replaced by each use. Right
  means: two refreshes or a crash do not lock the account out.
- **Sign-in.** One-shot codes, two timeouts, a browser that never returns. Right
  means: a code buys one key, for the client that asked, and the client ends.
- **Timer.** The window, the tray menu and the poller share fields with no lock.
  Right means: time that ran is saved once under its name, or given up by the user.
- **Mirror.** A cursor that must not pass a change made during a pull, two daemons
  that overwrite each other's rows, names that are keys. Right means: a change
  upstream is seen by some later pull, and a session is linked to its issue.
- **Reports.** Texts compared as texts, days of 23 and 25 hours. Right means: the figures
  of a page add up, and agree with the footer.
- **Configuration.** Three writers of two files. Right means: no writer undoes
  another, a crash leaves a readable file.
- **Opening the table.** A package upgrade restarts the app and the daemon together,
  and both migrate, statement by statement. Right means: a program that has the store
  open finds the current layout, and every program has it open in the end.
- **Exchange directory.** Files are emptied before they are written, by several daemons,
  and named by keys that are made safe for a file name. Right means: what the table says
  was handed over is there, whole.

`PROJECT.json` lists the hazards one by one, at their lines, with the properties
that cover them.

## Modules

| Module | Models |
|---|---|
| `TaskStore` | the `tasks` table and each SQL statement on it |
| `Engine` | the app's writes and any number of daemons running `RunOnce`, on `TaskStore` |
| `SessionLedger` | what the protocol promises of a session, with no table and no daemons |
| `MCEngine` | instances of `Engine` for TLC |
| `Engine_proofs` | the theorems about `Engine` |
| `Worklogs` | gateway `Push` against the server's `pushWorklog`, its ledger and Jira |
| `WriteOnce` | what an idempotency ledger promises: one value a key, the same in every answer |
| `MCWorklogs` | an instance of `Worklogs` for TLC |
| `Worklogs_proofs` | the theorems about `Worklogs` |
| `TokenGrant` | one user's row of `jira_tokens`: `jiraFor`, `refresh`, `storeTokens`, and a sign-in under them |
| `MCTokenGrant` | instances of `TokenGrant` for TLC |
| `TokenGrant_proofs` | the theorems about `TokenGrant` |
| `SignIn` | `Connect` in the client against `login`, `callback` and `exchange` on the server |
| `Voucher` | what a sign-in promises: a consent buys its account one thing, once |
| `MCSignIn` | an instance of `SignIn` for TLC |
| `SignIn_proofs` | the theorems about `SignIn` |
| `Timer` | Start, Stop, Lap, Reset, SwitchTask and the task entry, run by several goroutines |
| `Stopwatch` | what a timer promises: a session that was begun is timed until it is stored or given up, once |
| `MCTimer` | an instance of `Timer` for TLC |
| `Timer_proofs` | the theorems about `Timer` |
| `Mirror` | `pull`, its cursor and its rows, and the names and links the app makes of them |
| `MCMirror` | an instance of `Mirror` for TLC |
| `Mirror_proofs` | the theorems about `Mirror` |
| `ConfigFiles` | `config.yaml` and `credentials.env`: Settings, sign-in, `-connect`, an editor, a starting daemon |
| `MCConfigFiles` | an instance of `ConfigFiles` for TLC |
| `ConfigFiles_proofs` | the theorems about `ConfigFiles` |
| `Upgrade` | `OpenAt` and `migrate`, by any number of processes on one `tasks.db` of any older layout |
| `FileProvider` | the file provider's `Push` and `Complete`, with the daemons that call them |
| `Offline` | `Upgrade` and `FileProvider` together: programs that open the store, and daemons that then write files |
| `MCOffline` | an instance of `Offline` for TLC |
| `Local_proofs` | the theorems about `Offline`, `Upgrade`, `FileProvider` and `Reports` |
| `Reports` | what the Reports page, the footer, the tray and the filter Today say of the rows |
| `MCReports` | an instance of `Reports` for TLC: three places with different clocks |

### TaskStore and Engine

A column is a function of the row id (`name`, `link` for `foreign_key` and
`task_source`, `comment`, `status`) or, for a flag, a set of rows (`requested`,
`signed`). A statement is an action. `start_time`, `end_time` and `duration` are
set once at insertion and read by no condition except `end_time <> ''`, which
always holds of a saved row; they are left out. The provider of a linked row is
that of its issue. `StatusInProgress` is never written by the code.

`pc[d]` is the point of `RunOnce` daemon `d` has reached, `at[d]` the provider,
`queue[d]` and `keys[d]` the rows and issues its last SELECT returned and it has
not handled yet, `cur[d]` and `closing[d]` those in flight. Each label is a place
where another process can act:

    idle - StartCycle - pull - PullOk - scan - ScanPush - next
    next - BeginPush - send - Accept - accepted - RecordPushed - next
                            - Reject/AcceptUnheard - failed - RollBack - next
                            - PushUnsupported - unsupported - SkipPush - scanDone
    next - PushDone - scanDone - ScanCompletions - nextKey
    nextKey - CloseOk - told - RecordClosed - nextKey
    nextKey - CompleteDone - pull of the next provider, or idle

`StoreFails` is the early return on a failed statement, `Die` a crash or a
cancelled context. A press of Push is two actions, `PressPush` and `FinishPress`,
because `RequestPush` is two UPDATEs with no transaction; `BreakPress` is the
second one failing. The push that follows a sign-in runs on its own goroutine, so
the user keeps saving, completing and reopening in between.

`sent`, `lost`, `told`, `asked`, `approved` and `faults` are history: what the
provider saw, and what a press of Push covered. No action reads them except for
the bound on `faults`.

What a pull stores is not in this module but in `Mirror`: whether a saved name still
belongs to an issue the mirror holds open is a choice of `SaveSession`. A name
belongs to one issue (`KeyOf`).

A provider in `Reclosable` takes the completion of an issue that is already done; the
file provider does, it writes the file again. Jira's issue has gone through its transition
and may offer none of that name any more, so `Client.Complete` refuses (`Closable`).

`SessionLedger` is the abstract specification: sessions are queued, then
delivered, then confirmed, and none of the three is undone. `Engine` implements
it under `queued <- asked`, `delivered <- {i : sent[i] > 0}`, `confirmed <- signed`.

### Worklogs

`Engine` leaves the provider opaque: it accepts, refuses, or accepts without
being heard. `Worklogs` opens the gateway up and shows where the duplicates that
`Engine` counts in `lost` come from, and which the server's ledger takes away.

The server runs each request on a goroutine of its own; `at[r]` is how far
request `r` is in `pushWorklog`, and every label is a place where another request,
a client or a crash can come between:

    select - Lookup - answer                   the key is known
                    - add - Add - insert - Insert - answer
                                         - InsertDuplicate - reread - Reread - answer
                                                                    - RereadFails - answer
                                         - InsertFails - refuse
                          - AddFails/AddUnheard - refuse
    select - LookupFails - add                 a failed SELECT counts as not found

`from[r]` is the client that still waits. A client that times out or dies leaves
the request running (`Nobody`), which `pushWorklog` permits: its SQL statements do
not take the request's context, and a cancelled Jira call may have gone through
(`AddUnheard`). `ServerDies` ends all requests at once. A client is a daemon's
`push`: `Scan` is its SELECT, walked from memory (`todo`) while the other daemon
writes.

A session stands for its idempotency key, a hash of the row's issue, start,
duration and author, which no statement changes once the row is saved. The ledger
is per user; one user is modelled. Work-log ids are positions in `jira`, so two
pushes never get the same id. Bearer check, Jira grant and request validation
refuse a request before anything is written; all but the duration check are part
of `AddFails`. The duration is rounded as `Push` does (`Seconds`).

`heard`, `adrift`, `blind`, `excused` and `faults` are history.

`Worklogs` implements `WriteOnce` under `value <- ledger` and
`answers <- heard` without the answers a failed re-read let through (`adrift`).

### TokenGrant

`Worklogs` and every other handler that needs Jira begin with `jiraFor`. `at[r]` is
how far request `r` is in it, `hand[r]` the refresh token it has read or was given:

    free - ReadGrant - use - Use - free                  the access token is fresh
                     - refresh - Refresh - store - StoreTokens - use
                                         - StoreFails - free
                               - Refuse/RefreshUnheard/RefreshFails - free

There is no lock, so any number of requests do this at once, and a sign-in
(`ExchangeCode`, `StoreConsent`) replaces the row under them. `ServerDies` is a
crash between any two steps.

Atlassian is external. It is modelled from what `oauth.go` and `SERVER.md` say of
it: refresh tokens rotate, and the old one is dead at once. `toTokenSet` also keeps
the old token when a refresh returns none; such a server is outside the model.
Tokens are numbered as they are issued, and `chain` names the consent each descends
from. A lost answer kills the token without replacing it in the row
(`RefreshUnheard`); so do a failed write and a crash in `store`.

A refreshed grant is written back with the account and the site that were read with the
old one, so a request that is `Refreshing` while a sign-in stores its own is `overtaken`
and may put the old grant back.

`spent`, `overtaken`, `gone`, `ages` and `faults` are history.

### SignIn

`phase[a]` is where `Connect` is for attempt `a`:

    off - Start - waiting - Receive - exchange - Answer - saving - SaveToken - connected
                          - ReceiveError - failed        or failed
                  waiting/exchange - Timeout - failed

A callback on the server goes statement by statement,

    free - Callback - take - TakePendingAuth - admit - Admit - find - FindUser
         - create - CreateUser - grant - StoreGrant - code - IssueCode - free

with `Fail` at every label, and so does an exchange:

    none - Receive - take - TakeAuthCode - key - CreateAPIKey - answer - Answer - done

Between the two stands a browser that owes nobody anything. `OpenPage` opens the
page of an attempt, again or long after it ended; `Callback` returns from
Atlassian, again on a reload, with an account of the user's choice; `Deliver`
takes the redirect to whoever listens on the port by then. That is why
`callbackHandler` compares the state, and why an attempt that inherits a port is
ended by a stray redirect (`ReceiveError`). `ListenerFails` is `Serve` returning. What the
browser page is answered is left out, and with it a handler of the listener that finds the
one-slot channels full and waits for good: it changes nothing.

Login ids, codes, verifiers, states and keys are random and never collide; each is
named by what it stands for: a login by its row, a code and a key by their position,
a challenge by its attempt. So the PKCE check is `Owner(c) = a`. `hand[a]` is the
code in the client's hands, then the key. Time to live is the choice to go on or
not in `TakePendingAuth` and `TakeAuthCode`: both delete the row before they look.
A key is stored as a hash and an account belongs to one `users` row. What
is saved to the machine, and to which file, is `ConfigFiles`.

`consent` is history.

### Timer

`running`, `startTime` and `stopTick` of `App` have no lock. Three kinds of goroutines
use them: the window's event queue (`Window`), one goroutine for each item of the tray
menu, as the vendored toolkit runs them
(`vendor/fyne.io/fyne/v2/internal/driver/glfw/driver_desktop.go`), and the poller.
`startTime` and `stopTick` are always set together, so a session is known by its number
and `start` stands for both. A handler is cut where it calls the store, and where it has
read a field and is yet to act on it:

    Stop, TrayStop      idle - halt - save - reload - fill - idle
    Lap                 idle - halt - save - restart - idle
    SwitchTask          idle - halt - save - set - run - idle
    Start               idle - run - idle
    reload, Refresh     idle - fill - idle

`halt` is `commit` after it has read the clock, the entry and `startTime`; `fill` is the
Overview page between asking for the last name and writing it into the entry; `set` is
`setTaskName`. The Reset dialog is open while `dialog` names a session; the tray and the
poller go on behind it. `HaltTwice` is the second close of a channel, which ends the
process. Quit, which ends the process with whatever runs, is left out, and so is the
ticker, of which only the channel that ends it is kept.

`Timer` implements `Stopwatch` under `phase <- Phases`: a session is `timed` while it is on
the clock or in a handler's hands, then `stored` in one row, or `givenUp` (discarded, or
dropped because the store refused it), or `contested`. A session that is in none of these
states, in two rows or gone, is `lost`, and no phase of a stopwatch is.

`issued`, `wanted`, `discarded`, `dropped`, `renamed` and `contested` are history.
`contested` holds the sessions that were on the clock, or in the hands of a handler,
while two handlers overlapped: fields without a lock promise those nothing.

### Mirror

A pull reads the cursor and the clock (`StartPull`), then the pages of the listing, or
the files of the exchange directory, each at its own time (`Read`), stores the rows one
by one (`Upsert`), and writes the time it took before the request as the next cursor
(`SetLastPull`). `Break` is every early return, and the death of the daemon.

An issue is a sequence of revisions; `TitleAt` and `ClosedAt` say what it looks like at
each, `OnlyOpen` whether the provider's query leaves out done issues, as the default of
the server does. A row of `remote_tasks` is the revision it was copied from. `Coarse` is
the cursor as the provider compares it: Jira at minute precision, the file provider as it
is, neither rounded up. A server stamps a change with the time it happens; the file of an
issue in `Dated` carries a time of its own, and is read only once it is in the directory,
complete, which may be after pulls have taken their cursors from a later time (`late`).
One clock serves the cursor and the stamps of a server: a client clock that runs ahead, or
a server in a time zone ahead of that of the Jira account (`client.go:118` writes the
cursor as a local time without a zone), is outside the model.

The app keeps a copy of the open rows, a map that its goroutines (`Loader`) rebuild without
a lock, in three kinds of step: the query (`QueryRemotes`), the empty map (`EmptyRemotes`),
the rows (`AddRemote`). It offers the names in the copy, as far as it is filled, and those
of earlier sessions (`Pick`), and links a session through the copy as it is when the
session ends, or else through the table (`Links`, `Commit`); where Save's query fails, the
row is stored without a key. `Abandon` is a session that is not stored, `Restart` the end
of the app and its next start, with an empty copy; Go ends a process whose goroutines it
sees in one map. Names and keys typed by hand are left out. The handlers around it are
those of `Timer`; here a session starts and ends in one step each.

`late`, `raced` and `overtaken` are history, and so are `seen`, the revision at which the
picker showed the name on the clock, and in a row `seen` and `failed`, that Save could not
read the table.

### ConfigFiles

`config` is `config.yaml` as one record: the backend's address, whether the provider is
on, the name of the variable with its token, and a key that no form shows. `env` is
`credentials.env`, a token for each name; a token is named after the backend that issued
it. No file is locked, and the writers go through it at their own pace:

    Settings        idle - Save - write - SaveWrite - idle
    sign-in         idle - RunConnect - browser - ConfiguredConfig - env
                         - ReadEnv - truncate - Truncate - put - Put
                         - load - ConnectionLoad - link - SaveConnection - done
    -connect        idle - ConnectGateway - env - ... - Put - done
    daemon          idle - LoadEnv - config - DaemonLoad - idle

`SaveConfig` renames a finished file over the old one, so it is one step. `LoadConfig` of
a missing file is two, `FindNoConfig` and `WriteExample`, and the second writes over what
came in between; cut short it leaves a file that does not parse (`broken`), or an empty
one, which reads as the defaults. `SetEnvVar` empties the file and writes it again, and
others read it in between. `Fail` is every early return, and, once for each goroutine, the
death of the process. `form` is what the Settings page shows, `edited` what was typed into
it since it was filled (`Refresh`, by the window or the poller). While a sign-in waits for
the browser a modal dialog covers the page. `EditConfig` is a person with an editor.

One provider, the gateway, stands for all. The poll interval is a field like the others,
and the inline `api_token` one that no form shows; working hours, which no file of this
module holds, and `providers.yaml` are left out.

`behind`, `envBehind`, `asked`, `saved` and `signedIn` are history: which copies the file
has moved on from, what was last asked of each field and last saved under each name
(`Whatever` once a copy that was behind has been saved over it).

### Upgrade, FileProvider and Offline

`columns` is what the `tasks` table has: nothing on a new machine, or `Base` and some of
`Wanted` on an old one. `at[p]` is how far process `p` is in `OpenAt`:

    closed - ApplySchema - inspect - Inspect - alter - AddColumn - alter
                                                     - DuplicateColumn - closed
                                                     - RenameStatuses - index - ApplyIndexes - open

`missing[p]` is what `migrate` saw missing and has yet to add. A column that another
process has added in between is an error, and `OpenAt` returns it (`DuplicateColumn`).
`Break` is any other failed statement, and the end of a process. Of the three renamings two
map a status to itself; `oldStatus` is the third. The tables `remote_tasks` and
`sync_state`, which no version changed, are created in the same step and left out.

In `FileProvider` the contents of a file is the document it holds whole, or none:
`Empty` between the truncation and the write of `os.WriteFile`, `Broken` where a write was
cut short or two writers' texts mixed. `PathOf` gives a session the name that `Push` gives
it, from its issue and its start in seconds, and a completion that of `Complete`; `Sanitize`
is not one to one, so two documents may be `Twins` and share a file. A daemon's call is

    idle - Call - called - Truncate - writing - Write - written - Record - idle
                         - Refuse - idle      - WriteFails - idle  - StoreFails - idle

and `Scan` is any list `PendingPush` and `PendingCompletions` may return: `Engine` has the
rest. `Stop` is the death of the daemon, in the middle of a write as well.

`Offline` puts the two together: `OpenStore`, then `RunOnce`, and `End` anywhere. A daemon
that has ended begins with `OpenAt` again.

`contested` and `settled` are history: daemons whose file another one wrote to during
their call, and documents recorded and neither handed over since nor their twin.

### Reports

A row keeps its start as the local wall clock and its offset (`Format`), as RFC 3339 text
does; `Between` and `TotalToday` compare texts (`Less`), `DailyTotals` and `sameDay` go by
the calendar of the place the app was launched in (`DateOf`). `Offset` says how a place's
clocks differ from UTC at each instant, so they may change twice. What is shown is an
operator on the state, evaluated in every state: the app computes it from one query at a
time. `time.Date` is external; `Date` follows the library's rule for readings that do not
exist. `Span` bounds how far a clock is from UTC, and `CleanMidnight` says of a day that the
clocks show its midnight once and pass it there. Not modelled: rows in the layout of older
versions, which no query by date finds, the cap of 500 rows on what `filterTasks` sees, and the breakdown by source.

## Properties

- `ImplementsLedger`: the refinement. It implies `OnlyAskedLeaves`, that nothing the user
  times leaves the machine before Push was pressed for it (the promise in the comments of
  `PendingPush` and `queuePush`), and `SignatureIsEarned`, that a recorded work-log id was
  given by a provider. Both are proved and not listed for the run.
- `OnlyCompletedIsTold`: a provider is told of an issue only after the user completed a
  session of it that a press of Push covered, however old the list is that the daemon
  works from.
- `NoNeedlessResend`: a session is accepted at most once a daemon, plus once for
  each acceptance that was never recorded, and a fault lies behind each of those. With one
  daemon and no fault: once.
- `CompleteStatusIsEarned`: `Pushed - Complete` means that the provider was told.
- `PushingIsRecovered`, `PushedMovesOn`, `QueueStaysCurrent` (one daemon):
  a row left `Pushing` is found again; a pushed row says so, and one that was completed
  upstream is not owed again, also when it is reopened and completed a second time; rows
  held in memory are still due when their turn comes. With two daemons all three fail: a
  slower daemon rolls back or re-marks a row the other has recorded: the status
  column has two writers then. That is why they are stated for one.
- `RequestedIsPushed`: liveness; what the user asked to push is pushed and recorded in
  the end, whatever other sessions and providers keep failing.
- `CompletionIsRecorded`: liveness; so is what the user asked to complete, unless the task
  is reopened, also when the answer was lost or another session of the issue was completed
  or pushed in between. A provider that takes no completion twice has been told at least.

Of `Worklogs`:

- `SignatureNamesWorklog`: the id a row carries is that of a work log of that very
  session, whatever requests, retries and crashes lay between.
- `AnswersAgree`: every answer for a session names the ledger's work log, but for
  the branch where the re-read of a duplicate fails. (`ImplementsRegister` implies it; it
  is proved and not listed for the run.)
- `DuplicatesAreExplained`: Jira holds a session at most once for each daemon,
  plus once for each request that was given up, did not see the ledger, or ended
  between Jira and the ledger. A request that ends after the ledger knows excuses
  nothing.
- `ImplementsRegister`: the refinement.
- `SessionIsSigned`: liveness; a session of at least half a second that Jira takes
  is in the end signed. One below that is refused on every cycle, for ever, and excepted.

Of `TokenGrant`:

- `LockoutIsExplained`: the stored refresh token is dead only while a request holds
  its successor, after a fault, or because the user withdrew it. Racing refreshes
  alone never lock an account out.
- `SpentIsNeverStored`: no slow request writes back a token a faster one has used.
- `ConsentStays`: the grant of a sign-in gives way to that of another only when a callback
  stores it, or to a request that was refreshing when it was stored.
- `LockedOutOrServed`: liveness; the grant is dead for good, or Jira is reached again
  and again.

Of `SignIn`:

- `ExchangeIsOwn`: what an attempt exchanges was issued to it, also when it
  inherited the port of another.
- `KeyIsReady`: the key on the machine belongs to a registered account of an
  allowed domain whose Jira grant is stored, so the daemon can use it at once.
- `ImplementsVoucher`: the refinement. A consent buys at most one key, and only for
  the account that gave it, under `bearer <- consent` and `bought` the number of
  keys of a login and account.

Of `Timer`:

- `ImplementsStopwatch`: the refinement. The time of a session is on the clock or on its way
  to the store, or in exactly one row, or given up or refused by the store: never lost, never
  counted twice, and never taken back once it is stored, unless handlers contested it.
  (`TimeIsKept` says the same of a state; it is proved and not listed for the run.)
- `TickersStop`: the goroutine that shows the time of such a session ends with it.
- `NoTimeIsLost`, `OnlyAskedIsDiscarded`: the first for contested sessions too; Reset
  discards the session its dialog names. They hold, and are proved, while the tray is not
  used; with the tray they do not (see Findings), so no run lists them.
- `NamedAsStarted`: a row carries the name its session was started under, unless the
  entry was rewritten while it ran.

Of `Mirror`:

- `NothingPassed`: an issue the query selects is in the mirror as it is, or the next pull
  asks for it, whatever changed while pages were read and wherever a pull broke. Issues
  whose row a second daemon took back are excepted, and files that arrived with a time
  that a pull, done or under way, had passed: for them the cursor may have passed.
- `RowsGoBackOnlyInRaces`: only a pull that another daemon's pull overtook takes a row
  back; a single daemon never does.
- `UnlinkedIsExplained`: a session recorded under a name of the picker lacks the key of its
  issue only if the issue was renamed or done after the revision that the picker showed,
  or Save could not read the table, or a second daemon took the issue's row back. That the
  copy is emptied and refilled under the session is not among the reasons.

Of `ConfigFiles`:

- `LastWordHolds`: every setting in the file is the last one asked for, whoever asked,
  unless a page, a sign-in or an example that was older than the file was saved over it.
  In particular a save keeps what it does not show, and a sign-in what it does not set.
- `TokensSurvive`: a sign-in leaves the other tokens of the file as they are, unless it
  overlapped another or was cut short in the middle of the rewrite.
- `TokenWritesAreAtomic` (violated, see Findings): whoever reads `credentials.env`, at any
  moment, finds the last token saved under each name.
- `RefusalIsExplained`: when a starting daemon finds no token for an enabled provider, no
  sign-in of the app was completed under the name in the config, or the token was lost or
  the file rewritten in one of these ways.

Of `Offline`:

- `OpenIsCurrent`: a process that has the store open finds every column its statements
  name, the index and the current statuses, whoever else is upgrading.
- `StartsInTheEnd`: liveness; a process that is started again whenever `OpenAt` fails has
  the store open in the end.
- `RecordedIsOnFile`: what the table says was handed over is on file as a whole, also after
  it was pushed again, to be refused or to be written and not recorded. It is lost only to a
  write, of it or of a document with the same file name, that is under way, was cut short,
  or met that of another daemon.

Of `Reports`:

- `ReportIsWhole`: the report is made of the sessions that started on the days of its
  window, and its tiles, bars and breakdown add up, also across changes of clocks.
- `TodayAgrees`: footer, tray, the filter Today and the last bar agree on today. Both
  except rows written in another time zone, and windows with a midnight that the clocks
  skip or repeat.

## Runs

| Run | Instance | Shows |
|---|---|---|
| `two_daemons` | 2 rows of one issue, 2 daemons (symmetric), 1 fault | the safety properties for interleaved daemons; 1.5 million states |
| `live` | 2 rows, 2 issues of 2 providers, the first supporting neither push nor complete, the second taking completions twice, row 1 never accepted, 1 daemon, 1 fault | the one-daemon properties and liveness; 0.2 million states |
| `unasked_close` | 2 rows, 1 daemon, no fault | violation: see Findings |
| `worklogs` | 2 sessions, one of them never accepted, 2 daemons, 2 requests at a time, 1 fault | the safety properties with racing retries, and liveness; 0.3 million states |
| `grant` | 3 requests, 2 consents, 2 expiries, 1 fault | safety and liveness of the grant; 56 thousand states |
| `signin` | 2 attempts on one port, 2 logins, 2 callbacks at a time, 3 accounts, 2 of them allowed (all but the refused account symmetric) | the safety properties of signing in; 0.4 million states |
| `timer` | window, 1 tray goroutine, poller, 2 names (symmetric), 2 sessions | the safety properties of the timer; 1.3 million states |
| `mirror` | 1 issue of 3 revisions (done at the second, reopened under another title at the third), 2 daemons (symmetric), 1 reloading goroutine, 1 saved session, 2 seconds, stamped by the provider or by its file | the safety properties of the mirror; 1.6 million states |
| `config` | 1 sign-in, 1 `-connect`, 1 backend, 2 variable names, 1 save with 1 typed field, 1 edit by hand, of 3 of the 4 settings | the safety properties of the two files; 0.8 million states |
| `offline` | 2 daemons, 2 columns that are missing, 1 of them or none, or no table at all, 2 sessions and 2 issues that share their file names, 1 crash or failed statement | the upgrade and the exchange directory, safety and liveness; 0.7 million states |
| `reports` | 3 places, days of 4 hours, a window of 2 days, 15 hours, 2 sessions of 2 names (symmetric), 2 launches | the figures against the calendar; 1.9 million states |
| `torn_tokens` | that of `config` | violation: see Findings |

Bounds: `Row` is the number of sessions ever saved. Two are enough for one to
stand in the queue behind another, for a second row of a completed issue, and for
a row saved between two statements. `MaxFaults` = 1 covers each single crash,
failed statement and lost answer at every point; `MaxPresses` = 1 lets one press
be under way while everything else moves; `ToldCap` = 2 tells once from again.
In `worklogs`, two requests let those of two daemons race, or a retry race the request
that was given up; two sessions let an answer go to the wrong one; one fault is a crash, a
timeout or a failed statement anywhere. Both sessions last half a second, the least that
counts as a second: the server refuses a shorter one, as Jira may refuse the second here.
In `grant`, three requests let one be refused,
one refresh and one store at the same time; a second consent replaces the grant of
the first; a second expiry lets a token that was refreshed be refreshed again. In
`signin`, one port makes the second attempt inherit that of the first, two logins
and two callbacks let one login be answered twice or two at once, and two allowed
accounts let two people consent in the two tabs.
In `timer`, two sessions are one on the clock and one on its way to the store; a
third goroutine adds nothing that two handlers and the poller do not. In `mirror`, two seconds put a change
before, during and after a pull that overlaps another, and the first of them is rounded
down; three revisions let a name end by a rename or by the issue being done; issues do not
depend on each other but through the cursor; the goroutine that reloads runs beside the
one whose session starts and ends, and that several reload at once is only proved. The
proofs hold for any number of each. In
`config`, one each of Settings, a sign-in and an edit overlap in every order; two sign-ins of the app have the
same steps on `credentials.env` as the sign-in and `-connect`, which do overlap; two names
are one that the config gives and one it gave before. People change whether the provider
is on, the name of its variable, and the key that no form shows; its address only the
sign-ins do, which fills the page as an edit would. In `offline`, two processes are one
that adds a column and one that had found it missing, two columns let either be first to
add one, and documents that share a name are the case the names are about; those that do
not never meet. In `reports`,
the hours hold two changes of clocks and four days, and two sessions are on either side of a midnight or a change.

Deadlock is checked for `Engine`, `Worklogs` and `Offline`: the user can always act and a
daemon can always scan. `SignIn` and `TokenGrant` may stop: attempts, logins and
consents are used up, and a user without a grant is served nothing. `Timer` may, when
its sessions are used up or the process has ended, and `Mirror` and `Reports` when
time is, and `ConfigFiles` when nobody has anything left to do.

Fairness (`FairSpec`): a daemon's next step is weakly fair, because the ticker
fires again and every request ends with an answer or the client's timeout; a
press under way ends. Nothing is assumed of the user. What a provider answers is
not the program's: for the providers in `Reachable` pulls and completions get
through again and again (strong fairness), and for the sessions in `Accepting`
so do pushes. Everything else may fail for ever. Faults are bounded, so they
stop. The liveness properties then say that the failures of others do not starve
those. In `Worklogs` a handler and a daemon's turn are weakly fair for the same
reasons; for the sessions in `Accepting` alone, the server is reached and Jira
takes the work log again and again. In `TokenGrant` a request's next step is weakly
fair: the daemon asks again on every cycle, and the server finishes what it began. In
`Offline` a process's next step in `OpenAt` is weakly fair: `pkg/systemd` and `pkg/launchd`
restart a daemon that failed to start, and the user the app; nothing is assumed of what it
does once the store is open. In `Engine` a completion is assumed to get through again and
again only if it has not yet, or the provider takes it twice (`Closable`).

## Findings

- `unasked_close`: `sync_requested` is never cleared. A session that was queued
  and pushed last week makes today's local completion close the issue on the next
  cycle, with no press of Push. `store_test.go` says completing locally "is still
  not a request to tell the provider"; it tests a row that was never queued.
- `torn_tokens`: `SetEnvVar` empties `credentials.env` and writes it again
  (`env.go:171`). A daemon that starts in between finds no token, and a crash there loses
  all of them. `DEVELOPER.md:390` says "Config and token writes are atomic (temp file +
  rename, mode 0600)"; only those of the config are.

Disagreements the models show without a run of their own:

- Save on the Settings page writes the fields it shows as they were when the page was
  filled, and the others as they were when save read the file (`settings.go:276`), over an
  edit made by hand since. `README.md:312` says "Editing by hand is always safe: keys the
  Settings form does not display are preserved when it saves". The stale copies that
  `LastWordHolds` excepts (`Whatever`) are these.
- Handlers of the tray run on goroutines of their own (`app.go:779`), and a session in
  hands while two overlap can be lost or stored twice. `app.go:61` says "Every mutation
  happens on the UI goroutine, so a mutex would be ceremony", and `DEVELOPER.md:257` that
  App "marshals every UI mutation back onto Fyne's main thread". The sessions that
  `ImplementsStopwatch` excepts (`contested`) are these; on the instance of `timer`, TLC
  refutes `NoTimeIsLost`, which excepts none.
- The Reset dialog is open for one session, the tray menu starts another, and Yes discards
  that one, which the dialog did not name (`Discard` in `Timer`). `app.go:544` says that
  Reset "asks first: the whole point of the app is that timed work does not evaporate". TLC
  refutes `OnlyAskedIsDiscarded` on the same instance.
- Save attaches the key only on `err == nil && remote != nil` (`store.go:362`). A query
  that fails, on a locked database for one, stores the session without a key, says nothing,
  and nothing links it later: it is never pushed (`failed` in `Mirror`). The comment says
  "When the task name matches a known remote task, the provider's key and URL are attached
  so the daemon can push the session upstream" (`store.go:345`).
- Two sessions of one second whose issues have names that `sanitize` makes equal share a
  file, and the later takes the place of the earlier (`Twins` in `FileProvider`). The
  comment at `jsonfile.go:173` has only "a re-push of the same session" overwrite.
- Where the clocks skip midnight and the zone is behind UTC (Chile, Cuba, the Azores),
  `time.Date` answers 23:00 of the day before, so two bars of the chart get one date: the
  sessions of the day of the change are in the tiles and in no bar, for as long as the day
  is in the window, and on that day the footer also counts from 23:00 (`OddMidnight` in
  `Reports`). `stats.go:105` says "Days with no work are present with a zero duration: the
  chart needs the gaps to keep its x-axis honest".
- An issue is renamed upstream. A session on the clock, or continued from the list of
  earlier names, carries the old name, which no longer finds the issue: it is stored
  without a key and never pushed (`Commit` in `Mirror`, the exception of
  `UnlinkedIsExplained`). `task.go:90` says the name "must be stable across pulls".
- The comment on `migrate` says that "an error on an existing column is expected and
  ignored" (`store.go:153`). It is returned, and `OpenAt` fails with it
  (`DuplicateColumn` in `Upgrade`): of two processes that upgrade together one may have to
  be started again, and only then finds the table current.
- The answer to a completion is lost after Jira has closed the issue. Every later cycle asks
  again, finds no transition of that name (`client.go:274`) and is refused; the row never
  says `Pushed - Complete` (`CompletionIsRecorded`, which excepts it).
- Reopening a task keeps `Pushed - Complete`, so a task completed again after that is not
  owed any more (`CompletionOwed`, `PushedMovesOn`) and the provider is never told of it.
- A sign-in with another account or site can be undone by a request that was refreshing
  the grant before (`ConsentStays`): the row has the old grant and site back until the
  next sign-in.
- After a move to another time zone, rows of the old one are compared by the wall clock
  they were written under: tiles and bars disagree (`AtHome`). `reports.go:70` says
  "every session that started in the window".
- The ledger row is written after Jira has answered, so a retry that comes while the
  first request is between its SELECT and its INSERT logs the session again; one daemon
  whose 30-second timeout ran out is enough. `SERVER.md` says the ledger "is what stops a
  client retry from logging the same session twice"; a comment in `pushWorklog` grants
  the race. `DuplicatesAreExplained` counts it under the requests given up.
- A completion that is told while the provider still refuses the work log is told again
  when the work log is accepted, since `push` stamps `Pushed` over `Pushed - Complete`.
  `engine_test.go:245` says it "must not be told twice"; Jira refuses it, on every cycle.
- Under the default query of the server, which leaves done issues out, an issue that is
  done upstream stays in the picker for good: no pull brings the revision that says so.
- The daemon reads `config.yaml` and `credentials.env` when it starts and not again
  (`DaemonLoad`). `settings.go:343` tells the user that it "re-reads its config on the
  next poll", and `main.go:104` that "the next cycle picks it up with no further ceremony".
- The poller fills the Settings page every five seconds (`Refresh(Poller)`), over what
  the user is typing. `settings.go:205` calls that function "the Discard button".
- `SaveConfig` says that the Settings page "is the only caller"; `saveConnection` is another.

## Proofs

`Engine_proofs` proves, for any sets of rows, names, issues, providers and
daemons and any bounds, under the named assumptions of `TaskStore` and `Engine`:

| Theorem | Property | Daemons |
|---|---|---|
| `TypeCorrect` | `TypeOK` | any |
| `OnlyAskedLeavesAlways`, `SignatureIsEarnedAlways` | what `ImplementsLedger` implies | any |
| `OnlyCompletedIsToldAlways` | `OnlyCompletedIsTold` | any |
| `ImplementsTheLedger` | `ImplementsLedger` | any |
| `CompleteStatusIsEarnedAlways` | `CompleteStatusIsEarned` | any |
| `NoNeedlessResendAlways` | `NoNeedlessResend` | any finite number |
| `PushingIsRecoveredAlways`, `PushedMovesOnAlways`, `QueueStaysCurrentAlways` | the one-daemon properties | one |

These inductive invariants carry them.

- `PushInv`: types; `Held`, what a daemon holds is determined by where it is
  (a row in flight is a row of the table); `Asked`, a flag, a queued row and a row
  in flight were all asked for; `Earned`, a signed row and a row about to be
  recorded were accepted. `Asked` is what makes stale memory harmless: `asked`
  only grows, so a fact that held when `PendingPush` ran still holds when the row
  is sent.
- `ToldInv`: an issue about to be recorded as closed was told, and so was that of
  every row stamped complete. It needs that no later write puts the stamp on
  another row.
- `PromptedInv`: every issue a provider was told of, and every issue in a list that a daemon
  still walks, has a completed session that was asked for. A row stays under its issue, a
  press is not taken back, and a comment is never empty again, since Reopen writes `re-opened`; so a
  list that has gone stale is still one of completed and asked issues.
- `ResendInv`: every acceptance is attributed to a daemon or was lost. A daemon
  that has delivered a row, and whose acceptance was recorded, never holds that
  row again, because the row is signed and `PendingPush` skips signed rows; so
  each row has a set of daemons, `sent[i] <= Cardinality(f[i]) + lost[i]`, and the
  set is bounded by `Daemon`. Beside it, `FaultsPay`: an acceptance is lost only to a fault.
- `SoloInv`: with one daemon, the only row marked `Pushing` is the one in flight
  or one a fault left, which is still requested and unsigned; the app can neither
  clear the flag nor sign a row. That a signed row shows it is part of it, and with
  `StampStays`, that a step writes no other status over `Pushed - Complete`, gives
  `PushedMovesOn`.

`Worklogs_proofs` proves, for any sessions and any finite numbers of daemons and
requests, under `WorklogsAssumption`:

| Theorem | Property |
|---|---|
| `WorklogsTypeCorrect` | `TypeOK` |
| `SignatureNamesWorklogAlways` | `SignatureNamesWorklog` |
| `AnswersAgreeAlways` | `AnswersAgree` |
| `ImplementsTheRegister` | `ImplementsRegister` |
| `DuplicatesAreExplainedAlways` | `DuplicatesAreExplained` |
| `NothingIsExcusedAlways` | as long as nothing breaks: one work log a daemon, and only answers of the ledger |

Three inductive invariants carry them.

- `LogInv`: types; `Paired`, a client waits for at most one request, which is
  about its session; `RequestsHold`, the id in a request's hands is that of a work
  log of its own session, differs from the ledger's while it is unsaved, and no two
  requests hold the same unsaved one; `ClientsHold`, so is every id in the ledger,
  in a client's hands and on a row. That unsaved ids differ is what keeps a failed
  re-read from taking back an answer, which the refinement needs.
- `CountInv`: work logs are attributed to clients. A client to whom one is
  attributed is `Settled`: the ledger knows the session, or a request of that
  client is about to insert it, so none of its requests that sees the ledger adds
  another. Each ending of such a request takes the client out of the attribution
  and is counted in `excused`; the crash of the server, which ends many at once,
  needs an injection of the clients taken out into the requests that ended.
- `Unbroken`: before the first fault every request is waited for and saw the ledger, so
  none is excused and no answer is adrift. It says that the exceptions of the two
  properties above are never used up by interleaved requests alone.

`TokenGrant_proofs` proves, for any requests, consents and bounds, under
`TokenGrantAssumption`:

| Theorem | Property |
|---|---|
| `TokenGrantTypeCorrect` | `TypeOK` |
| `LockoutIsExplainedAlways` | `LockoutIsExplained` |
| `SpentIsNeverStoredEver` | `SpentIsNeverStored` |
| `ConsentStaysAlways` | `ConsentStays` |

The inductive invariant `IInv` says that a token in `store` is not spent and is held
by one request only (`Carried`), that a dead token was spent or belongs to a consent
that was withdrawn (`DeadHasCause`), and that a stored token that was spent is
followed by a request that carries its successor, unless there was a fault
(`SpentIsFollowed`). That tokens on their way to
the row are all different is what makes a late write harmless.

`SignIn_proofs` proves, for any attempts, logins, handlers, accounts and ports, under
`SignInAssumption`:

| Theorem | Property |
|---|---|
| `SignInTypeCorrect` | `TypeOK` |
| `ExchangeIsOwnAlways` | `ExchangeIsOwn` |
| `KeyIsReadyAlways` | `KeyIsReady` |
| `ImplementsTheVoucher` | `ImplementsVoucher` |

The inductive invariant follows a sign-in from hand to hand. `CallbackInv`: what a
callback has established by each label. `ConsentInv`: a login with a consent is no
longer pending, and one callback at most is between the two, so a second consent
can not replace the first. `CodeInv`: a code is of an account that consented, is
allowed, registered and granted. `ClientInv`: a code in a client's hands is its own,
and a client exchanges once. `KeyInv`: two keys never belong to one attempt, hence
not to one login.

`Timer_proofs` proves, for any names, tray goroutines and sessions, under
`TimerAssumption`:

| Theorem | Property |
|---|---|
| `TimerTypeCorrect` | `TypeOK` |
| `ImplementsTheStopwatch` | `ImplementsStopwatch` |
| `TimeIsKeptAlways` | `TimeIsKept`, which says that no session is `lost` |
| `WindowKeepsTime` | with the tray unused: `TimeIsKept` of every session, none excepted |
| `WindowAsksFirst` | with the tray unused: `OnlyAskedIsDiscarded` |
| `TickersStopAlways` | `TickersStop` |
| `NamedAsStartedAlways` | `NamedAsStarted` |

The inductive invariant `IInv` says what each label knows. `JobsFit`: types of the
locals, and that a handler on its way to the store holds a session and a name.
`HaltsItsOwn`: a handler about to halt took the session that is on the clock, or both
are contested. `StartsAlone`: a handler between its commit and its start finds the clock
stopped, or what runs is contested. `NamesFit`: the entry under a running clock, and a
name in a handler's hands, are those the session was started under. Each is disturbed
only by a second handler, and then `Observe` has put the session into `contested`. For the
refinement, `Ends`: a step adds a row or gives up the time of one session at most, and then
begins none; so it is one step of a stopwatch, or none, or it contests what is on the clock
and in hands. Without tray goroutines the window is the only handler there is, and nothing
is ever contested.

`Mirror_proofs` proves, for any issues, revisions, queries and daemons, under
`MirrorAssumption` and `CoarseAssumption`:

| Theorem | Property |
|---|---|
| `MirrorTypeCorrect` | `TypeOK` |
| `NothingPassedAlways` | `NothingPassed` |
| `OneDaemonMissesNothing` | one daemon, no dated files: `NothingPassed` of every issue, none excepted |
| `RowsGoBackOnlyInRacesAlways` | `RowsGoBackOnlyInRaces` |
| `UnlinkedIsExplainedAlways` | `UnlinkedIsExplained` |

`PullInv` follows an issue through a pull: it is in the mirror as it is, or the pull has
read it so, or it changed after the pull began, or its page is still to be read and the
pull asks for it (`Covered`). When nothing is left to read or store, what remains is what
the cursor does not pass. `Fresh`: what a daemon holds is not older than the row, unless
it was overtaken. `Undisturbed`, for one daemon and a server that stamps changes itself:
nothing is late, overtaken or raced, since the cursors are of the past. `NameInv`:
an entry of the copy, or in a loader's hands, and the name on the clock or in a saved row
were an open row of the mirror, at a revision that is not after that of the row now, unless
the issue was overtaken (`NamesShown`). So
when neither copy nor table has the name, the row shows a later revision, which is done or
named otherwise, or it was taken back.

`ConfigFiles_proofs` proves, for any sign-ins, addresses, names and notes and any bounds,
under `ConfigAssumption`:

| Theorem | Property |
|---|---|
| `ConfigTypeCorrect` | `TypeOK` |
| `LastWordHoldsAlways` | `LastWordHolds` |
| `TokensSurviveAlways` | `TokensSurvive` |
| `RefusalIsExplainedAlways` | `RefusalIsExplained` |

`Copied`, of `config.yaml`: a copy of the file that is not behind is equal to it, and the
page shows what the file says in the fields that nobody has typed into; so a save from such
a copy changes only what was asked for. `Kept`, of `credentials.env`: a copy that is not
behind holds every token saved, unless another process is between emptying the file and
writing it, which is how a writer comes to hold an empty copy.

`Local_proofs` proves of `Offline`, for any processes, columns, layouts, sessions, issues and
file names and any bound on breaks, under `UpgradeAssumption`, `FileAssumption` and
`OfflineAssumption`:

| Theorem | Property |
|---|---|
| `OfflineTypeCorrect` | `TypeOK` |
| `OpenIsCurrentAlways` | `OpenIsCurrent` |
| `RecordedIsOnFileAlways` | `RecordedIsOnFile` |

`Upgraded`: a column a process in `alter` does not hold for missing is there, because no
statement takes one away; past `alter` all are. `Written`: two daemons with the same file in
hand are both contested, and one that is not finds the file empty when it writes and its own
document when it records.

`Local_proofs` proves of `Reports`, for any places, clocks, lengths of the day and the window,
names and bounds, under `ReportsAssumption` and `OffsetAssumption`:

| Theorem | Property |
|---|---|
| `ReportsTypeCorrect` | `ReportsTypeOK` |
| `ReportIsWholeAlways` | `ReportIsWhole` |
| `TodayAgreesAlways` | `TodayAgrees` |

The inductive invariant is small (`AsFormatted`: no statement changes when a row began, and
its text is the wall clock of its home at that time); the work is in what is computed from
it. A clean midnight divides the texts of a place as it divides the instants (`RowBefore`),
so a query between two midnights finds the sessions of the days between them
(`WindowRows`). Sums over the rows of a finite set are built up by induction on its subsets
(`SumOfUnion`, `SumOfClasses`), which turns tiles, bars and the breakdown into sums over the
same rows, divided by day and by name.

Each was first checked by TLC as an invariant of the instances above.

Only model-checked: the liveness properties (TLAPS has no rule here for `ENABLED`, on
which fairness rests).

Each property has a seeded fault: an operator, commented as such beside the
definition it replaces, that breaks it the way a plausible bug would.

## Not modelled

What a later version would add first: what happens to the cursor when the clocks of
client, server and Jira differ; the schema file `providers.yaml`.

Left out for good: widgets and formatting (no state), packaging, start-up
plumbing of the server, encryption (library code), the vendored trees.
