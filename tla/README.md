# TLA+ specifications of inletbox

inletbox receives files over links that an administrator hands out. These
modules specify how an upload is admitted under the limits of its link, written,
finished, given up, and removed, while other requests, the cleanup, a revocation
or a crash are in the middle of the same files; how a client that is run again
picks an upload up; and how the people of the panel sign in, prove a second
factor, keep a session on one device, and manage each other. TLC checks the
modules on small instances and TLAPS proves the main results for every instance.

Paths such as `services/files.ts` are below `src/src/`.

## 1. The system

One Node process (`server.ts`, Express) and one SQLite database through
`node:sqlite`, which is synchronous. What a handler does between two `await`s
therefore runs alone; every `await` on storage or on a request body is a point
where other handlers run. A second process, `cli.ts`, may run the cleanup on the
same database and storage.

| component | state | operations | what makes it correct |
|---|---|---|---|
| Files table and limits (`services/files.ts`) | a row per upload: status, link, declared size, reserved bytes, size | `reserveUpload`, `completeUpload`, `failUpload`, `markMissing`, `markDeleted`; lists of stale, unfinished and complete rows; `liveStorageKeys` | limits hold under concurrency; rows only go forward; what ends holds nothing |
| Direct uploads (`http/public.ts`, `storage/limit.ts`) | the handler's `maxBytes`, its place in the code | PUT/POST: reserve, stream, complete or fail and delete | no more than reserved is kept; the answer matches the row |
| Resumable uploads (`http/tus.ts` and the tus libraries) | the library's lock, data and sidecar in storage | POST, PATCH, DELETE with the hooks `onIncomingRequest`, `onUploadCreate`, `onUploadFinish`, `POST_TERMINATE` | the row's size is the stored size; a finished upload is beyond the client |
| Links (`services/links.ts`) | revoked, expired; immutable limits | `linkState`, `linkUsage`, `effectiveLimits`, `revokeLink` | a revoked link is rid of its unfinished uploads |
| Cleanup (`services/cleanup.ts`, `server.ts`, `cli.ts`) | lists read once and worked off | expire stale uploads, flag missing files, sweep orphans, purge sessions | removes only what is given up; gives everything back in the end |
| Storage (`storage/local.ts`, `storage/s3.ts`) | objects and sidecars by file id | put, get, stat, delete, `cleanupOrphans` | what is complete stays readable |
| Panel (`http/admin.ts`) | none of its own | revoke a link, delete a file, and forms over the services | loops survive failures |
| Accounts and sessions (`services/auth.ts`, `http/middleware.ts`) | admins, sessions, lockout counters | password step, second factor, confirmation, session ends | a pending session becomes complete only by a second factor; the lock holds |
| Second factors (`totp.ts`, `webauthn.ts`, `services/passkeys.ts`) | last TOTP step, recovery codes, passkeys | verify, enrol, disable | each code counts once |
| Device binding (`services/sessions.ts`, `dbsc.ts`) | key, current and previous bound cookie, challenge | offer, register, refresh, check | a live browser is never shut out, a stale cookie is worth nothing |
| Users and cases (`services/users.ts`, `cases.ts`) | roles, memberships | create, demote, disable, delete, assign | one active administrator remains |
| Clients (`public/upload.js`, `scripts/inletbox-upload.sh`) | upload URL, offset | create, HEAD, PATCH, start over | "complete" is said of complete files only |

How they meet: the handlers call the files service (SQL transactions) and
storage (awaited); the tus library calls the hooks of `http/tus.ts` and the same
storage directory; the revoke route and the cleanup call `discardUploadData`
and then `failUpload`, for a list of rows they read once; storage knows nothing
of rows except the set of live keys the cleanup passes to it.

Hard behaviour: rows and artefacts live in two places and no transaction spans
them; lists and live sets are stale as soon as the first `await` follows; a
handler keeps an open descriptor to a name others may unlink; requests wait for
the tus lock after they were admitted; a crash drops every handler and loop but
no row and no file. `PROJECT.json` lists the hazards by line.

## 2. Modules

| module | what it is |
|---|---|
| `Bytes` | `SUM(column)` over a set of rows, as the cardinality of a set of bytes |
| `FileLedger` | the abstract specification: what the files table promises, one action per transaction |
| `TusUploads` | the abstract specification of the tus endpoint: what a client that sends an upload may rely on |
| `Uploads` | the system: requests, storage, revocation, cleanup, deletion, crash; it implements `FileLedger` and `TusUploads` |
| `Resume` | a client of the tus endpoint that is run again, and what it remembers; its server implements `TusUploads` |
| `SecondFactor` | one account: sessions in two steps, codes, passkeys, lock, confirmation |
| `Accounts` | all accounts: roles, passwords, sessions, membership of cases; server and CLI |
| `DeviceBinding` | sessions bound to a key, the browser's cookies and challenges, the network |
| `MCFileLedger`, `MCUploads`, `MCResume`, `MCSecondFactor`, `MCAccounts`, `MCDeviceBinding` | small instances, for the `.cfg` files |
| `Bytes_proofs` | how sums change when rows are added, removed or changed |
| `FileLedger_proofs` | the limits hold in every ledger |
| `Uploads_proofs` | types, the refinement, and the limits of `Uploads` through it |
| `UploadsData_proofs` | who takes data from a row of `Uploads`, that sizes are true, that `Uploads` keeps the contract of `TusUploads`, and what stays as it is once reached |
| `Resume_proofs`, `SecondFactor_proofs`, `Accounts_proofs`, `DeviceBinding_proofs` | the safety properties of these modules; for `Resume` also the contract |

### FileLedger

A row has a status, a link and a `charge`, the bytes it counts for: its
reservation while `uploading`, its size when `complete`, nothing otherwise.
`Reserve` checks count and total as `reserveUpload` does, `Complete` may give
back part of the charge and never takes more, `Release`, `Miss` and `Delete`
return all of it. Nothing says who takes these steps or when.

### TusUploads

`FileLedger` is what the table promises the administrator, `TusUploads` what the
endpoint promises a client: an upload has a length, an offset that only grows
while its data is there, and completes only when it was written to its end;
data is discarded as a whole, and an upload that was given up never completes.
`Append` needs the data to be there before it, `Complete` says what happens when
it is not (an upload whose data was discarded under the request that finishes
it, section 6), `Return` that storage brings back what it had lost in full.

The contract joins the two modules about tus. `Uploads` implements it with the
waits, loops and crashes inside and between requests; there `creating` are the
uploads whose `store.create` is under way, `offset` is the length of the stored
bytes, "over" the aborted and expired rows and "removed" the missing and deleted
ones. `Resume` has a request in one step and implements it too, with no upload
ever in `creating`; an expired upload is out of every client's reach (410), so
`Resume` does not say when its data goes and maps `kept` to the uploads that were
created. So neither module lets the server do what a client of the contract
would not expect. It is not a proof that each behaviour of `Uploads` is
one of `Resume`: the contract leaves out the client, and in `Resume` an upload
does not end while a PATCH of it is being served.

### Uploads

State and code correspond as follows.

| variable | code |
|---|---|
| `linkState` | outcome of `linkState()`; "blocked" stands for expired and for a closed case, which refuse alike and may be undone |
| `status`, `link`, `declared`, `reserved`, `size` | columns of `files` ("none": no row yet) |
| `maxBytes`, `request` | the local `maxBytes` of a direct handler, and which `await` the request working on the upload is in |
| `waiting` | PATCH and DELETE requests past `onIncomingRequest` that wait for the tus lock |
| `stored`, `sidecar` | the object under the file's key (its bytes, or `Gone`), the tus `.json` |
| `away` | bytes that storage itself lost and may bring back |
| `cleaning`, `todo`, `inHand` | per loop: the stage of a cleanup pass, the rest of the list, the file between its `await` and its write |
| `deleting` | rows marked deleted whose data is still to be removed |

An action is the code from one `await` to the next, or a whole transaction:

* direct: `DirectStart` (reserve), `DirectOpen` (the file appears after the
  row), `DirectDone` (put resolved, row completed if it is there, 201 anyway);
  the error path is `DirectBreak` (`put` removes what it wrote and awaits that,
  the row is still unfinished), `DirectFail` (the row) and `DirectDiscard` (the
  handler's own removal). A body that put took and the handler refuses goes to
  `DirectFail` at once.
* resumable: `TusCreate` (the hook that reserves), `TusCreated` (`store.create`,
  which can fail half-way), `TusArrive`/`TusWait`/`TusLock`/`TusRefuse` (the
  check of the row, then the lock: between the two the row may change),
  `TusWrite`, `TusFinish`, `TusRemove`, `TusTerminated`.
* discarding: `Revoke` reads the list, `CleanExpire` reads the stale rows, and
  both loops are `Discard` (remove the data) then `Discarded` (write the row).
* cleanup: `CleanVerify`, `CleanStat`, `CleanMiss` (stat, then flag),
  `CleanSweep`, `CleanOrphan`, `CleanEnd`; `CleanQuit` when an exception or a
  signal cuts a pass short. `Server` is the timer's pass; `Operators` are CLI
  processes, which outlive a crash of the server.
* panel: `FileDelete`, `FileDeleteData`. Environment: `LinkBlocks`,
  `StorageLoss`, `StorageReturn`, `Crash`.

Abstractions, and why they keep what matters:

* A refusal (`LimitError`, 403, 404, 410) changes nothing and is no step.
* Time: any subset of the unfinished rows may be the stale ones, any subset of
  the artefacts that exist and are not live when the live keys are read may be
  older than the cutoff. This covers every TTL of zero or more, the CLI's
  `--ttl-hours` included. A negative TTL, and a file system clock that lags
  behind the cutoff, are outside.
* Removal (`RemoveArtefacts`) may fail before the data or between data and
  sidecar; the callers go on, as in the code.
* A handler writes through its descriptor: after an unlink its bytes are lost
  (`WriteThrough`). This is the local backend.
* The tus libraries are external and modelled from how the hooks and options of
  `http/tus.ts` rely on them: a lock per upload, getUpload from sidecar and
  data, no termination of finished uploads. Of the requests that wait for the lock
  of an upload the model keeps one PATCH and one DELETE.
* SQLite commits are taken as durable.

`reserveUpload` runs right after the token was checked, with no `await` of I/O
in between, so `DirectStart` and `TusCreate` test the link's state and insert in
one step. PATCH and DELETE do not: they test first and act when they get the
lock.

### Resume

One file, one link, and a client that can be run any number of times: the script
`scripts/inletbox-upload.sh`, or the page `public/upload.js` with tus-js-client.
`remembered` is the script's state file or the page's localStorage; `run` is
what the client is about to send and the offset it believes in; `status`,
`offset` and `parts` are the uploads on the server. `Uploads` has the steps
inside a request; here a request is one step with four outcomes, answered
(`Head`, `Created`, `Patched`), answer lost (`Created` with `GivesUp`,
`PatchFails`), broken off after some of its bytes (`PatchFails` with a smaller
`n`), or cut by a stop of the server before `onUploadFinish` (`PatchCut`). That
is sound because a client has one request out at a time and the lock of the tus
server ends a PATCH left behind before it serves the next request.

Contents are told apart by `version` only: `Edit` changes the source file and
keeps its size, `parts` collects the versions an upload has bytes of. `Key`
is the difference between the clients: the page's key holds the time of change,
the script's does not. The page refuses to read a file that changed since it was
picked (`Readable`). A client that is killed before it reports is one whose last
answer was lost. `Reopen` closes and opens the link (a case closed and
reopened); `Expire` is the cleanup or a revocation. `cut`, `unheard` and
`refused` are history and name the exceptions of the properties.

### SecondFactor

One account. `sessionMiddleware` reads session and account before the body of a
POST is there, the route decides by what was read, and the services read the
database again. A handler therefore runs on a `Snapshot`, one taken just now or
one of `inFlight`, taken while other handlers had yet to run; one that arrives
just now may read the same as one under way, which then stays (`Handled`).

| variable | code |
|---|---|
| `row`, `attempts`, `confirmed` | `sessions`: `totp_verified`, `totp_attempts`, `confirmed_until` in the future |
| `secret`, `enabled`, `lastStep`, `failed`, `lockedUntil` | the `totp_` columns of `admins` |
| `passkeys`, `unused` | `admin_passkeys`, `admin_recovery_codes` that were not used |
| `step` | `totpStep(now)` |
| `signIn` | what `authenticate` read of the account while it hashes the password |

* signing in: `LogIn` (`authenticate` reads the account) and `LoggedIn`
  (`createSession` inserts by what was read); `TotpLogin`, `TotpLoginWrong`, `PasskeyLogin`, each with
  the whole transaction: the code is spent, the failures are counted, the lock
  is set and the pending sessions go, the pending session is replaced.
* confirming: `ConfirmCode`, `ConfirmCodeWrong`, `ConfirmOtherwise`.
* security page: `BeginTotp`, `ConfirmTotp`, `RegenerateByCode`, `Regenerate`,
  `DisableTotp`, `AddPasskey`, `RemovePasskey`, `EndSessions`; `ResetFactors` is
  `resetSecondFactors`. `ConfirmTotp` and `AddPasskey` end the other sessions in
  a second statement and may stop before it (`Stopped`); the sessions they spare
  are kept in `spared`.

The hash blocks the server (`scryptSync`), so between `LogIn` and `LoggedIn` no
request is handled (`ServerStep`). The operator's CLI is another process and
time goes on (`OtherStep`): a reset of the factors may fall in between. The
session that is then made waits for a factor that is gone; `overtaken` keeps it.

A code is a pair of the secret and its step, or of the set and its number.
Left out: the challenge of a passkey ceremony and signature counters (a passkey
answers or it does not; a failed answer changes nothing), passwords and
`must_change_password` (they only refuse), the texts of names.

### Accounts

All accounts, each with a role, its sessions and its cases. The server hashes
passwords between its statements, which blocks the server and lets the CLI in:
`LogIn`/`LoggedIn` and `ChangePassword`/`PasswordChanged`/`OthersEnded` are one
handler cut at these places (`handler`), `OperatorSets`/`OperatorEnds` the two
statements of `reset-password`, which may be interrupted (`OperatorStops`).
Everything else of `services/users.ts` and of the routes is one transaction per
action; requests carry the role that was read (`inFlight`), `Crash` drops them.

A password is modelled by what the properties ask of it: whether a session was
made with the current one. `outdated` holds the sessions whose password was
replaced, `missed` those among them that no `DELETE` is going to reach. Left
out: the fresh confirmation that the routes of users ask for,
`must_change_password` and limits by address (they only refuse), user names,
and `resetUserTotp`, which is `ResetFactors` of `SecondFactor`.

### DeviceBinding

`row`, `offer`, `binding` are the server's side (`sessions`,
`dbsc_offered_at`/`dbsc_challenge`, `session_bindings`), `sid`, `jar`, `jarLeft`
and `cached` the browser's (session cookie, bound cookie and its Max-Age, the
challenge it holds), `requests` and `call` the network. A page request is
`Leave`, then `Arrive`, `Offer` or `LogOut` at any later time, with the cookie
that it left with. The browser's exchange with `/admin/dbsc` is one at a time
and may be lost at any point: `Register`, `Refresh`, then one of
`RefreshEnded`, `RefreshChallenged`, `RefreshRenewed`, then `TakeAnswer` or
`Lose`.

Cookies and challenges are random and compared only with what a binding stores,
so a copy of a cookie is modelled by which of the two stored ones it equals
(`cookie`, `prev`, `neither`), and a challenge by whether it is the binding's.
Times are what is left of them and count down in ticks of `GRACE_MS`
at most; a call or an answer that waits longer is lost. `age` and `turns` of a
copy are history for the properties. Signatures are taken as given: only the
browser that registered answers a challenge.

Operators named `Bug...` are mistakes that the code does not make. No action
uses them; they stand beside the definition they would replace and show, in the
mutants of `PROJECT.json`, that each property notices.

## 3. Properties

Safety of `Uploads`:

* `TypeOK`; in particular a reservation computed by subtraction is never
  negative nor above the server's cap.
* `QuotaHeld`, `CountHeld`: completed and reserved bytes within the link's
  total, completed and unfinished files within its count.
* `SizeIsStored`: a complete file that can be read has the size of its row.
* `FinishedDataKept`: the data of a complete row goes only if storage loses it,
  or if a discarding loop had listed the file while it was unfinished. The last
  case is real, see section 6.
* `UploadDataKept`: the data of an upload under way goes only by such a loop, by
  its own client's DELETE, or by `put` when the body of a direct upload broke
  off; in particular the sweep, with live keys read long ago, never takes it for
  an orphan.
* `LedgerSpec`, `RowsOnlyAdvance`: `Uploads` implements `FileLedger`.
* `TusSpec`: it implements `TusUploads`. No request, loop or late write makes an
  upload go back, come back in part, or complete before its end.

Liveness of `Uploads` under `FairSpec`: `ReservationsReturn`, `RevokedDrained`,
`EndedDataSwept`.

`Resume`:

* `ReportsComplete`: what the client reports as complete is complete on the
  server, but for a server that stopped before `onUploadFinish` (section 6).
* `ArrivesOnce`: run as often as one likes, the file arrives once, unless the
  last answer was lost.
* `OneVersion`: a file of the page is one version of the source, never a mixture.
* `NothingAbandoned`: an upload with bytes stays remembered, unless the link
  refused the client in between or the client took it for done.
* `ComesToAnEnd` (liveness): tried again and again, the client ends with success
  while the link is open and has room for one more upload.
* `TusSpec`: the server that the client meets keeps the contract of `TusUploads`.

`SecondFactor`:

* `CompleteIsEarned`: a session counts as complete only if its second factor was
  proved in it or there was none when it signed in; adding, removing or
  resetting factors never completes a pending one, whatever was read before.
* `FreshIdOnly`: the id of the password step never becomes the privileged one.
  Both name two exceptions, `spared` and, while there is no factor, `overtaken`
  (section 6).
* `CodesCountOnce`: no code is accepted twice, over all the places that take one.
* `CodesBackAFactor`: recovery codes do not outlive the last factor.
* `LockHolds`: while the account is locked no code signs in or confirms.
* `LastFactorKept`: with `ADMIN_REQUIRE_TOTP` the last factor goes only by a
  reset, or by a request that was itself overtaken by a change of factors.

`Accounts`:

* `AdministratorRemains`: administrators who demote, disable and delete each
  other, by requests read long ago, always leave one who may sign in.
* `UndoPossible`: who takes an administrator's rights away is one and could give
  them back, unless the request was itself overtaken.
* `NothingLeftBehind`: no session of a disabled or deleted account, no member
  without an account.
* `SessionsKnowPassword`: a session outlives its password only while it is about
  to be ended, or in the cases of section 6.
* `LetInByAnother`: nobody lets themselves into a case that was there before.

`DeviceBinding`:

* `CopiesExpire`: a copy of the bound cookie is worth nothing `Grace` after its
  lifetime, and nothing after two renewals.
* `OvertakenOnce`: one renewal does not reject a request that left before it,
  and the cookie in the jar is good for its whole Max-Age.
* `BackIn` (liveness): a browser with one binding gets back into a session that
  lives on, whatever is lost on the way.

Fairness of `Uploads` (`PassesGoOn`), all of it on the server's own cleanup: the
timer starts passes and a pass goes on (`server.ts`, `cleanupTick`, one pass at
a time); from some point on no pass is cut short in its middle, by a stop of the
server or by an exception (`CutShort`, the one step excluded, is a pass that
becomes idle before its sweep is through). The server may still stop again and
again between two passes and at the end of one, with requests and loops under
way, and it may be quite idle when it does a pass: the client that vanished with
nothing else going on is the first case the properties are about. A row that
stays unfinished and an artefact that stays orphaned grow older than the cutoff
of some pass, stated per file as strong fairness of a pass whose list has the
file; removing an orphan does not fail for ever. Nothing is assumed of clients,
of the CLI, of the revocation's loop or of `discardUploadData`, which may fail
every time.

Fairness of `DeviceBinding`: time passes, and of the exchanges that a browser
without the bound cookie repeats, some get through: strong fairness of the
request, of the server's answer and of taking it. Losing them again and again is
allowed, losing all of them is not; nothing is assumed of pages, registrations
or sign-ins. Fairness of `Resume`: the user tries again (weak fairness of
starting, of reporting, and of being refused), and of the requests that are
repeated some are answered (strong fairness of the HEAD, of the POST with its
answer and of the PATCH). The server, the link and the cleanup are free.

## 4. Runs

| run | instance | shows |
|---|---|---|
| `ledger` | 3 rows, 2 links, 2 bytes per file, 2 files and 3 bytes per link | the ledger keeps its limits |
| `mixed_slot` | a direct and a tus upload, one file allowed, link limit above the server's cap | types, the count, refinement |
| `two_direct` | 2 direct uploads of up to 2 bytes, total 3 | the total, with unknown lengths and surplus returned; data of finished and unfinished uploads |
| `two_cleaners` | one tus upload of up to 2 bytes, server and CLI cleanup, lossy storage | data of finished and unfinished uploads; the contract of the endpoint |
| `eventually` | one tus upload of up to 1 byte, lossy storage, fairness | the three liveness properties |
| `resume` | 3 uploads of 3 bytes in chunks of 2, 2 versions of the file, both clients | the client's properties, that it comes to an end, and the contract of the endpoint |
| `second_factor` | 2 sessions, 2 passkeys of which 1 may be registered at a time, 1 secret, 2 sets of 1 recovery code, locks after 2 failures, 1 late request or 1 sign-in being hashed, second factor required | all of `SecondFactor` |
| `accounts` | 2 administrators and an account to come, 2 sessions, 1 case, 2 late requests | all of `Accounts` |
| `bound_cookie` | 2 sessions, cookie and grace of 1 tick, challenge of 2, 1 late request | all of `DeviceBinding`, `BackIn` included |
| `discarded_finished`, `answered_aborted`, `missing_swept` | one upload | the disagreements of section 6 |

Why the bounds are enough to meet the interesting cases: files interact only
through the usage of their link and through the lists of the loops. The total of
3 admits either of two files of 2 bytes and not both, and leaves 1 byte for an
upload of unknown length; the slot of one file is handed from one kind of upload
to the other; two bytes give a partial write that is neither empty nor full; one
upload suffices for each race between its own requests, two cleanup processes
and the revocation, since all of them act on one row and one object. What does
depend on the number of files, links and bytes is proved instead. Links are
independent of each other in `Uploads` and one is enough there; `ledger` has two.

`resume`: a last chunk shorter than the others, a first one that may be broken
off in its middle, and three uploads: one lost, one expired, one that ends.
`second_factor`: two sessions are one that acts and one that is acted upon, or a
pending one and its replacement; the app and a passkey let each be the last
factor, taken by a request of either session and late or not; the second passkey
meets the limit, or replaces the first; the clock takes one step, which ends a
lock, and there are codes of four steps, one of them behind and one ahead of the
window. `MaxInFlight` counts requests that wait for their body and the start of
a sign-in; of the two processes that matter to a sign-in, the server is blocked
and only the CLI steps in. A second secret (enrolment after the app was turned
off) does not fit into the time of a run; the proofs have no such bound.
`accounts`: two administrators with a late request each can do to each other
whatever they can do; the third account is created, promoted and a member.
`bound_cookie`: the shortest times with distinct expiry of cookie, grace and
challenge; two sessions are needed for an old binding next to a new sign-in.
The safety part also passed with a lifetime of two ticks and with two late
requests. `MaxInFlight`, `MaxStep`, `MaxSecrets`, `MaxIssues` and `Versions` are
the bounds that only the models have.

## 5. Proofs

All for arbitrary finite sets of files, arbitrary links and limits, under the
assumptions `LedgerConstants` and `UploadsConstants`, which say that the limits
are natural numbers or absent and that the ids are distinct.

* `Bytes_proofs`: a sum of naturals is a natural number; sums add over disjoint
  sets, do not grow when rows go or shrink, grow by one row's bytes when it is
  inserted.
* `FileLedger_proofs`: `TotalHolds`, `CountHolds`, `EndedRowsHoldNothing`,
  `RowsAdvance`. The limits alone are not inductive: that a step other than `Reserve` adds nothing
  needs that charges are natural numbers and that only live rows are charged;
  `LedgerInv` says so. `UsageOnlyFalls` then covers every step but `Reserve`,
  and `ReserveAdds` says that `Reserve` adds exactly what it checked.
* `Uploads_proofs`: `RowInv` strengthens `TypeOK` by what a request may still
  write: `maxBytes` of a direct handler equals the reservation of its row while
  that is unfinished, and so does the declared length of a tus row. Without it a
  completion could charge more than was reserved and would be no step of the
  ledger. The statements (`reserveUpload`, `completeUpload`, ...) are treated
  once, the actions only say which of them they use.
  `UsageOfLink` shows that the four numbers of `linkUsage` are the ledger's sum
  and count. Then `UploadsImplementLedger`: `Spec => LedgerSpec`, and through it
  `QuotaHolds`, `CountHolds` and `RowsAdvance`, by the theorems of
  `FileLedger_proofs` for the instance; `UploadsTypeCorrect` directly.

* `UploadsData_proofs`: `SizeStored`, `FinishedKept`, `UploadKept`, also with a
  storage that loses objects and with any number of CLI processes. `Working` says
  which rows a request may still find, `Stored` that what was completed, or is
  about to be, is stored with its size or gone, `Ending` that a sweep's list and
  the pending deletions hold rows without a claim on their data only. Without
  `Working` the error path of a direct upload or a late termination could meet a
  completed row. `UploadKept` has one exception more than `FinishedKept` needs:
  `put` removes what it wrote while the row is still unfinished. Most steps are `Quiet` (a row ends, a request ends, data goes)
  and are treated once; the ones that are not have a step each.
  `UploadsImplementTus`: `Spec => TusSpec`. Two facts had to join the invariant
  for it: while a creation is under way nothing is stored (else the file that
  appears would take an offset back), and a row whose upload can be resumed
  declares a size (else nothing bounds what is appended). The steps are sorted by
  what the contract sees of them, and a step that it does not see leaves
  `state`, `length`, `offset`, `kept` and `creating` as they are.
  `SweepSpares` and `Answered` bound two of the disagreements of section 6: the
  sweep touches no record but those given up, deleted or flagged missing, and a
  201 is wrong only for a row that was aborted or expired while its body
  streamed.
  `DrainedForGood`, `DrainedOnce` and `SweptForGood` are the safety halves of two
  liveness properties. A revoked link stays revoked, its rows leave `uploading`
  for good and no new one is reserved, so `RevokedDrained` needs no more than
  that the link is drained once. An ended upload without artefacts stays without
  them if no creation is under way and storage has nothing of it to bring back;
  waiting requests and loops may still hold the file then, and `EmptyStays` goes
  through all of them.
* `Resume_proofs`: `Reported`, `Once`, `Unmixed`, `Kept`, for any number of
  uploads, sizes and chunks. The strengthening says what the client's picture of
  the server is worth: the upload it works on is the one it remembers, and has
  at least the offset it believes in (`Following`); an upload is remembered
  once, under one key (`Remembering`); a full upload is complete or was cut
  (`Filled`); a complete one whose last answer arrived is the one the client is
  at (`Heard`), which is why no second one can be complete without a lost
  answer; and the page stores under the key of a version bytes of that version
  only (`Sorted`). `NeverConflicts`: a client about to send a PATCH has exactly
  the server's offset, so no PATCH is refused for its offset.
  `ResumeImplementsTus`: `Spec => TusSpec`.
* `SecondFactor_proofs`: all its properties. `SessionsInv` says that a
  session is pending only while there is a factor to prove, unless a reset
  overtook its sign-in, and that a late request read as complete belongs to a
  session that still is or is gone (`StillComplete`); `SignInInv` that an account
  read without a factor has none when the session is made, since only the server
  adds one and it is hashing;
  `CodesInv` says that a code that was used is at or before `lastStep` of its
  secret, of an earlier secret, or no longer among the unused ones. Neither
  `CompleteIsEarned` nor `CodesCountOnce` is inductive without them: a pending
  session could outlive the last factor, a late request or an old code be let in.
* `Accounts_proofs`: all five. `SigningIn` says that the account of a sign-in
  whose password is being checked is still active (only the CLI steps in, and it
  disables nobody), so that no session is made for another; `OutdatedLive` that
  history speaks of existing rows only.
* `DeviceBinding_proofs`: `Expire` and `Overtaken`. `Tracked` says for
  each copy that its age and what is left of it at the binding add up to its
  lifetime, whether it is the current cookie or the previous one; `OnItsWay`
  says the same of a cookie in an answer, and `JarFresh` that the browser counts
  the Max-Age at most one tick later than the server counts the lifetime.
  `RenewalAccepted`: the cookie that the browser takes from an answer opens the
  session if that still lives; without `OnItsWay` the answer could arrive after
  its cookie was overtaken. It is the step that `BackIn` turns on: what remains
  for fairness is that an answer is taken at all. The assumption `NoneIsNoCopy`
  says that "no cookie" is none of the cookies.

Model-checked only: the liveness properties (`ReservationsReturn`,
`RevokedDrained`, `EndedDataSwept`, `ComesToAnEnd`, `BackIn`), since liveness
under fairness and `ENABLED` are out of the prover's reach; proved of them is
what stays once it is reached (`DrainedOnce`, `SweptForGood`) and what the step
that ends the wait does (`RenewalAccepted`, `NeverConflicts`). Every safety
property of a passing run is proved, the three refinements included.

## 6. Where the program differs from what is written

Three are runs that TLC ends with a counterexample:

* `discarded_finished`: `cleanup.ts:14` says that `discardUploadData` removes an
  *unfinished* upload's data. Its callers list the rows once and await storage
  for each. An upload that finishes while an earlier file of the list is being
  removed, or while its own removal is awaited, is `complete` with no data
  behind it; `failUpload` then matches nothing. The same holds of the revoke
  route.
* `answered_aborted`: `docs/uploading.md:29-32` answers 201 with
  `"status":"complete"`. `http/public.ts:134-136` does so without looking at
  what `completeUpload` returned, also when the row was aborted by a revocation
  or expired by the cleanup while the body streamed.
* `missing_swept`: `docs/architecture.md:79` sweeps "storage artefacts with no
  database record". `liveStorageKeys` (`files.ts:163-166`) also leaves out rows
  flagged `missing`, so a file whose object was unreachable for one cleanup is
  removed by a later one after it came back.

Others are named as exceptions in the properties, so that the rest of each
property is checked and proved:

* clients: after a stop of the server between the last byte and
  `completeUpload` the next HEAD answers the full size and the client reports
  `complete` for a row that stays unfinished (`cut`). When the last answer is
  lost the upload is complete, the next HEAD answers 410, and the file is sent
  again (`unheard`). A 403 of a link that is closed for a while makes the client
  forget an upload that is alive (`refused`). The script's key holds no time of
  change: a file edited in place and of the same size is continued and mixed,
  which is why `OneVersion` speaks of the page only.
* second factors: turning the app off and new recovery codes by a code look at
  no lock and count no failure, and a passkey lifts the lock; `LockHolds` speaks
  of signing in and confirming. Two late requests may remove the last factor
  between them although one is required: each goes by what it read, and the step
  of the second is the exception of `LastFactorKept`. A handler that stops
  between its two statements leaves sessions that proved nothing (`spared`), and
  after a new passkey an account without recovery codes. A sign-in makes its
  session by what `authenticate` read before the hash (`auth.ts:110-115`,
  `admin.ts:148-160`): when the CLI resets the factors in between, the session is
  inserted as pending after the account's sessions were ended, counts as complete
  because there is no factor any more (`getSession`), and keeps the id of the
  password step when a factor is enrolled in it (`overtaken`).
* accounts: the role in a late request is the one that was read, so an
  administrator demoted meanwhile can still add themselves to a case. The
  comment at `http/admin.ts:679-680` has administrators never be members; a
  member who is promoted stays one. A `reset-password` of the CLI that overlaps
  a sign-in or a change of password leaves a session with the old password, and
  the change overwrites the operator's password.
* device binding: the comment at `services/sessions.ts:135-136` and
  `docs/security-model.md:98-99` have a previous cookie stay good until it would
  have expired; a second renewal ends it at once. The check allows one `Grace`
  more than the lifetime. A page request that left before the registration is
  rejected after it; a registration whose answer is lost leaves the browser
  without a cookie for its own session; and a new sign-in next to an old live
  binding lets the two renew the cookie of the same name in turn. `BackIn` asks
  for a browser with one binding.

## 7. Not modelled, and the plan

In this order:

1. The ceremony of a passkey with its challenge, and the guards of
   `must_change_password`, if the routes that depend on them grow.
2. The page's cancel button (a termination next to a lost PATCH) and files of no
   bytes in `Resume`; two links for the script, whose key does not hold the link.

Not modelled, and not planned:

* S3: most of what differs from the local backend (multipart uploads, part
  objects, incomplete uploads) is inside the S3 store of the tus libraries, which
  this repository configures; a module would model that library.
* Translations (almost two thirds of the lines of `src/src` are texts in
  `locales/`), views, branding, configuration and logging: data and rendering
  with no behaviour of their own. The audit table is only appended to.
* Rate limits by address are counters of middleware that only refuse.
* Cryptography: a signature or a code is right or wrong. Migrations run before
  the server listens. Downloads change nothing. Power loss inside SQLite is the
  business of SQLite.
