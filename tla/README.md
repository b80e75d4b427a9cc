# TMX Assessment: TLA+ models and proofs

TMX Assessment (`src/backend`, NestJS on PostgreSQL; `src/frontend`, Next.js)
lets staff write tests, send them to candidates as emailed links, and read the
scored results. This directory models the program where it is hard to test:
requests that meet in the database, pages whose calls are answered late or
never, and the rules a test passes through from the form to its score.

## The system

The API keeps no state in memory. Everything requests share is in PostgreSQL
(Prisma, default READ COMMITTED), and a handler is an `async` function that
awaits one statement after another; other requests' statements run between any
two of them. Only calls written as `$transaction` are atomic. There is no
background job: an attempt whose time ran out is closed by whatever reads it
next (`finalizeOverdue()`).

A page keeps a query cache, and what somebody has typed or answered. Its calls
overlap, are answered in any order, fail after the server has carried them out
or before, and are tried again.

| Part | State | Operations | Meets | What makes it correct |
| --- | --- | --- | --- | --- |
| Taking tests (`take.service.ts`, the token guard) | `assessment_attempts`, `attempt_answers` | overview, start, answer, submit | other tabs, sweeps, revokes | one clock and one order per attempt; no start on an expired link; true replies |
| Closing attempts (`attempts.service.ts`) | status, score, times of an attempt | `finalizeOverdue`, `finish` | readers, submit, answer | one result, never rewritten; EXPIRED only when time ran out |
| Candidate links (`assessment-invitations.service.ts`) | `assessment_invitations`, emails | create, list, detail, resend, revoke | template edits, candidates | candidates get sound copies; a revoke is final; emails tell the truth |
| Link status, dashboard | none | reads | sweeps | what was shown as ended stays ended |
| Templates, questions, sections, bands (`assessments.service.ts`, `questions.service.ts`) | `assessments` and its children | create, update, reorder, duplicate, remove, import | other editors, sends | order, limits, options and scoring method survive concurrent edits |
| Documents and spreadsheets (`assessment-import.service.ts`, `canonical/`, `common/csv.ts`) | same tables, media | export, import, seed | hand-made files | what was exported comes back |
| Rules, scoring, layout, snapshot (`canonical/`) | none | pure functions | | form and API agree; scores and layouts are fair |
| Staff sessions and accounts (`src/auth`) | `users`, `sessions`, `auth_tokens` | sign in and out, renew, change, reset, invite, accept | each other | a link acts once; sessions end when promised |
| Candidate's page (`take-flow.tsx`, `assessment-runner.tsx`) | saves, unsaved answers, the screen | choose, save with retries, hand in, time out | the server, the network | no answer forgotten; saves in order; the timer ends the test |
| Preview (`preview-flow.tsx`) | run, score, refresh | run, hand in, shuffle again | edits | the score is of the last run |
| Editor and library pages | cached test, drafts, dialogs | type, save, move, import | other calls, other admins | nothing typed is lost; the page ends up true |
| Home page, Sent list, results | cached reads, dialogs | send, resend, revoke, poll | candidates, the clock | own changes show; results catch up |
| Media and storage | `media_assets`, files | upload, serve, remove | failures | no record without its file |
| Mail, guards, rate limits, configuration, health, UI kit | little or none | | | see "Not modelled" |

`PROJECT.json` lists every part with its status, and the hazards: the places
in the code where something can go wrong that a test would hardly reach, each
with the properties that watch it.

## Modules

| Module | What it is |
| --- | --- |
| `AttemptLife` | Abstract: what a candidate's attempts may ever do. Started at most once, while the link is open; finished at most once; EXPIRED only past deadline and grace. |
| `Take` | The server side of one link: `TakeService`, `AttemptsService`, `InvitationTokenGuard`, staff reads and revokes. Implements `AttemptLife`. |
| `Links` | Staff sending tests to one candidate: `AssessmentInvitationsService`, with templates edited and tests taken meanwhile. |
| `AccountLife` | Abstract: what an account and its emailed links may ever do. Activated once; a password set by a live link, used up by it, or by its owner; no link comes back. |
| `Auth` | `AuthService`, `InvitationsService`, `AuthTokensService`, `SessionsService` and the global guards, with PostgreSQL's row locks. Implements `AccountLife`. |
| `Editor` | One test's sections, questions, options, bands, imports, method and media under overlapping requests: each call its read and its later write or transaction. |
| `Null` | `None`: `null`, `undefined` and NULL, where two modules with a null of their own meet. |
| `Questions` | `question-rules.ts`, `question-draft.ts` and the columns of `csv-questions.ts`: what a question is to the form, to the API and in a spreadsheet. |
| `Scoring` | `scoring.ts` and `layout.ts`: scores in exact fractions, bands, flags, and the orders a candidate can be given. |
| `Documents` | Section keys and media names in documents (`canonical.mapper.ts`, `assessment-import.service.ts`) and in the rows of a CSV. |
| `Csv` | The reader and writer of `common/csv.ts`, and how `parseQuestionCsv()` finds a row's cells. |
| `Authoring` | Composes the four: a question from the form or a document to its score, a whole test through copies, documents and spreadsheets, a sheet to a CSV file. |
| `TakeFlow` | The candidate's page over a network that loses requests and replies, beside a small server. |
| `Runner` | The screen that puts the questions one at a time, for candidates and in the preview with its score. |
| `StaffPage` | An admin's tab: the editor, its forms and the library over the query cache. |
| `SentPage` | A staff tab on the links sent: home page, Sent list, results, and the dialogs. |
| `TakeInv`, `LinksInv`, `AuthInv`, `EditorInv`, `AuthoringInv`, `TakeFlowInv`, `RunnerInv`, `SentPageInv`, `StaffPageInv` | The inductive invariant of each: what its calls, replies and pages may rely on between two steps. |
| `TakeProofs`, `LinksProofs`, `AuthProofs`, `EditorProofs`, `TakeFlowProofs`, `SentPageProofs`, `StaffPageProofs` | The theorems about each, and their proofs. |
| `AuthoringRunnerProofs` | Those about `Authoring` and about `Runner`: questions until they are sent and scored, and while they are shown. |
| `MC...` | Constants and symmetry sets for TLC. |

`Take` looks at one link in full detail; `Links` at several links, where an
attempt is only its status and deadline. What `Links` assumes of `Take`, that a
sweep has closed what was overdue when it returns, is part of `RepliesAreTrue`
there. In the same way `TakeFlow` serves in one step what `Take` does statement
by statement, `StaffPage` what `Editor` does, and `SentPage` what `Links` does;
`TakeFlow` shows a runner that only chooses and confirms, `Runner` a server
that only takes a save or loses it. Both put an error in the runner's place
when the overview behind it cannot be read, and mount a new runner afterwards.

### How actions correspond to the code

Server modules (`Take`, `Links`, `Auth`, `Editor`):

- **One action is one statement**, together with the JavaScript the handler
  runs before its next `await`. What the handler still holds (the row it found,
  the answers it read, its arguments) is in its record in `req` or `calls`, and
  `pc` names the statement it awaits next. Between two actions any other
  request may run.
- **Transactions.** In `Auth` and `Editor` a transaction's statements are
  steps of their own that take row locks; what they wrote shows at the commit.
  A bulk statement picks its rows when it is issued, waits for those another
  transaction holds, and skips what is gone by then. Calls that wait for each
  other in a circle: PostgreSQL ends one of them (`BreakDeadlock`).
- **Clock readings.** JavaScript reads the clock before it sends the statement
  that uses it, so the reading lies between the handler's previous statement
  and this one: `\E t \in req[r].since .. now`.
- **Guards and refusals (401, 404, 409, 410)** write nothing, so only accepted
  requests are steps, or the call returns.
- **A statement that includes related rows** is several SELECTs in Prisma. What
  they mix is either immutable once the attempt runs or guarded again by the
  update that follows, so they are one step.
- **`upsert` of an answer** is a native `INSERT .. ON CONFLICT`: one step,
  whatever the attempt's status.
- **Failures.** `Drop` ends a handler at any await: a failed statement, a lost
  connection, a restarted process. What was committed stays. The email provider
  may fail whether or not the message went out.

Page modules (`TakeFlow`, `StaffPage`, `SentPage`, `Runner`):

- **One action is one event**: a key, a click, a timer, an answer arriving,
  with everything React and the query cache do before the next event. A call
  is "sent", served, and on its way back; it may fail before it is served or
  after.
- **The cache.** A mutation's answer replaces the cached test; an invalidation
  restarts reads of entries that are shown and marks the others; `cancelQueries`
  drops a read under way.
- **What is mounted.** React keeps a form's or a runner's state while it is
  mounted and drops it when the page has no place for it: `Has` in `StaffPage`
  says when it has (the scoring method, the sections, the filter), `Running` in
  `TakeFlow` and `run # None` in `Runner` whether a runner is there. A question
  that leaves still has the handlers it was rendered with (`Leaving`).
- **History variables** (`given`, `late`, `hasty`, `wanted`, `missed`, `own`, `seen`, ...) only
  remember what a property speaks of; no guard reads them, except where a
  comment says that it forgets.

`Authoring` is a person at work: forms, documents, spreadsheets and answers are
reached by its actions, and the pure functions are evaluated in each state.

**Mutated forms** of a definition, used to see that a property notices the bug
it is there for, stand right before it and say which bug they are.

## Runs

| Run | Asks | Bounds, and why they are enough |
| --- | --- | --- |
| `take_two_tests` | One clock, one order, one result per attempt, true statuses and replies, and that every step is one of `AttemptLife`, with two requests on a link with two tests and crashes at any await. | Two requests race in every way the hazards name; two tests give the sweep a loop and a link kept open by its other test. Clock to 4, tests of 2 and 1, grace 1, link expiry 2: time on both sides of every boundary. |
| `take_live` | Nothing is taken after a revoke but what had passed the guard; every call returns, and a sweep closes the overdue attempts it meets. | One test with a question, two options of which one isn't offered, two layouts; clock to 3. |
| `take_score_race` | Violation: an answer acknowledged between `finish()`'s read and its update is stored and not scored. | As above, one question. |
| `links_overlap` | Emails tell the link's expiry, copies were sendable, EXPIRED means shut, a revoke is final, a resend reopens. | Two staff requests on one link, three tokens, clock to 2. |
| `auth` | One working invitation per invited account, sessions end in time and for good, and `AccountLife`. | One account, two links, two sessions, two passwords, two calls. The second account would only bring a caller who is signed in as somebody else. |
| `take_flow` | No answer is forgotten, saves and hand-in keep their order, the finish screen tells what the server did, the timer ends the test. | Two saves with two tries each of one question, a hand-in by the candidate and one by the timer; a link that closes, or a test answered before on which the connection fails, so that hand-ins wait for it and the runner goes and comes back. |
| `take_flow_overwritten` | Violation: an answer whose save failed is tried again over a later one. | The same. |
| `editor` | Alone a call keeps a sound test sound; together two mix no two saves of a question, pass the limits by a bounded amount, and never leave a record without its file. | Every pair of calls, from every sound test of up to two questions with places up to 2. Starting anywhere replaces long sequences. |
| `authoring` | Form and API agree; scores and layouts are fair; copies, documents and CSV files keep a test. | Three choices or four points, three questions, two sections with weights 0 to 2; section names that share a slug, have none or are one; two files of one name; spreadsheets of two rows with every pair of special characters in a cell. |
| `staff_page` | The page ends up true, the last move shows, nothing typed is lost, an import is of what was checked. | Ten errands of two or three calls and up to two keystrokes: every kind of form beside every kind of call whose answer can meet it or take its place away, one change by another admin. A test has one section or none. |
| `sent_page` | Own calls show, what ended stays ended, the results page catches up. | Six errands: sends, resends and revokes with failing connections, candidates, expiry and another admin; two links on a home page that lists one result (the code: five), so that a newer one pushes another off. |
| `runner` | Every question came before a hand-in, no way back where there is none, the preview's score is the last run's, clips play as often as allowed. | Three questions, the fewest on which the runner moves on twice while one leaves; two with clips, one replay; two in the preview, with two options and one edit. Two runs, any number of runners mounted anew in them. |

Every bound (`MaxTime`, `MaxTokens`, `Lag`, `MaxSaves`, `Errands`, `Visits`,
...) is a constant named in its module. Requests, names and other values that
nothing tells apart are symmetry sets, only in runs without liveness. Deadlock
is checked in the three runs of `Take`, where somebody can always read; in the
others bounded tokens, calls, saves, errands or visits let the system stop.

The type invariants (`TypeOK`) and inductive invariants (`IInv`, `LInv`,
`AInv`, `EInv`, `WInv`, `FInv`, `RInv`, `SInv`, `PInv`) are not properties of the runs:
each held in TLC on its run's instance before it was proved, and the proofs are
about every instance.

### Fairness

- `Take`'s `LiveSpec` has weak fairness of each request's handler and no
  `Drop`: Node resumes a handler whose promise settled, and the database
  answers. Nothing makes candidates or staff act, time pass, or a sweep start.
- `TakeFlow` has weak fairness of `Work`: the browser runs its promises and
  timers, and every request is answered or given up. Nobody has to click, and
  the connection may never come back: a hand-in made offline is paused until it
  does. `TimerHandsIn` states the exceptions: a hand-in that got no answer or is
  paused, and an error in the runner's place, with which the timer is gone.
- `SentPage` has weak fairness of the poll and of serving and taking reads. Only
  so many reads fail, and the tab is in view: a hidden tab doesn't poll.
- `Auth`, `Editor`, `StaffPage`, `Runner` and `Authoring` state none: their
  properties are about safety.

### What the code does otherwise than it says

Two runs end in a violation, and `findings` in `PROJECT.json` quotes the
sentence each refutes: an answer stored but not scored (`take_score_race`), and
an older answer saved over a newer one (`take_flow_overwritten`).

Three more are taken by the models as the code has them, and the properties of
the passing runs state exactly what they leave true:

- **The runner goes when the overview cannot be read** (`take-flow.tsx:157-168`;
  the query is read again when the browser is back online). "Try again" mounts
  a new one with what the start request replied with (`:179`), not with what was
  saved since. It shows and asks again what was answered, also where going back
  is not allowed (`frontend/docs/assessments.md:82`), and while the error stands
  no timer runs, so nobody hands in when time runs out. What was chosen is not
  lost by it (`NothingDropped`); `TimerHandsIn` and `NoWayBack` say when the rest
  can happen. Plays of a clip are counted anew too (`ClipsPlayAsOften` is per
  runner).
- **A question that is leaving leads back** (`assessment-runner.tsx:116-146`).
  Its handlers know the index it had. If the runner has moved on twice within the
  0.18 s it takes to leave, clicking it sets the index back to the question
  after it. `NoWayBack` excepts a step made late like this (`late`), nothing else.
- **Forms go with what was typed** when another call's answer leaves them no
  place: the weights when the scoring method changes or the last section goes
  (`scoring-tab.tsx:85`), a section's row with its section, a question's form
  when the question is deleted, or not listed under the filter
  (`questions-tab.tsx:59`, `:187`); and all of them when a background read fails
  (`assessment-editor.tsx:33`) or the session ends. `NothingTypedIsLost` names
  these places.

Others were met while modelling, and have no run. Those with a formula can be
seen by giving it as an invariant or property to the module's run:

| Formula | What happens |
| --- | --- |
| `Take.NoAnswerAfterFinish` | `answer()` looks at the status at `take.service.ts:145` and upserts later, so an answer lands in a finished test, which `assertOpen()` (`:187`) refuses. |
| `Links.OneOpenLink` | A link expires, its test is sent again, `resend()` reopens the first: two open links of one test (`backend/docs/assessments.md:311`). |
| `Links.SentOnce` | Two overlapping `create()` both find no open link and send one test twice (`assessments.md:235`). With one request at a time it holds (theorem `OneAtATimeSendsOnce`), and so does `TokenHandedOut` under `LiveSpec`. |
| `Links.RefusedForOpenTest` | `create()` doesn't sweep, and refuses because of a test whose time is over (`attempts.service.ts:25`). |
| `Links.ExpiryKept` | Two overlapping `resend()`: the longer expiry is overwritten (`assessments.md:237`). |
| `Authoring.RowsGoByName` | A row that names a section goes to another whose key is that name (`questions.service.ts:303`; `assessments.md:196` says by name). |

Without a formula, at the line where each is: a question's CSV replaces the
values of a scale by 1 to n (`csv-questions.ts:373`; `assessments.md:198`); a
test whose sections' names share a slug can become one that cannot be
duplicated or imported again (`canonical.mapper.ts:27`); a choice next to the
role's pick counts half only if their values differ by one
(`scoring.ts:117` and `:128`); two reset requests can leave two working links
(`auth-tokens.service.ts:31`); `changePassword()` and `resetPassword()` take
the user row and the sessions in opposite orders, and one of them may be ended
by the database (`auth.service.ts:93`); `stats()` counts unswept attempts that
the dashboard sweeps first (`assessments.service.ts:304`); a switch of the
scoring method can overlap the insert of a question of the old kind
(`assessments.service.ts:186`), and two inserts can take one place
(`questions.service.ts:213`).

On the pages: the role profile tab sends the whole question as the page has it
(`role-profile-tab.tsx:79`); a failed move can leave an older test in the cache
(`questions-tab.tsx:249`); what is typed while its form is being saved may be
lost; Ctrl or ⌘ with Enter submits a question twice
(`question-form.tsx:163`); the settings form sends what differs from the page,
which another save may have changed under it (`settings-tab.tsx:74`); a send
can be cancelled while it is under way, and a second one sent; the results page
of a link nobody has started doesn't poll; a failed poll takes the dialog with
the only copy of a link away (`invitation-results.tsx:66`); "Shuffle again" and
"Start" before the new paper arrives swap it under the run
(`preview/[assessmentId]/page.tsx:11`); a
letter typed while the last question leaves answers the one after it
(`assessment-runner.tsx:163`); a media record whose insert was committed but not
acknowledged loses its file (`media.service.ts:51`); a clip paused before its first time update has
used a play (`runner-audio.tsx:32`).

### What each model leaves out

- `Take`, `Links`: scores are the answers they are computed from; a copy is its
  content; DTO layout. `start()` reads the clock twice within a few lines
  (`take.service.ts:98`, `:102`) and `Take` once. Clocks of several API instances are taken as one.
- `Auth`: hashes are the passwords they are of; the victim of a deadlock is any
  of the calls in the circle.
- `Editor`: the order of sections and a question's link to its section, the
  links sent, publishing; texts of questions; a commit whose reply is lost (the
  call counts as failed before it). With two calls `LimitsNearlyHold` bounds what
  races can add, and would not notice one check that is missing.
- `Questions`, `Scoring`, `Documents`, `Csv`: texts are model values, or words
  and marks, or pieces; numbers are exact fractions, which the code's EPSILON
  stands for; settings, weights and bands are copied as they are; warnings are
  wording. An alignment question without an answer doesn't count in its
  section, as in the code.
- `TakeFlow`: a request whose connection broke is served before that or never;
  a read of the overview with its retries is one failure, and on other screens
  than the test's it changes nothing that is modelled.
- `StaffPage`: a request is served in one step, a query's retries are one
  failure; a test has one section or none, and sections are only deleted;
  another question than the edited one is in no section; the form of a new
  question, duplicates, uploads and deleting a test are left out.
- `SentPage`: paging, filters, tokens, the publishing checks of `create()` and
  a session's end are left out; an expiry is only whether it has passed. The
  time a test finished is a number (`at`); which of two results of the same time
  home lists is left open.
- `Runner`: one question leaves at a time; a question met again has a new
  player, and that of a leaving one isn't clicked; a clip's time is at the
  start, within, within 0.05 s of the end or at it, by a duration that is right;
  failed refreshes of the preview and handing in (`TakeFlow`) are left out.

## Proofs

TLAPS checks every invariant and every action property of the runs but three
of `Authoring`, and both refinements, for every value of the constants: any
attempts, questions, options, links, accounts, tests, forms and overlapping
requests, any durations, scale values, weights and bands, and any bounds. Only `ExpiredIsShut` follows from the types
alone. For the others, what a handler or a page does at a step rests on what an
earlier step found, and others have run since: each inductive invariant says
what can still be relied on.

**`Take`** (`IInv`, by `pc`). A handler that is finishing attempts found them
started, and past deadline and grace if it is going to expire them
(`Finishing`); a handler past `start()`'s update has an attempt that runs or
ran (`Reached`); a reader past its sweep's query still holds every attempt it
must close (`SweptSoFar`); rows have the shape their status says (`RowShape`).
From it the conjuncts of `ClockIsKept` and `RepliesAreTrue`, each a theorem,
and the action properties `ResultOnce` and `OneClockEver`. `RevokeQuiet` needs
`LetIn` on top: a candidate's request in flight arrived no later than the
revoke. `Implementation`: rows map to a clock and a result; starting updates
and closing updates map to `Start` and `Finish` of `AttemptLife`, every other
step changes neither.

**`Links`** (`LInv`). A call past its content check holds only sendable
contents, the link a call works on exists, and an email, sent or about to be,
names an existing link whose expiry it tells if its token is still the stored
one. Tokens are never used twice, so a later resend makes that condition false
instead of the email. `StepKeeps` shows what a step may do to a stored link:
nothing, insert it, or write it with the same copies, still revoked if it was,
and with a new expiry only together with a new token; `RevokedForGood` is read
off that, `ResentReopens` off the update itself. `OneAtATimeSendsOnce` is about
a single staff request, its hypothesis: what `openAttempts()` did not find then
stays absent until the insert (`FoundNone`), whatever candidates and the clock
do. With two requests it is false, as said above.

**`Auth`** (`AInv`). Rows have the shape their status says, an account has at
most one live invitation, no two calls hold one row (`LocksExclusive`), and per
call: what a transaction checked stays true while it holds its rows
(`Checked`), a session that is renewed was seen before its absolute end
(`Validated`), and the sessions there were when a request came in have ended or
are still of its account (`OldOnes`). From it
`SingleInvitation`, `SessionsEnd`, `EndedForGood`, and `Implementation` of
`AccountLife`: a link is used where its transaction commits.

**`Editor`** (`EInv`). A call that has checked the test may rely on all of it
if it is alone, and on as much as finished calls can have added
(`Overtaken`) if not; a save keeps only options it was sent (`SaveTrue`); only
a finished upload has a record, and a file whose record was deleted gets none
again (`MediaTrue`). From it `OptionsKept`, `LimitsHold`, `FilesThere`, and
`OneAdminIsSafe`: a call that ran alone leaves a sound test sound.

**`Authoring`** (`WInv`). A stored question was accepted and has nothing its
type doesn't have (`Sound`), whichever way it came; a form holds as many options
as the API takes (`Sized`), whatever is added, removed, padded or resized
(`DraftTrue`); a test that was answered can be scored (`PaperTrue`,
`AnswersTo`), and one that is shown was drawn from its own setting
(`ShownTrue`). That this is inductive (`QuestionsTrue`) rests on a lemma for each
pure function: `Normalized` (normalizing twice is normalizing once), `InputIs`,
`PadIs`, `OptionsForIs`, `RemovedIs`, `ResizedIs`, `DocumentRaw`.
`FormAgrees` is then `FormAccepted` (what `draftProblems()` lets through
`questionProblems()` does) and `StoredAgain` (opened and saved unchanged, it is
the same question). `FairScores` takes the scoring apart: fractions
(`AtMostTrans`, `PlusMono`, `OverMono`), sums and means over any finite set
(`SumsMono`, `MeanUnit`), one answer (`AlignmentBy`), one section
(`SectionMono`), the score (`ScoreUnit`, `CloserScoresMore`), its band
(`BandMono`). `LayoutsFair` rests on the shuffle, for any number of items:
`RunIs` (a step loses nothing and leaves the places above it alone),
`DrawsDiffer` (so two draws that differ leave different orders), `EveryOrder`
(any order can be reached, place by place from the last down) and hence
`ShuffleIsFair`; then on the blocks of the three questions a paper has
(`BlockByBlock`, `Parted`, `ThreeBlocks`) and on the last option staying
(`LastStays`).
What a fold over a finite set computes takes induction, which the provers
cannot instantiate as a rule; `SmallestSubset` states it without an operator:
of the subsets that break a property one is smallest, and so there is none.
`FoldExists` gets from it that a fold is what its equation says.

**`TakeFlow`** (`FInv`). Later saves of a question wait behind the one under
way (`InLine`); a question that was not answered anew during a save has one
save or one kept answer, and it is the last one given (`CalmQuestion`), whether
or not a runner shows it; one that shows something else shows what the test was
opened with (`ShownTrue`); a reply stays true while it is on its way (`SaveReplyTrue`, `HandInTrue`). From
it `NoAnswerIsDropped`, `FinishScreenIsTrue`, `SavesKeepOrder` and
`HandInWaitsForAll`. The attempt showed that with two tests a late reply about
the first, or reopening the second during a save, made two of these false in
the model, which had that history wrong; the run has one question and could
not show it.

**`Runner`** (`RInv`). Whatever a timer, a leaving question or the review can
still do starts from a question that was shown, all before it too (`RunCame`),
and without a way back nothing that was moved on from lies ahead, and the
moment after a choice leads on unless the choice was late (`RunForward`);
up to the last answer a candidate's runner can be mounted with, saved or from
the start reply, each question was shown (`CandidateInv`); the score the page
waits for is of the answers handed in last (`ScoreInv`); the runner counts what
was heard (`ClipsInv`). From it `AllQuestionsCame`, `ScoreOfLast`,
`ClipsLimited` and `NoQuestionComesBack`. Here the attempt corrected the model
twice: a runner mounted anew counts plays from nothing, and the start page
after a hand-in gets a fresh paper.

**`SentPage`** (`SInv`). What a view showed as ended has ended (`Still`), what
is being read takes nothing of that back (`Kept`), and a view that nothing
marks as old is as new as the last answered call of this tab, or will be read
when it is next on screen (`Fresh`). `Kept` of the home page: a later list has a
result too unless its link is revoked or the list is full of results that are no
older. From it `OwnShow` and `EndedStays`.

**`StaffPage`** (`PInv`). A form is mounted as a whole, and only where the page
has a place for it (`FormsWhole`, `ScreenInv`); what was typed is in its form
and differs from the page, or comes back with the save that fills or closes it
(`FieldsHeld`);
an import's check passed for its file and mode (`DialogInv`); what no answer
has shown yet is still coming (`LatestComes`, `AnswersTell`); moves are served
in order or known not to be, and if the last one fails the page goes back to
the one before it, or to the server's order (`MovesInOrder`, `BackToLast`,
`BackToServer`). From it `TypedIsKept`, `OnlyCheckedImported`, `PageTrue` and
`LastMoveStays`.

The proof that a step keeps an invariant has a lemma per statement or event.
Most change one call's record only; a lemma (`OthersKeep` and its like) shows
once that they leave the conjuncts of the others alone.

### Assumptions

Each is named in the module that declares the constants, and TLC evaluates it.

- `Take`: `SnapshotAssumption` (a time limit of at least one tick: the DTO asks
  for a minute), `TimeAssumption`, `NoneAssumption`, and `LagAssumption`: a
  statement reaches the database sooner than the shortest test with its grace
  lasts. The last is needed by `NoStaleReads` only, through `IInv`: an update
  of `start()` that was held up longer would store a deadline that had already
  passed when an earlier sweep looked.
- `Links`: `LinksAssumption` (durations and bounds are numbers, lives at least
  one tick). `Auth`: `TtlAssumption` (lifetimes are at least one tick),
  `RolesAssumption`.
- `Editor`: `BoundsAssumption` (limits are at least one), `NamesAssumption`
  (finitely many calls, names and old rows; an upload under way is no old
  file). `TakeFlow`, `Runner`: finitely many tests and questions, at least one
  try.
- `SentPage`: `ErrandsAssumption` and `Runner`: `VisitsAssumption` give the
  scripts of a run their shape. `StaffPage`: `StaffPageAssumption` (the five
  forms have fields of their own, the scoring method is a setting and the section
  a field of the question; the test has another question to move past).
- `Authoring`: `SizesFit` (a question may have two options, and a new one no
  more than allowed), `BandsAssumption` (weights are numbers, bands are
  finitely many and start at 0).
- `NoneAssumption` everywhere: NULL is no value.

### Model-checked only

- **Liveness** (`SweepsEnd`, `TimerHandsIn`, `ResultsCatchUp`, and that every
  call of `take_live` returns) rests on fairness, and so on ENABLED, which
  TLAPS does not prove here.
- **`CopyKeepsTest`, `CsvKeepsTest`** are about folds over names, characters
  and rows that carry a parser's state, and about filtered and sorted sequences
  (`SelectSeq`, `SortSeq`), of which the provers know nothing. TLC compares
  them over all inputs of the bounds above.

## Plan

1. Shorter proofs where one lemma per kind of call can replace one per action,
   in `StaffPageProofs` and `EditorProofs` first.
2. Properties for the hazards in `PROJECT.json` that have none.

## Not modelled

- **Stateless request checks** (roles but for invites, origin, validation
  pipes, rate limits) only remove requests; the models allow all of them.
- **Formatting**: email wording, DTO layout, Swagger, the example rows of the
  CSV template.
- **Configuration, health, start-up, CI, seed data, UI kit, assets** keep no
  state that a step changes.
- **Candidates**: each operation is one statement on a unique index.
- **Deleting a test and `uniqueSlug()`'s retries**: one statement on a
  constraint each.
- **Averages per test and `stats()`**: sums over the rows one statement returns.
- **Sniffing and serving files**: reads.
- **Several API instances** need nothing extra: requests share only the
  database already.
