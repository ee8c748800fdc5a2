# Models, checks and proofs for ypsu/cfg

The repository is one person's machine setup: a dozen tools in Go and C, the
configuration files they install, and the programs one machine boots with.
Modelled are the tools that hold state while several parties act on it or while
things fail: `gdsnap watch` (gdsnap/gdsnap.go), a daemon that keeps a copy of a
directory tree on Google Drive, and the other subcommands of gdsnap, which give
it back; `pararun` (utils/pararun.c), a parallel command runner; `makecfg`, which
installs the repository into a home directory; `bm` (utils/bm.go), a preview of a
text in browsers; `todotool`; the wrapper around firefox; and `pedit`, an editor
of encrypted files.

Contents: 1 inventory, 2 plan, 3 `Gdsnap`, 4 `Restore` and `Globs`, 5 `Pararun`,
6 `Makecfg`, 7 `Preview` and `Markdown`, 8 `Todo` and `Tasks`, 9 `Firefox`,
10 `Pedit` and `Notebook`, 11 the runs and their bounds, 12 what is proved,
13 what is only model-checked, 14 what is not modelled, 15 how to run it.

## 1. Inventory

| part | state it keeps | operations | what makes it correct |
|---|---|---|---|
| gdsnap watch: main goroutine | `gs.files` (what Drive was last seen to hold), the touched set, the position in a walk, the file in hand | startup scans, drain loop, backup cycles, `savepath` | every change reaches Drive; nothing is created twice; it comes to rest |
| gdsnap watch: `watchdir` goroutine | the map of inotify watches, the event in hand | watch a tree, read an event, send a path | every directory is watched; every event is passed on |
| Google Drive, the kernel | objects by name, the inotify queue | list, POST, PATCH, PUT; queue, coalesce | external: modelled from how gdsnap uses them |
| gdsnap restore, list, diff, cat, save | none between runs | pick a revision, fetch, decrypt, write | the revision asked for is what is written, and nothing else is touched |
| gdsnap globs | none | `matchglob`, `fullglobs`, `filterfiles` | agrees with what a glob means |
| pararun | the ring of pipes, the counters, the return code | start a line, reap, read, close, return | output as of a sequence; code is the maximum; it returns |
| bm | the last content, the browsers that wait | poll the file, answer, hold, refuse | who waits is answered at the next change |
| makecfg | the home directory, `~/cfgtrash` | link dotfiles, regenerate, clear, build, empty the trash | a second run changes nothing; nothing is lost but from the trash |
| todotool | the files `todo`, `.tasks`, `.backlog`, `.rems` | parse, block, rank, rewrite | a task is ready when nothing blocks it |
| firefox | a profile in memory, one on disk | sync in, run, sync out every four hours | one user at a time; a good copy at any moment; what a run that ended left is on the disk |
| pedit | encrypted files, a temporary one that all runs share | load, edit, encrypt, save, back up | a session adds what was typed, and loses nothing |
| rcmd_server, rcmd_run, rcmd_cancel | a datagram socket | send a command, run it, interrupt it | the latest command runs |
| disw | none | the next display from what xrandr prints | some display stays on |
| x11lock | lock state, the matched prefix | lock, match, unlock | unlocks on the password only |
| sysstat, sysstat_tailer | one status line in a file | write under a lock, tail | a reader shows the last line |
| init, halt, boot.sh | the processes of a machine | boot, reap, shut down | init is not held on the old root |
| basic_syslogd, sntp | a log file; a clock | append, rotate on SIGUSR1; set the time | a rotated log is no longer written |
| file_selector, flashcard, mailedit, html_fmt, muttcfg, huepush, lll, ybb, cal, otp, tlog, i3next, httpd, scripts | none that outlives a run, or a document | read, compute, print | not modelled, section 14 |
| dotfiles, misc | configuration, vendored vim plugins | | not modelled |

How they interact.  In `gdsnap watch` the `watchdir` goroutine sends paths on
`filech` (1000 slots) to the main goroutine; both read a tree that the user
writes to; the kernel's inotify queue stands between the user and `watchdir`; the
main goroutine alone speaks to Drive, and only it reads and writes `gs.files`.
There is no lock: everything shared is shared through the file system, the
queue, the channel and Drive.  `gdsnap restore` reads the revisions that saving
left.  `pararun` shares pipes, exit statuses and one coalescing signal with its
children.  `bm` shares one channel between its HTTP handlers and its main
goroutine.  Two runs of `pedit` share one temporary file, two firefox wrappers a
lock that their children inherit, `todotool` shares its files with the user's
editor and waits for goroutines that talk to servers.  The other tools are
processes of their own that share files: makecfg builds and links the others,
`sysstat_tailer` watches what `sysstat` writes, `rcmd_run` sends datagrams to
`rcmd_server`, `halt` signals `init`.

What is hard.  In gdsnap, `savepath` looks at the disk three times (Lstat, read,
request) and at a listing that ages through the cycle; the scans, the watch walk
and the events overlap; a directory may go and come back under the same name; a
failed request ends the process and with it everything it knew; a failed listing
does not, and is taken for an empty Drive.  In pararun,
SIGCHLDs merge, POLLIN and POLLHUP stand together, a command blocks on a pipe
that is not the one being read, and the ring of pipes cannot tell full from
empty.  In restore the file is gone before its content is there, paths stand in
each other's way, links lead out of the tree, and no answer's status is looked
at; `-t` must find what was there through whatever was saved since.
In bm, a time is taken before the text it stands for, requests are held in
too few places, and the server may end under its browsers.  In todotool, pedit and the firefox wrapper a run may end between
any two steps, and another party writes what it has read: the user's editor, a
second run, firefox itself.  `PROJECT.json` lists each of these at its line, with
the properties that are there for it; what no property covers is in section 14.

## 2. Plan

Done, in this order: `Gdsnap` with its inductive invariant and the proof of it
(`GdsnapInv`, `GdsnapProofs`), `Pararun`, `Makecfg`, `Globs` and
`Restore`, `Markdown` and `Preview`, `Tasks` and `Todo`, `Notebook` and `Pedit`
with the proof that the one implements the other (`PeditProofs`), `Firefox`; each
with its MC module.  Then the proofs about them: `FirefoxProofs`,
`PararunProofs`, `PreviewProofs`, `MakecfgProofs`, `RestoreProofs`, `TodoProofs`.
Every safety property that a passing run checks is proved.

Left: the small processes around a signal, a lock or a datagram: sysstat and its
tailer, basic_syslogd, rcmd, the handover at shutdown, x11lock.

`Gdsnap`, `Pararun`, `Makecfg` and the others share no state and are not
composed; within each the interacting parties are.  `Restore` takes up what
`Gdsnap` leaves on Drive, with savepath as one step, since nobody else acts
while `gdsnap save` is looked at.  Runs stay few: one to a question; properties
that need the same bounds share a run.

## 3. `Gdsnap`: the watch daemon

| code | model |
|---|---|
| the tree under `*dirFlag` | `disk` (file to content and modification time), `dirs` |
| `gs.files`, `fileinfo` | `files`; `st` and `id` stand for `Trashed` and `ID`, `sha` for the sha in `Name` |
| objects on Drive | `drive`, a sequence for each name since names need not be unique |
| where `subcommandWatch` is | `phase`: down, old (first scan), new (second scan), drain (the loop of 719-732), wait, cycle |
| the recursion of `savepath` and the map `touched` | `walk`, `touched` |
| `savepath` between its looks at the world | `job` |
| `watches` and the walk of `watchpath` | `watches`, `wtodo` |
| the name about to be sent, `filech`, the kernel's queue | `wname`, `filech`, `events` |

Actions: `Write`, `Delete`, `MoveOut`, `MoveIn` are the user's; `Start`,
`OldVisit`, `OldDone`, `WalkFile`, `WalkDir`, `NewDone`, `DrainVisit`,
`DrainDone`, `Receive`, `StartCycle`, `CycleVisit`, `CycleDone`, `ReadFile`,
`Upload` are the main goroutine's; `AddWatch`, `SendWalked`, `ReadEvent`,
`SendName`, `WatchFails` are watchdir's; `PutRefused` and `Crash` are the
environment's.  `ListFiles` is part of `Start` and `StartCycle`: `listfiles`
(401-424) looks at no status, so that an error in the place of a page is a page
without files and without a next one.  With "list" in `Faults` a listing may
therefore leave out any of the files, or all of them, and the daemon goes on
with that.  `savepath` is three steps: what Lstat and `gs.files` decide
(`SavePath`, within the step that visits the path), the read, the request.  Any
step of the user and of the watcher may come between them, since nothing in the
code prevents it.

Abstractions.
- A content value stands for bytes, sha and ciphertext together.  Encryption,
  names in base64 and HTTP are left out; the size is kept since `savepath`
  compares it.
- Every write gets a modification time of its own.  Two writes within one
  millisecond that Drive's times cannot tell apart would be lost
  (section 14).
- A write and its close are one event.  `IN_CREATE` of a regular file that is
  followed by `IN_CLOSE_WRITE` adds a path that is visited twice, which the drain,
  walks and coalescing already produce.
- One level of directories below the root: the walk, the watch, the prefix test
  on a deleted directory and the race of a directory with its own event all
  exist at that level.  A file and a directory do not share a name.
- The kernel merges an event with an equal one at the tail of the queue, as
  inotify does.  Its queue is not bounded; an overflow ends the daemon
  (gdsnap.go:337), which is one of the moments `Crash` stands for.
- The order of a Go map's iteration and of Drive's listing is nondeterministic.
  Several objects of one name list as any one of them, and Drive is in sync
  with a file (`InSync`) when one of them is as wanted.
- `MaxObjects` bounds how often a path can be given one more object, by bounding
  which paths a listing leaves out.

### What can be lost, and why

The central property is `NoLostChange`: at any moment a file whose copy on Drive
is not the one wanted is in hand (`Pending`), is over the size limit, or has a
reason in the ghost variable `missed`.  `missed` is set only by the steps that
open one of five gaps of the code, so the property says these are all there are:

- `asleep`: deleted while no daemon ran.  The first scan is meant to archive it,
  and does not for regular files (finding at gdsnap.go:708, run gdsnap_scan).
- `startup`: changed while the daemon was scanning; savepath returns for an
  entry that has no ID yet, and the path has been taken.  The
  comment at gdsnap.go:472 counts on a next cycle, which the loop of 719-732 is
  not.  A deletion in a directory without a watch belongs here too.
- `swapped`: a directory was moved away and another put in its place before the
  event of the first was handled: the files the second does not have stay live
  on Drive, since `savepath` of a directory that exists does not look for them.
  This is how the code behaves; no document says otherwise.
- `badput`: the PUT of a large file was refused: the status tested at gdsnap.go:638 is
  the one of the request before, so the file counts as uploaded.
- `unlisted`: deleted, or ignored, and left out of the listing of the cycle that
  was to trash it: `savepath` finds no entry, the path has been taken, and the
  object stays live.  Nothing is lost of a file that is there: what is not in
  `gs.files` is uploaded.

`missed` is a ghost: no action's guard reads it.  It is cleared when the user
writes the file again.

Other behaviours that the model makes explicit and no document contradicts: a
directory that vanishes between its event and `InotifyAddWatch`, or a symlink to
a directory whose event is statted, ends the daemon by `log.Fatal`
(`WatchFails`).  A symlink that is gone between Lstat and Readlink is uploaded
with an empty target, in spite of the log message at line 532 (`Outcomes`), until
the event of its deletion is handled.

`OneObjectPerFile` says when a path that has an object is given another: when
the last listing left it out (the ghost `unlisted`), and then once, since the
upload stores the entry; or when the object is large, since its upload returns
without storing into `gs.files` (643), so that a new large file visited twice
between two listings is created twice.  In every other case the entry without an
ID that a POST leaves keeps the next visit from creating the object again.

Other properties: `WatchCovers` (once the watcher runs every directory is
watched or about to be), `Settles` and `EventuallySaved`
(when the user stops, the daemon saves everything and comes to rest: its own
uploads never wake it up, and neither goroutine waits for the other for ever).
`EventuallySaved` is of runs in which no request and no listing fails.

## 4. `Restore` and `Globs`: the other subcommands of gdsnap

| code | model |
|---|---|
| the tree | `disk`: nothing, a directory, a file or a link, with content and time |
| the revisions of a file on Drive | `rev`, oldest first; a trashed head has kind none |
| the arguments, the working directory, `-t` | `request` |
| what is left of the list of `filterfiles`, visited in the order of sort.Strings | `todo`, `First` |
| a restore between Remove, fetch and write | `phase`: idle, remove, fetch, done |
| `now`, the times of files | `now`, a clock that every change of the tree and every restore moves on |

`Globs` has `matchglob` as the scanner it is, with its two restart points,
`fullglob` and `filterfiles`, and next to them what a glob means (`Means`).
`Restore` has the user's changes (`Change`: a file in the place of a directory and
back, a link to a directory elsewhere, a file with the time of the clock or with
any earlier one, as a moved or a touched file has it), `Save`, what Drive drops
(`Forget`), and restore as one step up to the fetch and one after (`RemoveOld`,
`WriteNew`), since it can end between the two (`Dies`: what it had in memory is
gone, and the command may be given again).  `diff` is the operator `DiffSays` of
what revfetch returned; `cat` is `RevAt`; `list` only prints.

What the code leaves to chance, and the model has:

- No status is looked at (401-424, 963-964, 982).  `Answers`: the listing may leave
  out any files, or all; `Fetched`: an error page in the place of a content, or a
  deleted file in the place of the revisions.  Restore and diff both use them.
- A link above a path is followed by Remove, MkdirAll and WriteFile
  (1077-1097).  `DirLink` has the targets that are directories.  Through one, a restore
  works outside the tree (`LeadsOut`; the ghost `astray` has the paths for which it did).
  Assumed away are links from one directory of the tree to another, and a save
  through a link.
- Drive keeps the last 100 revisions and drops what has been in the trash for 30 days
  (usage, 94-99).  `Forget` drops the oldest of more than `MaxRevs`, or a trashed
  file with all its revisions, at any time after it was trashed.  What is older
  than all that is kept reads as a deleted file.

A directory never bears the time of a revision, so that diff compares it as
what it is.

`PointInTime` says that `-t` gives back what was there then, for every history of
saves, as far as Drive still has it: `kept` are the times that were saved and
not dropped since.  `SavedIsHead` says that a save followed by a restore does,
`RestoreExact` what a restore leaves, `OnlyWhatIsMeant` what it touches, in the tree
and out of it, `SilentMeansSame` when diff says nothing.  The exceptions they name are the
code's:

- a path where a file was given another time than the clock's (`backdated`): the
  head then looks old, and revfetch takes it for any later time; and diff, which
  compares the times first, takes it for the revision;
- a path with another in its way, or below a link (`Obstructed`);
- a path (`spoilt`) for which Drive answered with an error: the error page is
  restored as the content, or the file as deleted, and logged as a success.  diff
  is silent about it when the path is gone, or holds this error from a restore;
- a path that the answer to the listing leaves out, of which neither restore nor
  diff says a word.  `RestoreExact` says of it that it is left alone.

`OnlyWhatIsMeant` is proved for every name and pattern: the scanner matches no
more than a glob means.  The converse, `AllThatIsMeant`, is violated (run
restore_globs): the scanner gives up the character that
did not fit without trying it where it starts again (gdsnap.go:215), so `*a` does
not match `aa`.

## 5. `Pararun`

| code | model |
|---|---|
| lines of stdin, `feof(stdin)` | `line`, `eof` |
| the main loop between its system calls | `pc`: start, poll, signal, reap, drain, exit, failed |
| `revents` of the two descriptors | `ready` |
| `g.runningthreads`, `currentthread`, `nextthread`, `pipes` | `running`, `current`, `next`, `pipes` |
| `returncode`, the pending SIGCHLD | `ret`, `signal` |
| the children and what they write | `child`, `code`, `said`; what reached stdout is `printed` |

A command is a process that writes chunks, blocks on a full pipe, exits or is
killed.  What is in its pipe is `said - printed`.  `Start` is one step: until the
fork nothing else sees what it does.  `TakeSignal` and the `Reap`s are separate
since commands end between the read of the signalfd and the last `waitpid`; one
SIGCHLD stands for all that are pending.  `ReadPipe` empties the pipe: the read
is of up to 99949 bytes, a pipe holds 65536.  The progress line, colours and flags
are left out.

`InSequence`, `SaysItAll` and `Finishes` are what the usage text promises: output
as of running the commands in sequence, the maximum of the codes, and an end.
They hold as long as the ring never fills.  `overrun` is a ghost that records
that it did; with 9999 slots it takes that many commands that are started and
whose output has not been read, for example one long command followed by many
short ones.  Then `next = current` means empty to the code: a line is read and dropped
(pararun.c:157, `LoseLine`), and main may return with commands unprinted.

## 6. `Makecfg`

| code | model |
|---|---|
| `~/.bin/name`, `~/.name` | `fs`, over `Bin(n)` and `Dot(n)`: nothing, a file, a link, with what it is and when it was written |
| `~/cfgtrash` | `trash`, by base name |
| utils/, toollist, dotfiles/ | `kind` and `src`; `dots` (a plain file, a generator, or both) |
| the fields of `workflow`, run in order by gosuflow | `pc`, `NextSection` |
| the loop of a section | `todo`; `hand` is the name between its Rename and its Symlink |
| `buildcmds`, the errgroup | `jobs`, `building` |

`VisitLink` and `Symlink` are the loop that SetupYBB, LinkDotfiles and BuildUtils
each have; `RegenDot`, `TrashBin`, `VisitSource` and `Compile`, `ClearTrash` are
those of the other sections.  `Stop` ends a run at any step: a prompt answered
with anything but y, a compiler that fails, an interrupt.  A compiler replaces
what stands at its output, and is killed with the run.  A generator prints the
same until the repository changes.  The repository and the home directory change
between runs, a source also during one; this is how the tool is used, not
something it enforces.

`Installed` says what a run that got through has established; `SecondRunIdle`
that further runs then change nothing; `Converges` that wherever runs are cut off
one gets through in the end; `OwnFilesKept` that the user's own files are not
lost.  The exceptions they name are the code's, and there are no others:

- `Stuck`: `exists` is `os.Stat`, so a link that dangles is not moved away, the
  Symlink fails with "file exists", and so does every run until the link is
  removed by hand.  A script that becomes a ybb tool leaves such a link.
- `Fooled`: a binary newer than its source is taken for up to date.  It is not
  when the source was saved while it was compiled, nor when it is a link to ybb
  left by a tool that has become a source: ybb is rebuilt in every run.
- a file in the trash is replaced by its namesake, though the user has not agreed
  to the deletion yet; a file of the user's that stands where a util is to be
  built, and is older than the source, is handed to the compiler as its output.

## 7. `Preview` and `Markdown`: bm

`Markdown` has `toHTML` and `toMarkdown` on lines of the kinds that they tell
apart (a line of a paragraph, an empty one, a quote, a heading, an item, an item
with more than one space...), with
the tags and comments one writes and the other looks for, and `readContent` with
an item of a todo file.  `Preview` has the file with its version and time
(`file`), the main goroutine (`pc`, `lastMod`, `content`), the channel `wq`, the held
requests `waiting`, and of each browser whether it is idle, has asked, has
ended its script or has gone, its `ts` and the version it shows.  `Stat` and `Read` are separate: the
file may be written between.  `Serve` is one request: answered, held, refused, or
put in the place of one whose browser is known to have left.  A browser leaves by
closing its connection, which ends the context of its request (`Gone`, line 349), or
vanishes, which the server may find out later or never.

The server ends in `log.Fatal` when the file is not there (321, 328), the item
is not in it (219-221), or a heading is rejected (91).  What it held is gone
(`LogFatal`): fetch rejects, and the catch (163-171) ends the scripts that wait, and
each of the others at its next request (`FetchFails`).

`WaitsForNews` is the invariant behind the protocol: a browser waits only if it
shows what the file says.  `HeldOnce`, `DiesOnlyIf` and `CatchesUp` are about the
places: no request is forgotten or answered twice; a browser's script ends only
because the server has ended, because the time of the file went back, or because
more browsers than there are places are open or have vanished while they were held; and
in the end everyone shows the last text.  The
ghosts `merged` (a write that the time does not tell apart from the one before)
and `backwards` (the time went back) name the cases where they do not hold.

`ServedIsFaithful` checks the two conversions against each other, without exceptions:
what comes back is `Restored`, line by line.  Two kinds of lines do not come back as
they were: a heading with `##` comes back with `#` and a space before its text (92), and an item
loses the spaces that TrimLeft cuts off (84, 87), unless it stands inside
a paragraph, a quote or indented text and is no item there.  A text is any
sequence of the kinds of lines; the loops over lines and over tokens are folds by
position (`Fold`), which the proofs can take apart step by step.

Not modelled: a network that fails while both ends live, which ends a script too; a
request that comes before `requestQueue` is set at the start (314); an item
without a text.

## 8. `Todo` and `Tasks`: todotool

`Tasks` has the algorithms: `NormalizeDate` with what Go's `time.Date` does to days
and months out of range, `ActiveTasks` (who is ready, who is shown), `Titles` (what
a mailbox says).  `Todo` has the files (`disk`), what the user wrote (`user`), and a
run from start to end (`pc`): the two reads of a file (`ReadOld`, `ReadNew`), the
rewrite in two steps, since WriteFile truncates first, the report, and the
goroutines for the router, the blog and the accounts with what Run waits for.
Runs are interrupted, killed and started again.

Runs come one after the other; two at once are not modelled.

`NothingLost` names the two gaps of the rewrite (`lost`); `RewrittenOnce` says that
normalizing what was normalized changes nothing.  `ReadyIffClear`,
`UnreadIsShown` and `DueOnItsDay` compare the algorithms to reference
definitions (`DueTasks`, the messages themselves, `DayNumber`) over lists of tasks,
mailboxes and dates: the tasks shown are those due, in their order; a title is
unread exactly when one of its messages is; the order of two dates as strings is
that of the days.  `Written` is what four and twice two digits can say, years
from 1 to 9990, so that a carry stays within four digits; `Date` is the days of
the calendar, which today is one of.

What is due is the code's notion, and it is not what the usage text says: there a task
is blocked "until #name exists" (37) and "until there's another backlog item" (39);
in the code it is blocked while #name exists, and while an item before it holds the
backlog.  The comments of `ReadyIffClear` and of `DueTasks` say what the reference takes.  A subtask
is waited for only when it has blockers of its own and stands before the line that
waits (`Present`).  `DashedBlocks` is what
usage says, and violated (run todo_usage): Sscanf takes the dash of
`b:2024-05-01` for a sign (todo.go:161).

`InterruptEnds` is about the waiting.  ^C only cancels the context (ybb.go:68), which
the router call (487) and tls.Dial (393) do not see, and they have no timeout.  No
fairness is assumed of `Router` and `Dial`: the property says that ^C ends the run
provided that these come back (`Returns`), whatever the mailboxes do; where they do
not, the run hangs.

## 9. `Firefox`: the wrapper

A profile is a version, good when all its files are of one moment; `disk` and
`mem` have one each.  `pc` says where a wrapper is; `firefox` whose firefox runs;
`source` what an rsync found when it began, so that its end can tell whether
firefox wrote meanwhile.  The lock is not a variable: it is held as long as a
process has the descriptor (`Locked`), and since it is opened without O_CLOEXEC
rsync and firefox have it too.  Wrappers are killed, with their rsync or without
(`left`), the machine goes down, rsync fails.

`OneUser` rests on that inheritance: a firefox whose wrapper was killed still keeps
the next wrapper from replacing its profile (the mutant that closes the
descriptor on exec breaks it).  `CleanExit`: after a run that ended with its
sync the disk has what firefox wrote last, whatever the periodic syncs mixed up.
`SomeGoodCopy`: at any moment the disk or the memory has a good copy, unless a
run ended before its sync while the disk was not good (`bad`): then the next
start syncs that over the memory with --delete.  `hurt` marks that memory is
ahead of the disk at the end of a run, which the next start does not look at.

## 10. `Pedit`, which implements `Notebook`

`Notebook` is what a user expects of files that are edited: a session adds an
entry, at once.  `Damage` is the step after which nothing is said of a file.
`Pedit` has the runs (`pc`, the file each is `on`, `old`, `new`, the `buffer` in
vim), the one temporary file `tmp`, the files and the copies made by scp.  A text
is the set of the entries added to it; a ciphertext cut off is `Broken`.
The read of the temporary file (148) and the deferred Remove (137) are two steps.

The refinement takes for the text of a file what is in it, or from the truncation
to the end of WriteFile what is being written (`Shown`), so that the truncation is
the step that adds the entry.  `damaged` grows at three steps only: when a save is
cut off, when a run saves that was in vim at the same time as another (the
temporary file is shared, pedit.go:136), and when it saves over what another has
saved since the load.  So those are the ways to lose a text; everything else
implements `Notebook`, with runs killed anywhere.  `NoPlaintextLeft` is about the
deferred Remove.

scp (199-208) takes time: it reads the file (`ScpReads`; in the middle of a save it
finds nothing, or a part) and later has written the copy (`ScpWrites`), or fails
or is killed before or in the middle (`ScpFails`, `Cut`).  Nothing in the code keeps two
copies of one file apart: when they meet they end in any order, and
the older text can be the last copy.  That is so in the model too; the ghost `raced` has
the runs whose copy met a save or another copy of its file on the way.  `BackedUp` says
that this, a failed or a cut copy (`unsent`) are the only ways for a copy to be behind: after a
copy that went well and was not raced, the copy is the file until the next save,
damaged or not.  The destination of a file is one; the several that a `.backup`
can name are written one after the other and are alike.
All of it is proved (section 12).

## 11. Runs

| run | instance | shows |
|---|---|---|
| gdsnap_faults | a file in a directory with all the user can do, one write after any start; plain and large contents, symlinks; refused PUTs, listings answered with an error, crashes | the inductive invariant `IInv`, `OneObjectPerFile` |
| gdsnap_live | a file in a directory, two writes after any start, one content refused, symlinks, a channel with one slot, no request or listing that fails | `TypeOK`, `NoLostChange`, `WatchCovers`, `Settles`, `EventuallySaved` with all the user can do |
| gdsnap_scan | one file that is deleted | the finding in gdsnap watch |
| restore | a path, one below it, one beside it; two contents, of which one as a link is a directory outside; three globs from two directories; four ticks, one revision kept; interrupts and errors for answers | the five properties of section 4 |
| restore_globs | the same with six globs and no error for an answer | the finding in `matchglob` |
| pararun | four commands, two at a time, three slots, one chunk a pipe, kills, a failing start | the four properties of section 5 |
| makecfg | two names, one also a dotfile's, two changes by the user, one run cut off | the four properties of section 6 |
| preview | two browsers, one place to wait, a queue of one, any text of one or two lines, or of three with an empty one or a quote in the middle, and two texts more | the five properties of section 7 |
| todo | three files, two accounts, an edit by the user, lists of up to three tasks, dates of two years | the six properties of section 8 |
| todo_usage | the same | the finding in todotool |
| firefox | two wrappers, three versions, kills, reboots, failing rsyncs | the five properties of section 9 |
| pedit | two terminals, two files of which one has a copy, two entries, kills, reboots, failing copies | the three invariants and the refinement of section 10 |

`TypeOK` is part of `SavedIsHead`, `Installed`, `HeldOnce` and `NothingLost` in the
runs restore, makecfg, preview and todo, and of `IInv`.

Bounds and why they are enough.  `MaxClock` bounds creations and writes, not
deletions; it includes the one that the initial state has.  Every start with
two more writes has a first content on Drive, one in hand and one on its way, the
longest story any mutant needed.  The invariant is proved for every bound; its run
is there to see each fault take part.  One file in a directory meets every race of `savepath`, since it handles
one path at a time and shares nothing between files but the queues; the file and its
directory compete for the channel.  `ChanCap` 1 or
2 stands for 1000: it makes the channel full, which is the case that differs.
The initial states include every tree and every Drive an earlier run may have
left: an old content, the current one, a trashed object or nothing.
Two objects of a path (`MaxObjects`) are the second that a short listing leads to, and
the third that must not follow from it.  Ignored files (`Ignored`) are in the
proofs only: no run has one.
For pararun four commands wrap a ring of three slots; two threads give a command
at the head and one behind it that blocks on a pipe with one slot; statuses 0 and
2 and a kill give every order of codes around 1.

For makecfg a second name shows one item of a section keeping the others from
their turn and two compilers for one processor; two changes after any initial
repository cover leaving one kind for another and a save during the compilation.
`MaxStops` bounds how many runs end early, not where.

For restore, a path below another and one beside it have every relation
between paths that the code looks at; four ticks are two versions, a deletion and a
restore, or three versions and one; one revision kept makes Drive drop the first of
any two.  For preview, one place to wait and one in the
queue make both full with two browsers; three versions with three times let a
time repeat and go back.  For todo, one edit at any moment of a run that is killed
and started again meets every read and write of a file.  For pedit, two runs on
the same file or on different ones are what shares the temporary file; two
entries tell one session's from another's.  The permutations of terminals
are a symmetry, there being no liveness in that run; files are not alike, since only
one is copied.

`CHECK_DEADLOCK FALSE` is set for gdsnap, pararun, restore and preview since they
really stop: a daemon with nothing to do waits for an event, and a program that
has returned is gone; in restore the clock runs out.

Fairness.  `Gdsnap`: weak fairness of the main goroutine and of the watcher, each
as a whole: Go runs a goroutine that can run, and Drive answers or the request
fails.  The main goroutine includes `Start`, which means someone starts the daemon
again when it is down.  Nothing is assumed of the user, nor of crashes; the
liveness run has no crash.  `Pararun`: weak fairness of the main loop and of every
command, that is, commands terminate if they can write, and stdin is delivered
in the end.  Nothing is assumed of kills.  `Makecfg`:
weak fairness of the run, which includes that it is started again: the user's
prompts are answered with y but for the times that `Stop` counts.  `Preview`: weak
fairness of the main goroutine and of every browser's script, strong fairness of
`Serve`, since Go's select takes a case that is ready again and again in the end.
`Todo`: weak fairness of the main goroutine, of the blog (which has five seconds) and, for
each account, of `Deadline` (the goroutine that ^C wakes); none of `Reply`, a mailbox may
never answer, and none of `Router` and `Dial`, which have no timeout.  `Firefox`: weak fairness of the wrapper and of its goroutine, strong
fairness of `FirefoxDone`, a case of a select that the timer competes with; none
of firefox ending.

## 12. What is proved

TLAPS proves every safety property of the passing runs, for every value of the
constants.  There is one proof module to a component; each
first shows that its invariant is inductive, action by action or part by part,
and then derives the properties.  No constant is assumed to be finite or small
unless the code makes it so.

| module | theorems | assumptions |
|---|---|---|
| `GdsnapProofs` | `Invariant` (`IInv`), `NothingLost` (`NoLostChange`), `WatchesCover` (`WatchCovers`), `OneObject` (`OneObjectPerFile`), `TypeCorrect` | names are distinct, every file has a parent, sizes are positive, capacities not zero |
| `RestoreProofs` | `PointKept` (`PointInTime`), `HeadSaved` (`SavedIsHead`), `Exact` (`RestoreExact`), `OnlyMeant` (`OnlyWhatIsMeant`), `SilenceTrue` (`SilentMeansSame`) | paths are sequences of strings, listed once each and after their prefixes, as sort.Strings does; an error page is not a content, and Drive keeps a revision at least |
| `PararunProofs` | `AllSaid` (`SaysItAll`), `InOrder` (`InSequence`), `TypesHold` | the sizes are numbers, with a thread at least and a slot to each |
| `MakecfgProofs` | `InstalledAtEnd` (`Installed`), `OwnKept` (`OwnFilesKept`), `SecondIdle` (`SecondRunIdle`) | a processor at least |
| `PreviewProofs` | `NewsAwaited` (`WaitsForNews`), `RequestsHeldOnce` (`HeldOnce`), `DiesForAReason` (`DiesOnlyIf`), `Faithful`, `ServedFaithfully` (`ServedIsFaithful`) | finitely many browsers, capacities are numbers, texts are sequences of kinds of lines |
| `TodoProofs` | `NoLineLost` (`NothingLost`), `RewrittenOnlyOnce` (`RewrittenOnce`), `OnItsDay` (`DueOnItsDay`), `ReadyAsTold` (`ReadyIffClear`), `UnreadAsTold` (`UnreadIsShown`) | today is a calendar day, dates have four and twice two digits, a note is no task; the files' names are strings |
| `FirefoxProofs` | `LockHeldByOne` (`OneUser`), `SyncedAtExit` (`CleanExit`), `GoodCopyKept` (`SomeGoodCopy`), `TypesHold` | the faults are those named |
| `PeditProofs` | `Implements` (`ImplementsNotebook`), `PlaintextRemoved` (`NoPlaintextLeft`), `CopyIsCurrent` (`BackedUp`), `TypesHold` | none but a number as the bound on entries |

### `Gdsnap`

The argument.  `NoLostChange` alone is not inductive: that the main goroutine may
drop a path after deciding that it is up to date is right only because what it
decided on (`gs.files`, the time from Lstat, the content it read) is still true,
or because the news of the change that made it false is on its way.  `IInv` adds
exactly this.

- `CacheOK`, `DriveOK`, `TimesOK`: an entry or an object that bears the time of
  the file has its content, and nothing is later than the file.
- `StaleOK`: when `gs.files` neither says what a listing would nor, of a file
  that is to be uploaded anyway, says nothing, the file is in sync all the same,
  or news is ahead, or it is one of the five gaps.
- `JobStaleOK`: when the disk is no longer what the job found, likewise.
- `BootOK`: until the main loop is entered a deleted file has been trashed or is
  accounted for.
- `WatcherOK`, with `WatchCovers`: a directory without a watch has its event in
  the queue or is in the walk, so no change in it goes unannounced.
- `MainOK`, `JobOK`, `DiskOK`: which values go together.

News of a change travels events, `wname`, `filech`, touched, and each step hands
it on (`WatcherNews`, `UserNews`); the main goroutine takes it out of this chain
only when it visits the path, and the lemmas `VisitSettles`, `VisitMatches`,
`UnknownSettled` say that a visit leaves the file in sync or in hand.
`StepSafe` puts the actions together.

`OneObject` adds to this only that a running daemon has an entry, if one without
an ID, for every file that has an object (`Known`), but for the files the last listing
left out and those with a large object; a daemon leaves the state
where it knows nothing by listing Drive, so this outlives any number of deaths and of
requests carried out unheard.

### `Pedit`

`Implements` is the refinement, with any number of runs, files and entries.
`NoPlaintextLeft` is inductive as it stands; for the rest the invariant `PInv` adds
what a run relies on without looking at it:

- `TextsOK`: a text has only entries that were written, so that the next entry is
  new in it, and what is past the password was decrypted.
- `SessionOK`: of two runs in vim both are `crossed`, so that one which is not finds
  in the temporary file what it put there, with at most one entry more.
- `SavingOK`: two runs save a file at once only when it is `damaged`, so that the
  end of a save shows what was shown since its truncation; and what is being saved
  counts as not copied.
- `CopyingOK`: a copy that is not `raced` is alone on its way, no save of its file
  goes on, and what scp has read is the file.

The refinement has one lemma for each of the three steps that change what is shown:
`TruncateAdds` (it is `Add`, or `Damage` after a lost update), `SaveDamages` (it
is a stutter as far as the file is not damaged) and `CutDamages`; every other step
is `Quiet`.

### `Restore` and `Globs`

The history and the restore have an invariant each.  `HInv` is about the tree and
the revisions: below a path there are directories only (`Tree`), and of a path where no
file was given a time but the clock's a time tells which version it is (`Told`),
the revisions ascend, the head is not newer than what is
there, and every version that was saved and is kept is the last revision of its time
(`Straight`).  Dropping the oldest revision leaves this so for what is still `kept`
(`ForgetSafe`).  `RInv`
is about a restore between its steps: what it has made is on its list (`OnlyListed`),
what its list does not have is left alone (`Untouched`), nothing is left below a file it has restored
(`NothingBelow`), what is to go is gone when its turn is over (`OldGone`), nothing
stands in the way of the path at hand (`WayIsClear`), and what has been visited
is as wanted (`AllDone`).  That the list is in the order of the names, with a
directory before what is in it, is what the last three rest on.

`Sound` is the lemma about `matchglob`: for every pattern and every name, when the
scanner says yes the glob means the name.  The invariant of the scan is that what
is left of the name is meant by what is left of the pattern, or from one of the
two restart points on, provided the scan ends in yes.  The induction is over the scan's own measure
(`RankFacts`), as the least state that contradicts the claim, which needs no
induction theorem.

### `Pararun`

`RInv` counts the commands that are not reaped (`Counted`), says what poll's answer
is still good for when it is used (`LoopOK`): who has hung up at the head of the ring has
ended, is reaped before the pipe is closed, and has its last chunk printed; and, as long
as the ring was never full, which commands are in it (`RingOK`): those from `First`
to the last one started, each in the slot that follows, everything before them over
and printed.  `RetOK`: the code is the worst of those reaped.

### `Makecfg`

`MInv` says for each section what is so from its turn on (`Tools`, `Dots`, `Gens`,
`Nones`, `Scripts`, `Sources`), what a visit may rely on (`Plan`), and that a
binary which is not older than its source is of that source or was raced by a
save (`Versions`).  The conditions are kept by every later section, by the
user's changes, which start over, and by a run cut off.  `Settled` is what a
second run finds and therefore leaves.

### `Preview`

`PInv`: a browser is in the queue or held at most once (`Places`); no browser is
ahead of the server, nor the server of the file, unless a time went back
(`Times`); when the server has the time of the file it has its text, unless two
writes have one time (`News`).  That `lastMod` is taken before the text is read
is why the second needs the strict case of `pc = "read"`.  `HeldOnce` and
`DiesOnlyIf` count, vanished browsers that are held included; the counting is `CountOne` and `MoreThanHeld`.

`Faithful` follows the HTML token by token.  `At(s, text, open)` says what has been
shown after `s`, and which tags are open; `AtStep` is one more token, and holds
although two blocks of indented text are made one (`MergedStep`): the newline that
is left shows the same and the block is open again.  Between two lines the mode
tells which tags are open (`Blocks`).  `AtLine` is one line, in each mode in which it may come: what is shown has grown by what `Restored` says of it; `AllReached` is
all of them, by the least line where it would fail (`UpTo`), the accumulators of
`ToHTML` and `AllRestored` side by side (`Reached`).  That the ends of the text may differ is taken care of by the white
space `Normal` cuts off (`TrimNewline`, `TrimmedHTML`).

### `Todo` and `Tasks`

`TInv` follows a file from its reads to its rewrite: what is on the disk and what
the user saved are the same once normalized (`SameText`), what is in hand is what
the user saved (`InHand`), and a file that a run has gone through is as
rewriting leaves it (`CleanOK`), each as far as the user has not saved in between.
It rests on `LinesTwice`, that normalizing twice is normalizing once, and this on
`NormalIsDate`: four carries bring any written date into the calendar, where
normalizing changes nothing.

`OnItsDay` is arithmetic: a carry does not change the number of the day (`SameDay`),
and in the calendar the order of years, months and days is that of the numbers
(`OrderOfDays`).  `ReadyAsTold` goes along the lines: before each line the map of
the loop knows what the reference says of all tasks before it, and of those after
it no more than their names (`KnownFirst`, `KnownNext`).  `UnreadAsTold` likewise along the messages (`RecordedNext`).  Both speak of
functions defined by recursion over positions; that such a function exists is
shown by taking the least position where it would not (`AfterFacts`, `UptoFacts`,
`ReadFacts`), and what it computes in the same way.

### `Firefox`

`FInv`: whoever is past the lock is alone there, with no firefox but its own
(`Alone`); the last sync begins after firefox has ended and is of all that is in memory
(`LastSync`); what is not marked `hurt` is on the disk (`HurtOK`); the good copy is
the one on the disk until it has been loaded, then the one in memory (`GoodOK`).

## 13. What is only model-checked

Liveness (`Settles`, `EventuallySaved`, `Finishes`, `Converges`, `CatchesUp`,
`InterruptEnds`, `WrapperEnds`): out of the prover's reach, fairness and ENABLED being so.
They are checked for the small instances of section 11.

The findings are counterexamples and need no proof.

Many properties name the cases in which the code does lose something, and a case that is
named is not denied: what a property of this kind shows is that the list is
complete.  `PROJECT.json` says with each hazard whether the code has a guard against it,
which the property is about, or none.

## 14. What is not modelled

Of gdsnap: authentication and flags (one-shot I/O), and three behaviours of the daemon: two
writes within a millisecond, which Drive's times do not tell apart (526); an
overflow of the kernel's queue, a `log.Fatal` like those `Crash` stands for (337);
chmod, which changes no modification time.  Of makecfg: the installation of
packages and the clone, which are other programs' work.  Of `Restore`:
permissions, links from one directory of the tree to another, a save through a link, and two runs at once.  Of todotool and bm: words, escaping, links, a
failing network, items without a text, a request before bm has its queue (bm.go:314), two runs of
todotool at once; that `now` is taken before the flashcards are run (todo.go:184).  Of pedit: the
cipher and passwords, hence that an empty file takes any password (113).  Small processes that could be modelled and
are not yet: sysstat and its tailer, basic_syslogd, rcmd, halt and init, x11lock,
disw; what would be looked at there is a SIGUSR1 between the test and the read
(basic_syslogd.c:133), a change drained as a duplicate (sysstat_tailer.c:91), an
init executed anew from the handler of SIGTERM, which stays blocked (init.c:17), a
process that ends while its status file is read (rcmd_cancel.c:60), and a request
to lock that waits for a sleep (x11lock.c:207).  Left out for good: text filters and terminal programs (file_selector,
flashcard, mailedit, html_fmt, muttcfg, lll), tools that read, compute and print
(cal, otp, tlog, i3next, httpd, ybb), scripts of a few calls, huepush, whose
outcome depends on lamps and timing, dotfiles, data and vendored vim plugins.

## 15. Running it

    tlc -config GdsnapFaults.cfg MCGdsnap
    tlc -config Restore.cfg MCRestore
    tlc -config Pararun.cfg MCPararun
    tlc -config Makecfg.cfg MCMakecfg
    tlc -config Preview.cfg MCPreview
    tlc -config Todo.cfg MCTodo
    tlc -config Firefox.cfg MCFirefox
    tlc -config Pedit.cfg MCPedit
    tlapm GdsnapProofs.tla

and `tlapm` likewise for the other seven modules of section 12.  The names of the
runs, with their configurations and what each property's mutant is, are in
`PROJECT.json`.
