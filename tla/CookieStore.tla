---------------------------- MODULE CookieStore ----------------------------
(***************************************************************************)
(* utils/cookies.py for one platform: the cookie files on disk, their rows *)
(* in cookie_files, the uploads that admins have under way, and the start  *)
(* of the bot, which registers what it finds on disk.                      *)
(***************************************************************************)
EXTENDS Naturals, Sequences, FiniteSets

CONSTANTS
  Uploaders,   \* the tasks that may be saving a file
  MaxClock,    \* bound: seconds
  MaxFailures  \* bound: failing writes and sessions, and deaths of the bot

ASSUME StoreAssumption == MaxClock \in Nat \ {0} /\ MaxFailures \in Nat

VARIABLES
  clock,     \* the second it is; a file is named by the second of its upload
  files,     \* names on disk
  rows,      \* the rows, in the order of their commits
  upload,    \* save_cookie_file of each task
  bot,       \* is it up, starting, or did the start raise?
  alone,     \* history: the tasks whose transactions have met no other
  met,       \* history: the last transaction on the rows was not alone
  twin,      \* history: two uploads were given one name
  failures   \* for MaxFailures

storeVars == <<clock, files, rows, upload, bot, alone, met, twin, failures>>

Names  == 1 .. MaxClock
Row    == [name : Names, active : BOOLEAN]
Upload == [pc : {"none", "write", "begin", "commit"}, name : 0 .. MaxClock,
           old : Nat]  \* how many rows the UPDATE saw
NoUpload == [pc |-> "none", name |-> 0, old |-> 0]

StoreTypeOK ==
  /\ clock \in Names
  /\ files \subseteq Names
  /\ rows \in Seq(Row)
  /\ upload \in [Uploaders -> Upload]
  /\ bot \in {"up", "starting", "broken"}
  /\ alone \subseteq Uploaders
  /\ met \in BOOLEAN /\ twin \in BOOLEAN /\ failures \in 0 .. MaxFailures

StoreInit ==
  /\ clock = 1 /\ files = {} /\ rows = << >>
  /\ upload = [u \in Uploaders |-> NoUpload]
  /\ bot = "up"
  /\ alone = {} /\ met = FALSE /\ twin = FALSE /\ failures = 0

ActiveRows == {i \in DOMAIN rows : rows[i].active}

Deactivated(rs, n) ==
  [i \in DOMAIN rs |-> IF i <= n THEN [rs[i] EXCEPT !.active = FALSE] ELSE rs[i]]

\* Mistake: the row is named without the time.
AddedWithoutTime(rs, name) == Append(rs, [name |-> 0, active |-> TRUE])

Added(rs, name) == Append(rs, [name |-> name, active |-> TRUE])

Tick ==
  /\ clock < MaxClock
  /\ clock' = clock + 1
  /\ UNCHANGED <<files, rows, upload, bot, alone, met, twin, failures>>

-----------------------------------------------------------------------------
(* save_cookie_file *)

\* The format and the expiry were found good; a file that is not changes
\* nothing.  strftime gives the name.
TakeName(u) ==
  /\ upload[u].pc = "none"
  /\ upload' = [upload EXCEPT ![u] = [pc |-> "write", name |-> clock, old |-> 0]]
  /\ twin' = (twin \/ clock \in files
              \/ \E v \in Uploaders : upload[v].name = clock)
  /\ UNCHANGED <<clock, files, rows, bot, alone, met, failures>>

WriteFile(u) ==
  /\ upload[u].pc = "write"
  /\ files' = files \cup {upload[u].name}
  /\ upload' = [upload EXCEPT ![u].pc = "begin"]
  /\ UNCHANGED <<clock, rows, bot, alone, met, twin, failures>>

\* Mistake: a failing write is only logged.
LogAndGoOn(u) == upload' = [upload EXCEPT ![u].pc = "begin"]

\* The upload is over: "Failed to save to disk", or the session raised.
GiveUp(u) == upload' = [upload EXCEPT ![u] = NoUpload]

\* The file may have been opened, and stays, cut short.
WriteFails(u) ==
  /\ upload[u].pc = "write"
  /\ failures < MaxFailures
  /\ failures' = failures + 1
  /\ files' \in {files, files \cup {upload[u].name}}
  /\ GiveUp(u)
  /\ UNCHANGED <<clock, rows, bot, alone, met, twin>>

\* Mistake: the old rows are deactivated in a transaction of their own.
CommittedAtOnce == rows' = Deactivated(rows, Len(rows))

\* What others see of the UPDATE before the commit.
Uncommitted == UNCHANGED rows

\* deactivate_all_cookies: the statement sees the rows committed by now, and
\* waits for those another transaction has changed.
Begin(u) ==
  /\ upload[u].pc = "begin"
  /\ upload' = [upload EXCEPT ![u].pc = "commit", ![u].old = Len(rows)]
  /\ alone' = IF \E v \in Uploaders : upload[v].pc = "commit" THEN {} ELSE {u}
  /\ Uncommitted
  /\ UNCHANGED <<clock, files, bot, met, twin, failures>>

\* The INSERT and the commit.
Commit(u) ==
  /\ upload[u].pc = "commit"
  /\ rows' = Added(Deactivated(rows, upload[u].old), upload[u].name)
  /\ upload' = [upload EXCEPT ![u] = NoUpload]
  /\ met' = (u \notin alone)
  /\ UNCHANGED <<clock, files, bot, alone, twin, failures>>

\* A statement or the commit raises, and get_db rolls back; the file stays.
SessionFails(u) ==
  /\ upload[u].pc \in {"begin", "commit"}
  /\ failures < MaxFailures
  /\ failures' = failures + 1
  /\ GiveUp(u)
  /\ UNCHANGED <<clock, files, rows, bot, alone, met, twin>>

-----------------------------------------------------------------------------
(* The start of the bot *)

StoreCrash ==
  /\ failures < MaxFailures
  /\ bot = "up"
  /\ bot' = "starting"
  /\ upload' = [u \in Uploaders |-> NoUpload]
  /\ failures' = failures + 1
  /\ UNCHANGED <<clock, files, rows, alone, met, twin>>

\* The rows of a file found on disk.
RowsOf(name) == {i \in DOMAIN rows : rows[i].name = name}

\* Mistake: only the active row is looked for.
WithoutActiveRow ==
  {n \in files : \A i \in RowsOf(n) : ~rows[i].active}

Unregistered == {n \in files : RowsOf(n) = {}}

\* Mistake: the others stay active.
RegisteredBeside(rs, names) ==
  rs \o [i \in DOMAIN names |-> [name |-> names[i], active |-> TRUE]]

\* One after the other, each the end of those before it.
Registered(rs, names) ==
  IF names = << >> THEN rs
  ELSE Deactivated(rs, Len(rs)) \o
       [i \in DOMAIN names |-> [name |-> names[i], active |-> i = Len(names)]]

\* discover_local_cookies, one transaction: files without a row are registered
\* in any order; two rows of one name raise, and the bot does not start.
Discover ==
  /\ bot = "starting"
  /\ LET new == Unregistered
     IN  IF \E n \in files : Cardinality(RowsOf(n)) > 1
           THEN bot' = "broken" /\ UNCHANGED <<rows, met>>
           ELSE /\ bot' = "up"
                /\ \E s \in [1 .. Cardinality(new) -> new] :
                     /\ {s[i] : i \in DOMAIN s} = new
                     /\ \A i, j \in DOMAIN s : s[i] = s[j] => i = j
                     /\ rows' = Registered(rows, s)
                /\ met' = (met /\ new = {})
  /\ UNCHANGED <<clock, files, upload, alone, twin, failures>>

-----------------------------------------------------------------------------
(* Properties *)

\* Once a platform has cookies it always has active ones, wherever an upload
\* fails or the bot dies: the new row and the end of the old one are one commit.
SomeCookieActive == rows # << >> => ActiveRows # {}

\* "Only one active cookie file per platform at a time", unless the last
\* transaction on the rows met another one; the next that runs alone, or a start
\* that registers a file, repairs it.
OneActiveUnlessMet ==
  ~met => Cardinality(ActiveRows) <= 1

\* Every row has its file: what get_cookie_file hands to yt-dlp exists.
RowsHaveFiles == \A i \in DOMAIN rows : rows[i].name \in files

\* The bot starts again after any death, unless two uploads of one second were
\* given one name.
StartsAgain == bot = "broken" => twin
=============================================================================
