---------------------------- MODULE SegmentGrid ----------------------------
(***************************************************************************)
(* The editing core of the engine: the segment rows of one project, the    *)
(* translation memories it reads and writes, the QA issues a write keeps    *)
(* in step, and clients that edit from the rows they last saw.             *)
(*                                                                         *)
(* The engine handles one request at a time and every handler reads its    *)
(* rows from the store and commits its changes in one transaction, so a    *)
(* handler is one action.  What is concurrent are the clients: between the *)
(* answer a client edits from and the request it sends, any other handler  *)
(* may have run, and an answer may never arrive (a timeout or a crash of   *)
(* the engine after the commit).  A request a handler refuses changes      *)
(* nothing and is left out.                                                *)
(***************************************************************************)
EXTENDS QaRules, FiniteSets

CONSTANTS
  Clients,
  Documents,
  DocOf,        \* the document of each segment
  Imported,     \* texts a bilingual import may bring along
  Edits,        \* texts a client may type or insert
  Stamps,       \* origins a client may send along: none for a text that was typed,
                \* the grade of the suggestion for one that was inserted
  SourceEdits,  \* source texts a client may rewrite a source into
  Rewrites,     \* search-and-replace requests: functions from matching texts
  Exchanged,    \* TM files: functions from the hashes they cover to entries
  EntryEdits,   \* entries a client may edit one into
  Memories,     \* the memories mounted on the project, read or not
  Rank,         \* priority of each mounted memory, 0 is the highest
  Score,        \* Score[h][g]: match score of an entry for g against source h
  MinScore,
  NoMemory, NoEntry, Unseen

Entries == [source : Sources, target : Targets]

ASSUME GridAssumption ==
  /\ DocOf \in [Segments -> Documents]
  /\ Imported \subseteq Texts /\ Edits \subseteq Texts
  /\ Stamps \subseteq Origins \cup {NoOrigin}
  /\ \A file \in Exchanged : /\ file \in [DOMAIN file -> Entries] /\ DOMAIN file \subseteq Hashes
                             /\ \A h \in DOMAIN file : HashOf[file[h].source] = h
  /\ EntryEdits \subseteq Entries
  /\ SourceEdits \subseteq Sources
  /\ \A w \in Rewrites : /\ DOMAIN w \subseteq Targets
                         /\ \A t \in DOMAIN w : w[t] \in Texts \ {t}
  /\ Rank \in [Memories -> Nat]
  /\ Score \in [Hashes -> [Hashes -> Nat]]
  /\ MinScore \in Nat
  /\ NoMemory \notin Memories
  /\ NoEntry \notin Entries
  /\ Unseen \notin Rows
  /\ NoOrigin \notin Origins

VARIABLES
  seg,       \* the segments table
  issues,    \* the qa_issues table, per segment and finding
  tm,        \* tm[m][h]: the entry of memory m for hash h
  working,   \* the writable mount of the project, or NoMemory
  enabled,   \* the mounts the read path sees
  view,      \* view[c][s]: the last answer client c has about row s
  learned,   \* history: the pairs somebody vouched for, and how (see Voucher)
  setting,   \* the QA profile and the termbases in force
  judged     \* history: the setting under which each row was last judged

vars == <<seg, issues, tm, working, enabled, view, learned, setting, judged>>

\* A client confirmed the target it saw on a row of that source, put the pair into
\* a memory by an import or an edit of an entry, or inserted the target into a row
\* of that source as an exact match.
Voucher(source, target, by) == [source |-> source, target |-> target, by |-> by]
Vouchers == [source : Sources, target : Texts, by : {"confirm", "memory", "stamp"}]

RowsOf(d) == {s \in Segments : DocOf[s] = d}

-----------------------------------------------------------------------------
(* One transaction: upsert the written rows, and answer client c with the  *)
(* rows the handler built, unless the answer is lost.                      *)

Commit(c, written, S) ==
  /\ \A s \in S : seg[s].revision < MaxRevision
  /\ seg' = [s \in Segments |-> IF s \in S THEN Upsert(seg[s], written[s]) ELSE seg[s]]
  /\ \/ view' = [view EXCEPT ![c] =
                   [s \in Segments |-> IF s \in S THEN written[s] ELSE view[c][s]]]
     \/ UNCHANGED view

\* Variant: any answer will do, however old.
BaseSeen(c, s) == view[c][s] # Unseen

\* The baseRevision guard of every single-row handler: the client saw the row
\* and nobody has written it since.
BaseRevision(c, s) == view[c][s] # Unseen /\ view[c][s].revision = seg[s].revision

-----------------------------------------------------------------------------
SegmentList(c, d) ==
  /\ view' = [view EXCEPT ![c] = [s \in Segments |-> IF s \in RowsOf(d) THEN seg[s] ELSE @[s]]]
  /\ UNCHANGED <<seg, issues, tm, working, enabled, learned, setting, judged>>

SegmentUpdate(c, s, text, stamp) ==
  /\ BaseRevision(c, s)
  /\ ~seg[s].locked
  /\ Commit(c, [q \in {s} |-> Retarget(seg[s], text, stamp)], {s})
  /\ learned' = IF stamp # NoOrigin /\ stamp.kind = "tmExact"
                THEN learned \cup {Voucher(seg[s].source, text, "stamp")} ELSE learned
  /\ UNCHANGED <<issues, tm, working, enabled, setting, judged>>

SegmentUpdateSource(c, s, src) ==
  /\ BaseRevision(c, s)
  /\ ~seg[s].locked
  /\ Commit(c, [q \in {s} |->
       [seg[s] EXCEPT !.source = src,
                      !.state = IF src # seg[s].source /\ @ = "confirmed" THEN "draft" ELSE @,
                      !.revision = @ + 1]], {s})
  /\ UNCHANGED <<issues, tm, working, enabled, learned, setting, judged>>

\* Locked rows are skipped, confirmed ones too unless the request includes them.
SegmentReplace(c, d, rewrite, includeConfirmed) ==
  LET S == {s \in RowsOf(d) : /\ seg[s].target \in DOMAIN rewrite
                              /\ ~seg[s].locked
                              /\ seg[s].state = "confirmed" => includeConfirmed}
  IN /\ S # {}
     /\ Commit(c, [s \in S |-> Retarget(seg[s], rewrite[seg[s].target], NoOrigin)], S)
     /\ UNCHANGED <<issues, tm, working, enabled, learned, setting, judged>>

\* Untranslated duplicates of row s across the project.
Duplicates(s) ==
  {q \in Segments \ {s} : HashOf[seg[q].source] = HashOf[seg[s].source] /\ Fillable(seg[q])}

\* The entry the memory holds after a confirm or an import: an existing one keeps its source.
TmUpsert(entry, source, target) ==
  IF entry = NoEntry THEN [source |-> source, target |-> target]
  ELSE [entry EXCEPT !.target = target]

SegmentConfirm(c, s, skipTmWrite) ==
  LET row  == [seg[s] EXCEPT !.state = "confirmed", !.revision = @ + 1]
      dups == IF skipTmWrite THEN {} ELSE Duplicates(s)
  IN /\ BaseRevision(c, s)
     /\ Confirmable(seg[s])
     /\ skipTmWrite \/ working # NoMemory
     /\ tm' = IF skipTmWrite THEN tm
              ELSE [tm EXCEPT ![working][HashOf[row.source]] =
                      TmUpsert(@, row.source, row.target)]
     /\ Commit(c, [q \in {s} \cup dups |->
                     IF q = s THEN row ELSE Fill(seg[q], row.target, "tmExact")],
                  {s} \cup dups)
     /\ issues' = [issues EXCEPT ![s] = RefreshSegment(@, row, setting)]
     /\ judged' = [judged EXCEPT ![s] = setting]
     /\ learned' = IF skipTmWrite THEN learned
                   ELSE learned \cup {Voucher(seg[s].source, view[c][s].target, "confirm")}
     /\ UNCHANGED <<working, enabled, setting>>

SegmentLock(c, s, locked) ==
  /\ BaseRevision(c, s)
  /\ Commit(c, [q \in {s} |-> [seg[s] EXCEPT !.locked = locked, !.revision = @ + 1]], {s})
  /\ UNCHANGED <<issues, tm, working, enabled, learned, setting, judged>>

-----------------------------------------------------------------------------
(* Pretranslation: every fillable row of a document takes the best match   *)
(* of the enabled memories.                                                *)

\* An entry for the same hash is an exact match, always scored 100.
MatchScore(h, g) == IF g = h THEN 100 ELSE Score[h][g]

Matches(h) ==
  {x \in enabled \X Hashes : tm[x[1]][x[2]] # NoEntry /\ MatchScore(h, x[2]) >= MinScore}

Better(h, x, y) ==
  \/ MatchScore(h, x[2]) > MatchScore(h, y[2])
  \/ MatchScore(h, x[2]) = MatchScore(h, y[2]) /\ Rank[x[1]] < Rank[y[1]]

\* Ties left over are broken by recency, which the model does not keep.
Best(h) == {x \in Matches(h) : ~\E y \in Matches(h) : Better(h, y, x)}

TmPretranslate(c, d) ==
  LET hash(s) == HashOf[seg[s].source]
      S == {s \in RowsOf(d) : Fillable(seg[s]) /\ Best(hash(s)) # {}}
  IN /\ S # {}
     /\ \E pick \in [S -> enabled \X Hashes] :
          /\ \A s \in S : pick[s] \in Best(hash(s))
          /\ Commit(c, [s \in S |->
               Fill(seg[s], tm[pick[s][1]][pick[s][2]].target,
                    IF pick[s][2] = hash(s) THEN "tmExact" ELSE "tmFuzzy")], S)
     /\ UNCHANGED <<issues, tm, working, enabled, learned, setting, judged>>

-----------------------------------------------------------------------------
(* The memories themselves.                                                *)

\* A file is one transaction; of a hash it covers twice, the last target counts.
TmImport(m, file) ==
  /\ tm' = [tm EXCEPT ![m] = [h \in Hashes |->
              IF h \in DOMAIN file THEN TmUpsert(@[h], file[h].source, file[h].target)
              ELSE @[h]]]
  /\ learned' = learned \cup {Voucher(file[h].source, file[h].target, "memory") : h \in DOMAIN file}
  /\ UNCHANGED <<seg, issues, working, enabled, view, setting, judged>>

\* An edit of the source re-keys the entry, unless another entry covers it.
TmUpdate(m, h, entry) ==
  LET key == HashOf[entry.source]
  IN /\ tm[m][h] # NoEntry
     /\ key = h \/ tm[m][key] = NoEntry
     /\ tm' = [tm EXCEPT ![m][h] = NoEntry, ![m][key] = entry]
     /\ learned' = learned \cup {Voucher(entry.source, entry.target, "memory")}
     /\ UNCHANGED <<seg, issues, working, enabled, view, setting, judged>>

TmDelete(m, h) ==
  /\ tm[m][h] # NoEntry
  /\ tm' = [tm EXCEPT ![m][h] = NoEntry]
  /\ UNCHANGED <<seg, issues, working, enabled, view, learned, setting, judged>>

\* Enable or disable a mount for reading, promote or demote it for writing;
\* promoting conflicts while another mount is writable.
MemoryUpdate(m, on, writable) ==
  /\ writable => working \in {m, NoMemory}
  /\ enabled' = IF on THEN enabled \cup {m} ELSE enabled \ {m}
  /\ working' = IF writable THEN m ELSE IF working = m THEN NoMemory ELSE working
  /\ UNCHANGED <<seg, issues, tm, view, learned, setting, judged>>

\* The profile of the project is edited, or a termbase or a term of it.
QaProfileUpdate(k) ==
  /\ setting' = k
  /\ UNCHANGED <<seg, issues, tm, working, enabled, view, learned, judged>>

-----------------------------------------------------------------------------
Imports ==
  {row \in Rows : /\ row.target \in Imported
                  /\ row.state = IF row.target = Blank THEN "untranslated" ELSE "draft"
                  /\ ~row.locked /\ row.origin = NoOrigin /\ row.revision = 1}

Init ==
  /\ seg \in [Segments -> Imports]
  /\ issues = [s \in Segments |-> [f \in Findings |-> "none"]]
  /\ tm = [m \in Memories |-> [h \in Hashes |-> NoEntry]]
  /\ working \in Memories
  /\ enabled = Memories
  /\ view = [c \in Clients |-> [s \in Segments |-> Unseen]]
  /\ learned = {}
  /\ setting \in Settings
  /\ judged = [s \in Segments |-> setting]

Next ==
  \/ \E c \in Clients, d \in Documents :
       \/ SegmentList(c, d)
       \/ TmPretranslate(c, d)
       \/ \E w \in Rewrites, incl \in BOOLEAN : SegmentReplace(c, d, w, incl)
  \/ \E c \in Clients, s \in Segments :
       \/ \E text \in Edits, stamp \in Stamps : SegmentUpdate(c, s, text, stamp)
       \/ \E src \in SourceEdits : SegmentUpdateSource(c, s, src)
       \/ \E skip \in BOOLEAN : SegmentConfirm(c, s, skip)
       \/ \E locked \in BOOLEAN : SegmentLock(c, s, locked)
  \/ \E m \in Memories :
       \/ \E on \in BOOLEAN, writable \in BOOLEAN : MemoryUpdate(m, on, writable)
       \/ \E file \in Exchanged : TmImport(m, file)
       \/ \E h \in Hashes : TmDelete(m, h) \/ \E entry \in EntryEdits : TmUpdate(m, h, entry)
  \/ \E k \in Settings : QaProfileUpdate(k)

Spec == Init /\ [][Next]_vars

-----------------------------------------------------------------------------
(* Properties *)

\* Every variable holds a value of the kind the engine keeps there.
TypeOK ==
  /\ seg \in [Segments -> Rows]
  /\ issues \in [Segments -> [Findings -> Statuses]]
  /\ tm \in [Memories -> [Hashes -> Entries \cup {NoEntry}]]
  /\ working \in Memories \cup {NoMemory}
  /\ enabled \in SUBSET Memories
  /\ view \in [Clients -> [Segments -> Rows \cup {Unseen}]]
  /\ learned \in SUBSET Vouchers
  /\ setting \in Settings
  /\ judged \in [Segments -> Settings]

\* No writer of a row forgets the revision: a client whose base revision is
\* still accepted is looking at exactly the row it is about to overwrite.  This
\* is what keeps a typed edit, a replace, a pretranslation and a propagated
\* confirm from silently overwriting each other.  (The source column is apart,
\* see AnsweredSourceIsStored.)
RevisionNamesContent ==
  \A c \in Clients, s \in Segments :
    BaseRevision(c, s) => Upsert(seg[s], view[c][s]) = seg[s]

\* What segment.updateSource answers is what the store holds: a client whose
\* revision is current sees the current source text.
AnsweredSourceIsStored ==
  \A c \in Clients, s \in Segments :
    BaseRevision(c, s) => view[c][s].source = seg[s].source

\* The state of a row never contradicts its text, whichever handler wrote it
\* last: untranslated and blank are the same thing.
StateMatchesTarget ==
  \A s \in Segments : seg[s].state = "untranslated" <=> seg[s].target = Blank

\* The memory holds nothing but what a client had on its screen when it confirmed,
\* as the translation of a row with the entry's hash, and what a client put there
\* by an import or an edit of an entry: no draft, replace result, inserted
\* suggestion or pretranslation leaks into an entry.  (The source the confirming
\* client saw is apart, see AnsweredSourceIsStored.)
LearnedPairOnScreen ==
  \A m \in Memories, h \in Hashes :
    tm[m][h] # NoEntry =>
      \E v \in learned : /\ HashOf[v.source] = h /\ v.target = tm[m][h].target
                         /\ v.by # "stamp"

\* A row that calls itself an unedited exact match carries a text somebody vouched
\* for as the translation of its source: in a confirm, in a memory, or by
\* inserting it as exact.  That holds however many edits, replaces, propagations,
\* re-learned, edited and deleted entries lie between.
ExactStampIsHonest ==
  \A s \in Segments :
    seg[s].origin = Fresh("tmExact") =>
      \E v \in learned : HashOf[v.source] = HashOf[seg[s].source] /\ v.target = seg[s].target

\* The QA issues of a confirmed row are in step with its text: everything the
\* segment rules find in it, under the profile and the termbases of its last pass,
\* is an open or an accepted issue, because the confirm refreshed them in its own
\* transaction and no later write keeps the row confirmed with another text.
ConfirmedFindingsOnRecord ==
  \A s \in Segments :
    seg[s].state = "confirmed" =>
      \A f \in SegmentFindings(seg[s], judged[s]) : issues[s][f] \in {"open", "waived"}

\* While a row is locked its translation is read-only for every writer: only the
\* lock flag and the revision move.
LockedRowUntouched ==
  [][\A s \in Segments :
       seg[s].locked /\ seg'[s] # seg[s] =>
         seg'[s] = [seg[s] EXCEPT !.locked = seg'[s].locked, !.revision = @ + 1]]_vars

\* A text that is already there is only ever replaced by a client that asked for
\* it: by an edit of that very row or by a search-and-replace.  Propagation and
\* pretranslation fill blanks.
AutomationNeverOverwrites ==
  [][\A s \in Segments :
       seg[s].target # Blank /\ seg'[s].target # seg[s].target =>
         \/ \E c \in Clients, text \in Edits, stamp \in Stamps : SegmentUpdate(c, s, text, stamp)
         \/ \E c \in Clients, w \in Rewrites, incl \in BOOLEAN :
              SegmentReplace(c, DocOf[s], w, incl)]_vars
=============================================================================
