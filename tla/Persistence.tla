----------------------------- MODULE Persistence -----------------------------
(***************************************************************************)
(* The two files cantus appends to: the event log of JsonLinesPersistence  *)
(* (one JSON text and a newline per event), which the dashboard shows, and *)
(* the turns of MarkdownMemory (a chunk of front matter between two        *)
(* delimiter lines, then a body), which the four tools of AutoMemory let   *)
(* the model edit. A write may be cut short, by a crash or a full disk.    *)
(* Both files are only ever appended to, and read from the beginning.      *)
(*                                                                         *)
(* A file is a sequence of pieces: newlines, delimiters, and whole or cut  *)
(* texts. The front matter is reduced to its two rows that are recalled,   *)
(* no line of an answer reads as a row, and what two cut writes leave      *)
(* together is taken for garbage. The question and the answer of a turn    *)
(* are one text each, which str_replace replaces as a whole.               *)
(*                                                                         *)
(* The tools work over any memory: that of the file, or one that keeps the *)
(* turns in the process, the latest of them (ShortTermMemory) or all, with *)
(* an index to rank them by that is built when it is first needed          *)
(* (BM25Memory, EmbeddingMemory). The ranking itself is any order.         *)
(***************************************************************************)
EXTENDS SequencesExt, SeqFold

CONSTANTS
  Event,              \* events, which are JSON objects
  Plain, Collides,    \* texts; a colliding one has a line of its own with the
                      \* delimiter, set off by bare carriage returns
  TopK,               \* MarkdownMemory.top_k
  MaxWrites, MaxTears \* bounds: writes, and those that are cut short

Texts == Plain \cup Collides
Blank == "blank"      \* no text
Garbage == "garbage"  \* what a cut row and the text behind it are read as

ASSUME PersistenceAssumption ==
  /\ TopK \in Nat \ {0} /\ MaxWrites \in Nat /\ MaxTears \in Nat
  /\ {Blank, Garbage} \cap Texts = {}

VARIABLES
  backend,                \* the memory the tools work over
  event_file, turn_file,  \* the files
  remembered, index,      \* the turns in the process, and how many of them the
                          \* index is of, 0 if there is none
  recalled,               \* what the last recall from the process answered
  attempted,              \* history: events of which anything was written
  intact,                 \* history: turns remembered before the first accident
  accident,               \* history: a chunk was cut short or collided
  todo,                   \* turns that str_replace has still to remember
  writes, tears

events == <<event_file, attempted>>
process == <<remembered, index, recalled>>
turns == <<turn_file, process, intact, accident, todo>>
vars == <<backend, events, turns, writes, tears>>

Lesser(a, b) == IF a < b THEN a ELSE b

Piece(kind, of) == [kind |-> kind, of |-> of]
NewLine == Piece("newline", "none")
Delimiter == Piece("delimiter", "none")
Text == Piece("text", "none")
Cut == Piece("cut", "none")  \* a proper part of any piece of text

(* What is in the file when a write is cut short: some of the pieces, and  *)
(* perhaps a part of the next one.                                         *)
Torn(pieces) ==
  {SubSeq(pieces, 1, k) : k \in 0..(Len(pieces) - 1)} \cup
  {Append(SubSeq(pieces, 1, k), Cut) :
     k \in {j \in 0..(Len(pieces) - 1) : pieces[j + 1] # NewLine}}

(* The lines of a file, split at its newlines.                             *)
Lines(file) ==
  Through(LAMBDA lines, piece :
            IF piece = NewLine THEN Append(lines, <<>>)
            ELSE [lines EXCEPT ![Len(lines)] = Append(@, piece)],
          << <<>> >>, file)

Write == writes < MaxWrites /\ writes' = writes + 1
Tear == tears < MaxTears /\ tears' = tears + 1

-----------------------------------------------------------------------------
(* JsonLinesPersistence.                                                   *)

Line(e) == <<Piece("json", e), NewLine>>

(* Also when os.write() wrote less than the line: append() does not look.  *)
AppendEvent(e) ==
  /\ backend = "markdown" /\ Write
  /\ \/ event_file' = event_file \o Line(e) /\ UNCHANGED tears
     \/ Tear /\ \E part \in Torn(Line(e)) \ {<<>>} : event_file' = event_file \o part
  /\ attempted' = Append(attempted, e)
  /\ UNCHANGED <<backend, turns>>

(* Mutant: a line that does not parse is skipped.                          *)
SkipBroken(lines) == Filter(lines, LAMBDA line : Len(line) = 1 /\ line[1].kind = "json")

NotBlank(lines) == Filter(lines, LAMBDA line : line # <<>>)

(* load(): every line that is not blank holds one JSON text, or it raises. *)
ReadEvents == NotBlank(Lines(event_file))
Loads == \A k \in DOMAIN ReadEvents :
           Len(ReadEvents[k]) = 1 /\ ReadEvents[k][1].kind = "json"
Loaded == [k \in DOMAIN ReadEvents |-> ReadEvents[k][1].of]

(* The dashboard: of the newest `limit` events those behind the first      *)
(* `offset`; if load() raises it answers with a 500.                       *)
Page(loaded, limit, offset) ==
  LET older == IF Len(loaded) > limit THEN Len(loaded) - limit ELSE 0
  IN SubSeq(loaded, older + offset + 1, Len(loaded))

-----------------------------------------------------------------------------
(* MarkdownMemory.                                                         *)

Turn(user, assistant) == [user |-> user, assistant |-> assistant]
IsEmpty(turn) == turn.user = Blank /\ turn.assistant = Blank

(* read_text() turns a carriage return into a newline.                     *)
Body(text) == IF text \in Collides THEN <<Text, NewLine, Delimiter, NewLine, Text>> ELSE <<Text>>

Chunk(turn) ==
  <<Delimiter, NewLine, Piece("user", turn.user), NewLine,
    Piece("assistant", turn.assistant), NewLine, Delimiter, NewLine>>
  \o Body(turn.assistant) \o <<NewLine, NewLine>>

Remember(turn) ==
  /\ backend = "markdown" /\ Write
  /\ turn_file' = turn_file \o Chunk(turn)
  /\ accident' = (accident \/ turn.assistant \in Collides)
  /\ intact' = IF accident' THEN intact ELSE Append(intact, turn)
  /\ UNCHANGED <<backend, process, events, tears>>

(* The process dies, or the disk is full and remember() raises: str_replace*)
(* is over.                                                                *)
RememberFails(turn) ==
  /\ backend = "markdown" /\ Write /\ Tear
  /\ \E part \in Torn(Chunk(turn)) : turn_file' = turn_file \o part
  /\ accident' = TRUE /\ todo' = <<>>
  /\ UNCHANGED <<backend, process, events, intact>>

NoRows == Turn(Blank, Blank)

(* A row sets its field; one that ran into other text sets it to garbage.  *)
ReadRow(rows, line) ==
  IF line = <<>> \/ line[1].kind \notin {"user", "assistant"} THEN rows
  ELSE [rows EXCEPT ![line[1].kind] = IF Len(line) = 1 THEN line[1].of ELSE Garbage]

(* _parse_chunks: a delimiter opens the front matter, the next closes it,  *)
(* and what follows up to the next one is passed over. An empty turn is    *)
(* left out.                                                               *)
ParseLine(state, line) ==
  IF line = <<Delimiter>>
  THEN IF state.open
       THEN [state EXCEPT !.open = FALSE,
                          !.parsed = IF IsEmpty(state.rows) THEN @ ELSE Append(@, state.rows)]
       ELSE [state EXCEPT !.open = TRUE, !.rows = NoRows]
  ELSE IF state.open THEN [state EXCEPT !.rows = ReadRow(@, line)] ELSE state

Parsed ==
  Through(ParseLine, [open |-> FALSE, rows |-> NoRows, parsed |-> <<>>],
          Lines(turn_file)).parsed

(* A query is the set of texts it occurs in.                               *)
Matches(query, turn) == turn.user \in query \/ turn.assistant \in query

(* Mutant: the newest matching turns are kept.                             *)
NewestOf(matched) == SubSeq(matched, Len(matched) - TopK + 1, Len(matched))

OldestOf(matched) == SubSeq(matched, 1, TopK)

Recall(parsed, query) ==
  LET matched == Filter(parsed, LAMBDA turn : Matches(query, turn))
  IN IF Len(matched) <= TopK THEN matched ELSE OldestOf(matched)

-----------------------------------------------------------------------------
(* The memories in the process.                                            *)

Newest(seq, n) == SubSeq(seq, Len(seq) - Lesser(Len(seq), n) + 1, Len(seq))

(* Mutant: an index, once built, is kept.                                  *)
KeepIndex == index

Invalidated == 0

RememberHere(turn) ==
  /\ backend # "markdown" /\ Write
  /\ remembered' = IF backend = "short_term" THEN Newest(Append(remembered, turn), TopK)
                   ELSE Append(remembered, turn)
  /\ index' = Invalidated
  /\ intact' = Append(intact, turn)
  /\ UNCHANGED <<backend, recalled, events, turn_file, accident, tears>>

(* zip() pairs the scores with the turns as far as both go, and the best   *)
(* top_k pairs are answered.                                               *)
Indexed == IF index = 0 THEN Len(remembered) ELSE index

Ranked ==
  {[k \in DOMAIN order |-> remembered[order[k]]] :
     order \in {o \in [1..Lesser(TopK, Indexed) -> 1..Indexed] :
                 \A i, j \in DOMAIN o : o[i] = o[j] => i = j}}

RecallHere(turns_recalled) ==
  /\ backend # "markdown"
  /\ IF backend = "short_term"
     THEN turns_recalled = remembered /\ UNCHANGED index
     ELSE turns_recalled \in Ranked /\ index' = Indexed
  /\ recalled' = [turns |-> turns_recalled, of |-> Len(intact)]

-----------------------------------------------------------------------------
(* AutoMemory: the tools view, create, str_replace and delete.             *)

(* Also what delete counts: it deletes nothing.                            *)
View(query) == Recall(Parsed, query)

ViewHere ==
  /\ backend # "markdown" /\ todo = <<>>
  /\ \E seen \in Ranked \cup {remembered} : RecallHere(seen)
  /\ UNCHANGED <<backend, remembered, events, turn_file, intact, accident, todo, writes, tears>>

Create(user, assistant) ==
  /\ todo = <<>>
  /\ \/ Remember(Turn(user, assistant)) \/ RememberFails(Turn(user, assistant))
     \/ RememberHere(Turn(user, assistant))
  /\ UNCHANGED todo

Replace(turn, old, new) ==
  LET In(text) == IF text = old THEN new ELSE text
  IN Turn(In(turn.user), In(turn.assistant))

(* The turns that change, and are not left empty; the originals stay.      *)
Replaced(viewed, old, new) ==
  Filter([k \in DOMAIN viewed |->
            IF Replace(viewed[k], old, new) = viewed[k] THEN NoRows
            ELSE Replace(viewed[k], old, new)],
         LAMBDA turn : ~IsEmpty(turn))

StrReplace(query, old, new) ==
  /\ todo = <<>>
  /\ \/ /\ backend = "markdown" /\ todo' = Replaced(View(query), old, new)
        /\ UNCHANGED process
     \/ \E seen \in Ranked \cup {remembered} :
          RecallHere(seen) /\ todo' = Replaced(seen, old, new) /\ UNCHANGED remembered
  /\ todo' # <<>>
  /\ UNCHANGED <<backend, events, turn_file, intact, accident, writes, tears>>

(* str_replace remembers the next of the turns it replaced.                *)
ReplaceNext ==
  /\ todo # <<>>
  /\ \/ Remember(Head(todo)) /\ todo' = Tail(todo)
     \/ RememberFails(Head(todo))
     \/ RememberHere(Head(todo)) /\ todo' = Tail(todo)

-----------------------------------------------------------------------------
Init ==
  /\ backend \in {"markdown", "short_term", "ranked"}
  /\ remembered = <<>> /\ index = 0 /\ recalled = [turns |-> <<>>, of |-> 0]
  /\ event_file = <<>> /\ attempted = <<>>
  /\ turn_file = <<>> /\ intact = <<>> /\ accident = FALSE /\ todo = <<>>
  /\ writes = 0 /\ tears = 0

Next ==
  \/ \E e \in Event : AppendEvent(e)
  \/ \E t \in Texts : Create(t, t)
  \/ \E old \in Texts : \E new \in (Texts \cup {Blank}) \ {old}, query \in {{old}, Texts} :
       StrReplace(query, old, new)
  \/ ReplaceNext \/ ViewHere

Spec == Init /\ [][Next]_vars

-----------------------------------------------------------------------------
(* Properties.                                                             *)

(* load() loses nothing in silence: it raises, or returns every event of   *)
(* which append() wrote anything, in the order they were appended, however *)
(* the writes were cut; and the dashboard shows the newest of them         *)
(* (event_stream_persistence.py:35-76, dashboard.py:113-127).              *)
LoadsAllOrRaises ==
  Loads =>
    /\ Loaded = attempted
    /\ \A limit \in 1..(MaxWrites + 1), offset \in 0..MaxWrites :
         LET page == Page(Loaded, limit, offset)
             shown == Lesser(limit, Len(attempted))
         IN /\ IsSuffix(page, attempted)
            /\ Len(page) = IF shown > offset THEN shown - offset ELSE 0

(* The turns written ahead of any accident stay readable for ever, though  *)
(* str_replace fails half-way or is repeated: what a query recalls keeps   *)
(* its limit and starts with those of them it matches, in order            *)
(* (memory_markdown.py:103-164, 197-208; memory_auto.py:72-87).            *)
IntactTurnsFirst ==
  LET parsed == Parsed
  IN \A query \in SUBSET Texts :
       LET expected == Filter(intact, LAMBDA turn : Matches(query, turn))
           answer == Recall(parsed, query)
       IN /\ IsPrefix(SubSeq(expected, 1, Lesser(Len(expected), TopK)), answer)
          /\ Len(answer) <= TopK

(* The question of one turn is never recalled with the answer of another,  *)
(* unless a part of the turn is lost too, and that shows.                  *)
Coherent(turn) ==
  turn.user = turn.assistant \/ {Garbage, Blank} \cap {turn.user, turn.assistant} # {}

(* Both hold wherever a write was cut. Two cuts can mix turns: the run     *)
(* allows one.                                                             *)
IntactTurnsRecalled ==
  backend = "markdown" =>
    IntactTurnsFirst /\ LET parsed == Parsed IN \A k \in DOMAIN parsed : Coherent(parsed[k])

(* A recall from the process ranks every turn remembered before it, those  *)
(* that came after the index was built too: it answers as many as there    *)
(* are up to the limit, each as often as it was remembered, and a short    *)
(* memory the latest of them in order (memory.py:78-166).                  *)
RecallSeesEveryTurn ==
  LET before == SubSeq(intact, 1, recalled.of)
      Times(turn, seq) == Cardinality({k \in DOMAIN seq : seq[k] = turn})
  IN /\ Len(recalled.turns) = Lesser(TopK, recalled.of)
     /\ \A turn \in ToSet(recalled.turns) : Times(turn, recalled.turns) <= Times(turn, before)
     /\ backend = "short_term" => recalled.turns = Newest(before, TopK)
=============================================================================
