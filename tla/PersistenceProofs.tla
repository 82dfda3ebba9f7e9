-------------------------- MODULE PersistenceProofs --------------------------
(***************************************************************************)
(* Proofs about the files and the memories, for any events, texts and      *)
(* limits, any number of writes, and files of any length. What a parser    *)
(* reads is the result of a loop over the file; the laws of such loops are *)
(* those of FoldLaws, of which there is an instance for each.              *)
(***************************************************************************)
EXTENDS Persistence, SequenceTheorems, FiniteSetTheorems, TLAPS

(* What a field of a turn may hold, and the pieces a file is made of.      *)
Field == Texts \cup {Blank, Garbage}
Fields == [user : Field, assistant : Field]
Pieces ==
  [kind : {"newline", "delimiter", "text", "cut"}, of : {"none"}]
    \cup [kind : {"json"}, of : Event]
    \cup [kind : {"user", "assistant"}, of : Field]

-----------------------------------------------------------------------------
(* Splitting a file into lines.                                            *)

SplitStep(p, lines, piece) ==
  IF piece = NewLine THEN Append(lines, <<>>)
  ELSE [lines EXCEPT ![Len(lines)] = Append(@, piece)]

Split == INSTANCE FoldLaws WITH Step <- SplitStep, Base <- LAMBDA p : << <<>> >>

FileLines == {lines \in Seq(Seq(Pieces)) : Len(lines) >= 1}
LastOf(lines) == lines[Len(lines)]
Closed(lines) == SubSeq(lines, 1, Len(lines) - 1)

LEMMA LinesIsSplit == ASSUME NEW file PROVE Lines(file) = Split!Result(0, file)
BY DEF Lines, Split!Result, Split!Through, Through, SplitStep

LEMMA PieceTypes ==
  /\ NewLine \in Pieces /\ Delimiter \in Pieces /\ Text \in Pieces /\ Cut \in Pieces
  /\ Delimiter # NewLine /\ Text # NewLine /\ Cut # NewLine
  /\ Text # Delimiter /\ Cut # Delimiter
  /\ \A e \in Event : Piece("json", e) \in Pieces /\ Piece("json", e) # NewLine
  /\ \A f \in Field : /\ Piece("user", f) \in Pieces /\ Piece("user", f) # NewLine
                      /\ Piece("assistant", f) \in Pieces /\ Piece("assistant", f) # NewLine
BY DEF Pieces, NewLine, Delimiter, Text, Cut, Piece

(* A sequence that is not empty: all but its last element, and that.       *)
LEMMA FrontAndLast ==
  ASSUME NEW S, NEW s \in Seq(S), Len(s) >= 1
  PROVE  /\ SubSeq(s, 1, Len(s) - 1) \in Seq(S) /\ s[Len(s)] \in S
         /\ s = Append(SubSeq(s, 1, Len(s) - 1), s[Len(s)])
<1>1. Len(s) \in Nat /\ 1 \in Int /\ Len(s) - 1 \in Int
      /\ \A k \in 1..(Len(s) - 1) : s[k] \in S
  OBVIOUS
<1>2. s[Len(s)] \in S
  OBVIOUS
<1> DEFINE t == SubSeq(s, 1, Len(s) - 1)
<1>3. /\ t \in Seq(S) /\ Len(t) = IF 1 <= Len(s) - 1 THEN Len(s) - 1 - 1 + 1 ELSE 0
      /\ \A k \in 1..(Len(s) - 1 - 1 + 1) : t[k] = s[1 + k - 1]
  BY ONLY <1>1, SubSeqProperties
<1> HIDE DEF t
<1>4. s = Append(t, s[Len(s)])
  BY <1>1, <1>2, <1>3
<1> QED BY <1>2, <1>3, <1>4 DEF t

LEMMA AppendedFront ==
  ASSUME NEW S, NEW s \in Seq(S), NEW x \in S
  PROVE  /\ Append(s, x) \in Seq(S) /\ Len(Append(s, x)) = Len(s) + 1
         /\ Append(s, x)[Len(s) + 1] = x /\ SubSeq(Append(s, x), 1, Len(s)) = s
OBVIOUS

LEMMA SameFront ==
  ASSUME NEW S, NEW s \in Seq(S), NEW t \in Seq(S), NEW n \in Int, n <= Len(s), n <= Len(t),
         \A k \in 1..n : s[k] = t[k]
  PROVE  SubSeq(s, 1, n) = SubSeq(t, 1, n)
<1>1. 1 \in Int /\ (\A k \in 1..n : s[k] \in S /\ t[k] \in S)
  OBVIOUS
<1> DEFINE u == SubSeq(s, 1, n)
           v == SubSeq(t, 1, n)
<1>2. /\ u \in Seq(S) /\ Len(u) = IF 1 <= n THEN n - 1 + 1 ELSE 0
      /\ \A k \in 1..(n - 1 + 1) : u[k] = s[1 + k - 1]
  BY ONLY <1>1, n \in Int, s \in Seq(S), SubSeqProperties
<1>3. /\ v \in Seq(S) /\ Len(v) = IF 1 <= n THEN n - 1 + 1 ELSE 0
      /\ \A k \in 1..(n - 1 + 1) : v[k] = t[1 + k - 1]
  BY ONLY <1>1, n \in Int, t \in Seq(S), SubSeqProperties
<1> HIDE DEF u, v
<1>4. Len(u) = Len(v) /\ \A k \in 1..Len(u) : u[k] = v[k]
  BY <1>2, <1>3
<1>5. u = v
  BY ONLY <1>2, <1>3, <1>4, SeqEqual
<1> QED BY <1>5 DEF u, v

LEMMA ChangeLast ==
  ASSUME NEW S, NEW s \in Seq(S), Len(s) >= 1, NEW x \in S,
         NEW t, t = [s EXCEPT ![Len(s)] = x]
  PROVE  /\ t \in Seq(S) /\ Len(t) = Len(s) /\ t[Len(s)] = x
         /\ SubSeq(t, 1, Len(s) - 1) = SubSeq(s, 1, Len(s) - 1)
<1>1. t \in Seq(S) /\ Len(t) = Len(s) /\ t[Len(s)] = x
      /\ \A k \in 1..(Len(s) - 1) : t[k] = s[k]
  BY ExceptSeq
<1>2. SubSeq(t, 1, Len(s) - 1) = SubSeq(s, 1, Len(s) - 1)
  <2>. Len(s) \in Nat
    OBVIOUS
  <2>1. Len(s) - 1 \in Int /\ Len(s) - 1 <= Len(s) /\ Len(s) - 1 <= Len(t)
    BY ONLY <1>1, Len(s) \in Nat
  <2> DEFINE n == Len(s) - 1
  <2>2. n \in Int /\ n <= Len(s) /\ n <= Len(t) /\ s \in Seq(S) /\ t \in Seq(S)
        /\ \A k \in 1..n : s[k] = t[k]
    BY <1>1, <2>1
  <2> HIDE DEF n
  <2>3. SubSeq(s, 1, n) = SubSeq(t, 1, n)
    BY ONLY <2>2, SameFront
  <2> QED BY <2>3 DEF n
<1> QED BY <1>1, <1>2

(* A step of the split, by the closed lines and the last.                  *)
LEMMA SplitStepIs ==
  ASSUME NEW lines \in FileLines, NEW piece \in Pieces
  PROVE  /\ SplitStep(0, lines, piece) \in FileLines
         /\ lines = Append(Closed(lines), LastOf(lines))
         /\ Closed(lines) \in Seq(Seq(Pieces)) /\ LastOf(lines) \in Seq(Pieces)
         /\ IF piece = NewLine
            THEN /\ Closed(SplitStep(0, lines, piece)) = lines
                 /\ LastOf(SplitStep(0, lines, piece)) = <<>>
            ELSE /\ Closed(SplitStep(0, lines, piece)) = Closed(lines)
                 /\ LastOf(SplitStep(0, lines, piece)) = Append(LastOf(lines), piece)
<1>1. lines \in Seq(Seq(Pieces)) /\ Len(lines) >= 1 /\ Len(lines) \in Nat
  BY DEF FileLines
<1>2. /\ Closed(lines) \in Seq(Seq(Pieces)) /\ LastOf(lines) \in Seq(Pieces)
      /\ lines = Append(Closed(lines), LastOf(lines))
  BY ONLY <1>1, FrontAndLast DEF Closed, LastOf
<1> DEFINE t == SplitStep(0, lines, piece)
<1>3. CASE piece = NewLine
  <2>1. t = Append(lines, <<>>) /\ <<>> \in Seq(Pieces)
    BY <1>3 DEF SplitStep
  <2> HIDE DEF t
  <2>2. /\ t \in Seq(Seq(Pieces)) /\ Len(t) = Len(lines) + 1
        /\ t[Len(lines) + 1] = <<>> /\ SubSeq(t, 1, Len(lines)) = lines
    BY ONLY <1>1, <2>1, AppendedFront
  <2>3. Len(t) - 1 = Len(lines) /\ Len(t) >= 1
    BY <1>1, <2>2
  <2>4. t \in FileLines /\ Closed(t) = lines /\ LastOf(t) = <<>>
    BY <2>2, <2>3 DEF FileLines, Closed, LastOf
  <2> QED BY <1>2, <1>3, <2>4 DEF t
<1>4. CASE piece # NewLine
  <2>1. LastOf(lines) = lines[Len(lines)] /\ Append(LastOf(lines), piece) \in Seq(Pieces)
    BY <1>2 DEF LastOf
  <2>2. t = [lines EXCEPT ![Len(lines)] = Append(LastOf(lines), piece)]
    BY <1>4, <2>1 DEF SplitStep
  <2> HIDE DEF t
  <2>3. /\ t \in Seq(Seq(Pieces)) /\ Len(t) = Len(lines)
        /\ t[Len(lines)] = Append(LastOf(lines), piece)
        /\ SubSeq(t, 1, Len(lines) - 1) = SubSeq(lines, 1, Len(lines) - 1)
    BY ONLY <1>1, <2>1, <2>2, ChangeLast
  <2>4. t \in FileLines /\ Closed(t) = Closed(lines) /\ LastOf(t) = Append(LastOf(lines), piece)
    BY <1>1, <2>3 DEF FileLines, Closed, LastOf
  <2> QED BY <1>2, <1>4, <2>4 DEF t
<1> QED BY <1>2, <1>3, <1>4

LEMMA LinesTyped ==
  ASSUME NEW file \in Seq(Pieces)
  PROVE  Lines(file) \in FileLines
<1>1. << <<>> >> \in FileLines
  BY DEF FileLines
<1>2. \A lines \in FileLines, piece \in Pieces : SplitStep(0, lines, piece) \in FileLines
  BY SplitStepIs
<1> QED BY <1>1, <1>2, LinesIsSplit, Split!ThroughStaysIn

LEMMA LinesOneMore ==
  ASSUME NEW file \in Seq(Pieces), NEW piece \in Pieces
  PROVE  Lines(Append(file, piece)) = SplitStep(0, Lines(file), piece)
BY LinesIsSplit, Split!ThroughOneMore

LEMMA LinesOfNone == Lines(<<>>) = << <<>> >>
BY LinesIsSplit, Split!ThroughNone

(* A line is closed, and the next begins empty, at each newline.           *)
LEMMA LinesGrow ==
  ASSUME NEW file \in Seq(Pieces), NEW piece \in Pieces
  PROVE  /\ Append(file, piece) \in Seq(Pieces)
         /\ Lines(file) = Append(Closed(Lines(file)), LastOf(Lines(file)))
         /\ Closed(Lines(file)) \in Seq(Seq(Pieces)) /\ LastOf(Lines(file)) \in Seq(Pieces)
         /\ IF piece = NewLine
            THEN /\ Closed(Lines(Append(file, piece))) = Lines(file)
                 /\ LastOf(Lines(Append(file, piece))) = <<>>
            ELSE /\ Closed(Lines(Append(file, piece))) = Closed(Lines(file))
                 /\ LastOf(Lines(Append(file, piece))) = Append(LastOf(Lines(file)), piece)
<1>1. Append(file, piece) \in Seq(Pieces)
  OBVIOUS
<1>2. Lines(file) \in FileLines
  BY LinesTyped
<1>3. Lines(Append(file, piece)) = SplitStep(0, Lines(file), piece)
  BY LinesOneMore
<1> QED BY <1>1, <1>2, <1>3, SplitStepIs

-----------------------------------------------------------------------------
(* The event log.                                                          *)

KeepLine(p, kept, line) == IF line # <<>> THEN Append(kept, line) ELSE kept

Kept == INSTANCE FoldLaws WITH Step <- KeepLine, Base <- LAMBDA p : <<>>

LEMMA NotBlankIsKept == ASSUME NEW lines PROVE NotBlank(lines) = Kept!Result(0, lines)
BY DEF NotBlank, Filter, Kept!Result, Kept!Through, Through, KeepLine

LEMMA NotBlankGrows ==
  ASSUME NEW lines \in Seq(Seq(Pieces)), NEW line \in Seq(Pieces)
  PROVE  /\ NotBlank(lines) \in Seq(Seq(Pieces))
         /\ NotBlank(Append(lines, line)) =
              IF line # <<>> THEN Append(NotBlank(lines), line) ELSE NotBlank(lines)
<1>1. \A kept \in Seq(Seq(Pieces)), l \in Seq(Pieces) : KeepLine(0, kept, l) \in Seq(Seq(Pieces))
  BY DEF KeepLine
<1>2. Kept!Result(0, lines) \in Seq(Seq(Pieces))
  <2> DEFINE S == Seq(Pieces)
             D == Seq(S)
  <2>1. <<>> \in D /\ (\A kept \in D, l \in S : KeepLine(0, kept, l) \in D) /\ lines \in Seq(S)
    BY <1>1
  <2> HIDE DEF S, D
  <2>2. \A seq \in Seq(S) : Kept!Result(0, seq) \in D
    BY ONLY <2>1, Kept!ThroughStaysIn
  <2> QED BY <2>1, <2>2 DEF S, D
<1>3. Kept!Result(0, Append(lines, line)) = KeepLine(0, Kept!Result(0, lines), line)
  BY Kept!ThroughOneMore
<1> QED BY <1>2, <1>3, NotBlankIsKept DEF KeepLine

(* What load() makes of the lines that are not blank.                      *)
OneText(line) == Len(line) = 1 /\ line[1].kind = "json"
AllTexts(read) == \A k \in DOMAIN read : OneText(read[k])
TextsOf(read) == [k \in DOMAIN read |-> read[k][1].of]

LEMMA ReadOneMore ==
  ASSUME NEW read \in Seq(Seq(Pieces)), NEW line \in Seq(Pieces)
  PROVE  /\ AllTexts(Append(read, line)) <=> AllTexts(read) /\ OneText(line)
         /\ TextsOf(Append(read, line)) = Append(TextsOf(read), line[1].of)
<1> DEFINE more == Append(read, line)
<1>1. /\ Len(read) \in Nat /\ DOMAIN read = 1..Len(read) /\ DOMAIN more = 1..(Len(read) + 1)
      /\ more[Len(read) + 1] = line /\ \A k \in 1..Len(read) : more[k] = read[k]
  OBVIOUS
<1>2. 1..(Len(read) + 1) = 1..Len(read) \cup {Len(read) + 1}
  BY <1>1
<1> HIDE DEF more
<1>3. AllTexts(more) <=> AllTexts(read) /\ OneText(line)
  BY <1>1, <1>2 DEF AllTexts
<1>4. TextsOf(more) = Append(TextsOf(read), line[1].of)
  <2> DEFINE Of(k) == read[k][1].of
             last == line[1].of
  <2>1. TextsOf(read) = [k \in 1..Len(read) |-> Of(k)]
    BY <1>1 DEF TextsOf
  <2>2. TextsOf(more) = [k \in 1..(Len(read) + 1) |-> IF k = Len(read) + 1 THEN last ELSE Of(k)]
    BY <1>1, <1>2 DEF TextsOf
  <2> HIDE DEF Of, last
  <2>3. Append([k \in 1..Len(read) |-> Of(k)], last)
          = [k \in 1..(Len(read) + 1) |-> IF k = Len(read) + 1 THEN last ELSE Of(k)]
    BY <1>1
  <2> QED BY <2>1, <2>2, <2>3 DEF last
<1> QED BY <1>3, <1>4 DEF more

(* One more piece of text: the last line becomes longer, or there is one.  *)
LEMMA EventPiece ==
  ASSUME NEW file \in Seq(Pieces), NEW piece \in Pieces, piece # NewLine,
         AllTexts(NotBlank(Lines(Append(file, piece))))
  PROVE  /\ piece.kind = "json"
         /\ AllTexts(NotBlank(Lines(file)))
         /\ TextsOf(NotBlank(Lines(Append(file, piece))))
              = Append(TextsOf(NotBlank(Lines(file))), piece.of)
<1> DEFINE more == Append(file, piece)
           closed == Closed(Lines(file))
           last == LastOf(Lines(file))
<1>1. /\ closed \in Seq(Seq(Pieces)) /\ last \in Seq(Pieces)
      /\ Lines(file) = Append(closed, last)
      /\ more \in Seq(Pieces) /\ Closed(Lines(more)) = closed
      /\ LastOf(Lines(more)) = Append(last, piece)
  BY LinesGrow
<1>2. Lines(more) = Append(closed, Append(last, piece))
  <2> HIDE DEF more
  <2> QED BY <1>1, LinesGrow
<1> HIDE DEF more, closed, last
<1>3. Append(last, piece) \in Seq(Pieces) /\ Append(last, piece) # <<>>
      /\ (Len(Append(last, piece)) = 1 => last = <<>>) /\ <<>> \in Seq(Pieces)
      /\ (last = <<>> => Append(last, piece)[1] = piece)
  BY <1>1
<1>4. NotBlank(Lines(more)) = Append(NotBlank(closed), Append(last, piece))
      /\ NotBlank(closed) \in Seq(Seq(Pieces))
  BY <1>1, <1>2, <1>3, NotBlankGrows
<1>5. AllTexts(NotBlank(closed)) /\ OneText(Append(last, piece))
  <2>1. AllTexts(NotBlank(Lines(more)))
    BY DEF more
  <2> DEFINE line == Append(last, piece)
             read == NotBlank(closed)
  <2>2. line \in Seq(Pieces) /\ read \in Seq(Seq(Pieces)) /\ AllTexts(Append(read, line))
    BY <1>3, <1>4, <2>1
  <2> HIDE DEF line, read
  <2>3. AllTexts(read) /\ OneText(line)
    BY ONLY <2>2, ReadOneMore
  <2> QED BY <2>3 DEF line, read
<1>6. last = <<>> /\ piece.kind = "json"
  BY <1>3, <1>5 DEF OneText
<1>7. NotBlank(Lines(file)) = NotBlank(closed)
  BY <1>1, <1>6, NotBlankGrows
<1>8. TextsOf(NotBlank(Lines(more))) = Append(TextsOf(NotBlank(closed)), piece.of)
  BY <1>3, <1>4, <1>6, ReadOneMore
<1> QED BY <1>5, <1>6, <1>7, <1>8 DEF more

(* A newline changes nothing that is read.                                 *)
LEMMA EventNewLine ==
  ASSUME NEW file \in Seq(Pieces)
  PROVE  NotBlank(Lines(Append(file, NewLine))) = NotBlank(Lines(file))
<1> DEFINE more == Append(file, NewLine)
<1>1. /\ Lines(file) \in Seq(Seq(Pieces)) /\ more \in Seq(Pieces)
      /\ Closed(Lines(more)) = Lines(file) /\ LastOf(Lines(more)) = <<>>
  BY LinesGrow, LinesTyped, PieceTypes DEF FileLines
<1> HIDE DEF more
<1>2. Lines(more) = Append(Lines(file), <<>>) /\ <<>> \in Seq(Pieces)
  BY <1>1, LinesGrow, PieceTypes
<1>3. NotBlank(Lines(more)) = NotBlank(Lines(file))
  BY <1>1, <1>2, NotBlankGrows
<1> QED BY <1>3 DEF more

LEMMA ReverseIs ==
  ASSUME NEW S, NEW s \in Seq(S)
  PROVE  /\ Reverse(s) \in Seq(S) /\ Len(Reverse(s)) = Len(s)
         /\ \A k \in 1..Len(s) : Reverse(s)[k] = s[Len(s) - k + 1]
<1>1. Len(s) \in Nat /\ \A k \in 1..Len(s) : s[Len(s) - k + 1] \in S
  OBVIOUS
<1>2. Reverse(s) \in [1..Len(s) -> S]
  BY <1>1 DEF Reverse
<1>3. Reverse(s) \in Seq(S) /\ Len(Reverse(s)) = Len(s)
  BY <1>1, <1>2
<1> QED BY <1>3 DEF Reverse

LEMMA RestIsSuffix ==
  ASSUME NEW S, NEW s \in Seq(S), NEW m \in Nat \ {0}
  PROVE  /\ IsSuffix(SubSeq(s, m, Len(s)), s)
         /\ Len(SubSeq(s, m, Len(s))) = IF m <= Len(s) THEN Len(s) - m + 1 ELSE 0
<1> DEFINE n == Len(s)
           rest == SubSeq(s, m, n)
<1>1. n \in Int /\ n \in Nat /\ m \in Int /\ (\A k \in m..n : s[k] \in S) /\ s \in Seq(S)
  OBVIOUS
<1>2. /\ rest \in Seq(S) /\ Len(rest) = (IF m <= n THEN n - m + 1 ELSE 0)
      /\ \A k \in 1..(n - m + 1) : rest[k] = s[m + k - 1]
  BY ONLY <1>1, SubSeqProperties
<1> HIDE DEF rest
<1>3. Len(rest) \in Nat /\ Len(rest) <= n
  BY <1>1, <1>2
<1>4. /\ Reverse(rest) \in Seq(S) /\ Len(Reverse(rest)) = Len(rest)
      /\ \A k \in 1..Len(rest) : Reverse(rest)[k] = rest[Len(rest) - k + 1]
  BY <1>2, ReverseIs
<1>5. /\ Reverse(s) \in Seq(S) /\ Len(Reverse(s)) = n
      /\ \A k \in 1..n : Reverse(s)[k] = s[n - k + 1]
  BY ReverseIs
<1> HIDE DEF n
<1>6. ASSUME NEW k \in 1..Len(rest) PROVE Reverse(rest)[k] = Reverse(s)[k]
  <2>1. m <= n /\ Len(rest) = n - m + 1 /\ k \in 1..n
    BY <1>1, <1>2, <1>3
  <2>2. Len(rest) - k + 1 \in 1..(n - m + 1) /\ m + (Len(rest) - k + 1) - 1 = n - k + 1
    BY <1>1, <2>1
  <2>3. rest[Len(rest) - k + 1] = s[n - k + 1]
    BY <1>2, <2>2
  <2> QED BY <1>4, <1>5, <2>1, <2>3
<1>7. SubSeq(Reverse(rest), 1, Len(rest)) = SubSeq(Reverse(s), 1, Len(rest))
  <2> DEFINE u == Reverse(rest)
             v == Reverse(s)
             len == Len(rest)
  <2>1. u \in Seq(S) /\ v \in Seq(S) /\ len \in Int /\ len <= Len(u) /\ len <= Len(v)
        /\ \A k \in 1..len : u[k] = v[k]
    BY <1>3, <1>4, <1>5, <1>6
  <2> HIDE DEF u, v, len
  <2>2. SubSeq(u, 1, len) = SubSeq(v, 1, len)
    BY ONLY <2>1, SameFront
  <2> QED BY <2>2 DEF u, v, len
<1>8. IsSuffix(rest, s)
  BY <1>3, <1>4, <1>5, <1>7 DEF IsSuffix, IsPrefix
<1> QED BY <1>2, <1>8 DEF rest, n

(* The newest `limit` events, behind the first `offset` of them.           *)
LEMMA PageIs ==
  ASSUME NEW S, NEW loaded \in Seq(S), NEW limit \in Nat, NEW offset \in Nat
  PROVE  LET shown == Lesser(limit, Len(loaded))
         IN /\ IsSuffix(Page(loaded, limit, offset), loaded)
            /\ Len(Page(loaded, limit, offset)) = IF shown > offset THEN shown - offset ELSE 0
<1> DEFINE n == Len(loaded)
           older == IF n > limit THEN n - limit ELSE 0
           m == older + offset + 1
<1>1. n \in Nat /\ older \in Nat /\ m \in Nat \ {0} /\ Lesser(limit, n) = n - older
  BY DEF Lesser
<1>2. Page(loaded, limit, offset) = SubSeq(loaded, m, Len(loaded))
  BY DEF Page
<1> HIDE DEF m
<1>3. /\ IsSuffix(SubSeq(loaded, m, Len(loaded)), loaded)
      /\ Len(SubSeq(loaded, m, Len(loaded))) = (IF m <= n THEN n - m + 1 ELSE 0)
  BY <1>1, RestIsSuffix
<1>4. (IF m <= n THEN n - m + 1 ELSE 0)
        = IF Lesser(limit, n) > offset THEN Lesser(limit, n) - offset ELSE 0
  BY <1>1 DEF m
<1> QED BY <1>2, <1>3, <1>4

(* The invariant of the event log.                                         *)
EventLog ==
  /\ event_file \in Seq(Pieces) /\ attempted \in Seq(Event)
  /\ Loads => Loaded = attempted

LEMMA EventLogInit == Init => EventLog
<1> SUFFICES ASSUME Init PROVE EventLog
  OBVIOUS
<1>1. event_file = <<>> /\ attempted = <<>>
  BY DEF Init
<1>2. ReadEvents = <<>>
  <2>1. Lines(event_file) = Append(<<>>, <<>>) /\ <<>> \in Seq(Seq(Pieces)) /\ <<>> \in Seq(Pieces)
    BY <1>1, LinesOfNone
  <2>2. NotBlank(<<>>) = <<>>
    BY NotBlankIsKept, Kept!ThroughNone
  <2> QED BY <2>1, <2>2, NotBlankGrows DEF ReadEvents
<1>3. Loaded = attempted
  BY <1>1, <1>2 DEF Loaded
<1> QED BY <1>1, <1>3 DEF EventLog

(* What is left of an event: nothing, its text, or a part of the text.     *)
LEMMA TornEvent ==
  ASSUME NEW e \in Event, NEW part \in Torn(Line(e)) \ {<<>>}
  PROVE  part \in {<<Piece("json", e)>>, <<Cut>>}
<1> DEFINE json == Piece("json", e)
<1>1. Line(e) = <<json, NewLine>>
  BY DEF Line
<1> HIDE DEF json
<1>2. Len(<<json, NewLine>>) = 2
  OBVIOUS
<1>3. SubSeq(<<json, NewLine>>, 1, 0) = <<>> /\ SubSeq(<<json, NewLine>>, 1, 1) = <<json>>
  <2> DEFINE two == <<json, NewLine>>
             S == {json, NewLine}
  <2>1. (\A k \in 1..1 : two[k] \in S) /\ two[1] = json
    OBVIOUS
  <2> HIDE DEF two, S
  <2> DEFINE one == SubSeq(two, 1, 1)
  <2>2. one \in Seq(S) /\ Len(one) = 1 /\ one[1] = two[1]
    BY <2>1, SubSeqProperties
  <2> HIDE DEF one
  <2>3. one = <<json>>
    BY <2>1, <2>2
  <2> QED BY <2>3, SubSeqEmpty DEF one, two
<1>4. Append(<<>>, Cut) = <<Cut>> /\ <<json, NewLine>>[2] = NewLine
  OBVIOUS
<1>5. 0..(2 - 1) = {0, 1} /\ 1 + 1 = 2 /\ 0 + 1 = 1
  OBVIOUS
<1> QED BY <1>1, <1>2, <1>3, <1>4, <1>5 DEF Torn, json

LEMMA EventLogStep == EventLog /\ [Next]_vars => EventLog'
<1> SUFFICES ASSUME EventLog, [Next]_vars PROVE EventLog'
  OBVIOUS
<1>1. CASE UNCHANGED events
  BY <1>1 DEF EventLog, events, Loads, Loaded, ReadEvents
<1>2. ASSUME NEW e \in Event, AppendEvent(e) PROVE EventLog'
  <2> DEFINE json == Piece("json", e)
             file == event_file
  <2>1. file \in Seq(Pieces) /\ json \in Pieces /\ NewLine \in Pieces /\ Cut \in Pieces
        /\ json # NewLine /\ Cut # NewLine
    BY PieceTypes DEF EventLog
  <2>2. json.kind = "json" /\ json.of = e /\ Cut.kind # "json"
    BY DEF Piece, Cut
  <2>3. attempted' = Append(attempted, e) /\ attempted' \in Seq(Event)
    BY <1>2 DEF AppendEvent, EventLog
  <2>4. \/ event_file' = file \o <<json, NewLine>>
        \/ event_file' = file \o <<json>>
        \/ event_file' = file \o <<Cut>>
    BY <1>2, TornEvent DEF AppendEvent, Line
  <2> HIDE DEF json, file
  <2>5. /\ Append(file, json) \in Seq(Pieces) /\ Append(file, Cut) \in Seq(Pieces)
        /\ Append(Append(file, json), NewLine) \in Seq(Pieces)
        /\ file \o <<json, NewLine>> = Append(Append(file, json), NewLine)
        /\ file \o <<json>> = Append(file, json)
        /\ file \o <<Cut>> = Append(file, Cut)
    BY <2>1
  <2>6. event_file' \in Seq(Pieces)
    BY <2>4, <2>5
  <2>7. ASSUME Loads' PROVE Loaded' = attempted'
    <3>1. AllTexts(NotBlank(Lines(event_file')))
      BY <2>7 DEF Loads, ReadEvents, AllTexts, OneText
    <3>2. NotBlank(Lines(event_file')) = NotBlank(Lines(Append(file, json)))
      <4>1. CASE event_file' = Append(Append(file, json), NewLine)
        BY <2>5, <4>1, EventNewLine
      <4>2. CASE event_file' = Append(file, json)
        BY <4>2
      <4>3. CASE event_file' = Append(file, Cut)
        BY <2>1, <2>2, <3>1, <4>3, EventPiece
      <4> QED BY <2>4, <2>5, <4>1, <4>2, <4>3
    <3>3. AllTexts(NotBlank(Lines(Append(file, json))))
      BY <3>1, <3>2
    <3>4. /\ AllTexts(NotBlank(Lines(file)))
          /\ TextsOf(NotBlank(Lines(Append(file, json)))) = Append(TextsOf(NotBlank(Lines(file))), e)
      BY <2>1, <2>2, <3>3, EventPiece
    <3>5. Loads
      BY <3>4 DEF Loads, ReadEvents, AllTexts, OneText, file
    <3>6. Loaded = TextsOf(NotBlank(Lines(file))) /\ Loaded = attempted
      BY <3>5 DEF Loaded, ReadEvents, TextsOf, EventLog, file
    <3>7. Loaded' = TextsOf(NotBlank(Lines(event_file')))
      BY DEF Loaded, ReadEvents, TextsOf
    <3> QED BY <2>3, <3>2, <3>4, <3>6, <3>7
  <2> QED BY <2>3, <2>6, <2>7 DEF EventLog
<1>3. ASSUME ~(\E e \in Event : AppendEvent(e)) PROVE UNCHANGED events
  BY <1>3 DEF Next, Create, StrReplace, ReplaceNext, ViewHere, Remember, RememberFails,
              RememberHere, vars
<1> QED BY <1>1, <1>2, <1>3

(* load() loses nothing in silence, whatever was written and wherever the  *)
(* writes were cut short: it raises, or it returns every event of which    *)
(* append() wrote anything, in order; and the dashboard's page is the      *)
(* newest of them.                                                         *)
THEOREM NothingLostInSilence == Spec => []LoadsAllOrRaises
<1>1. EventLog => LoadsAllOrRaises
  <2> SUFFICES ASSUME EventLog, Loads,
                      NEW limit \in 1..(MaxWrites + 1), NEW offset \in 0..MaxWrites
               PROVE  /\ Loaded = attempted
                      /\ LET page == Page(Loaded, limit, offset)
                             shown == Lesser(limit, Len(attempted))
                         IN /\ IsSuffix(page, attempted)
                            /\ Len(page) = IF shown > offset THEN shown - offset ELSE 0
    <3>1. 1 \in 1..(MaxWrites + 1) /\ 0 \in 0..MaxWrites
      BY PersistenceAssumption
    <3> QED BY <3>1 DEF LoadsAllOrRaises
  <2>1. Loaded = attempted /\ attempted \in Seq(Event)
    BY DEF EventLog
  <2>2. limit \in Nat /\ offset \in Nat
    BY PersistenceAssumption
  <2> QED BY <2>1, <2>2, PageIs
<1> QED BY <1>1, EventLogInit, EventLogStep, PTL DEF Spec

-----------------------------------------------------------------------------
(* The turns: a reader of the file, piece by piece. It has parsed the      *)
(* lines that are closed, and holds the pieces of the line that is not.    *)

ParseStep(p, state, line) == ParseLine(state, line)
Start == [open |-> FALSE, rows |-> NoRows, parsed |-> <<>>]

Parser == INSTANCE FoldLaws WITH Step <- ParseStep, Base <- LAMBDA p : Start

ParseAll(lines) == Through(ParseLine, Start, lines)
Read(file) == [state |-> ParseAll(Closed(Lines(file))), line |-> LastOf(Lines(file))]

Eat(reader, piece) ==
  IF piece = NewLine
  THEN [state |-> ParseLine(reader.state, reader.line), line |-> <<>>]
  ELSE [state |-> reader.state, line |-> Append(reader.line, piece)]

States == [open : BOOLEAN, rows : Fields, parsed : Seq(Fields)]
Readers == [state : States, line : Seq(Pieces)]

LEMMA ParserIs == ASSUME NEW lines PROVE ParseAll(lines) = Parser!Result(0, lines)
BY DEF ParseAll, Parser!Result, Parser!Through, Through, ParseStep

LEMMA StartTyped == NoRows \in Fields /\ Start \in States
BY DEF Start, States, Fields, Field, NoRows, Turn

LEMMA RowTyped ==
  ASSUME NEW rows \in Fields, NEW line \in Seq(Pieces)
  PROVE  ReadRow(rows, line) \in Fields
<1>1. CASE line = <<>> \/ line[1].kind \notin {"user", "assistant"}
  BY <1>1 DEF ReadRow
<1>2. CASE line # <<>> /\ line[1].kind \in {"user", "assistant"}
  <2>1. line[1] \in Pieces
    BY <1>2
  <2>2. line[1].of \in Field
    BY <1>2, <2>1 DEF Pieces
  <2>3. Garbage \in Field
    BY DEF Field
  <2>4. ReadRow(rows, line)
          = [rows EXCEPT ![line[1].kind] = IF Len(line) = 1 THEN line[1].of ELSE Garbage]
    BY <1>2 DEF ReadRow
  <2> QED BY <1>2, <2>2, <2>3, <2>4 DEF Fields
<1> QED BY <1>1, <1>2

LEMMA ParseTyped ==
  ASSUME NEW state \in States, NEW line \in Seq(Pieces)
  PROVE  ParseLine(state, line) \in States
<1>1. state.rows \in Fields /\ ReadRow(state.rows, line) \in Fields /\ NoRows \in Fields
  BY RowTyped, StartTyped DEF States
<1>2. Append(state.parsed, state.rows) \in Seq(Fields) /\ state.parsed \in Seq(Fields)
  BY <1>1 DEF States
<1> QED BY <1>1, <1>2 DEF ParseLine, States

LEMMA ParseOneMore ==
  ASSUME NEW lines \in Seq(Seq(Pieces)), NEW line \in Seq(Pieces)
  PROVE  /\ ParseAll(lines) \in States
         /\ ParseAll(Append(lines, line)) = ParseLine(ParseAll(lines), line)
<1>1. \A seq \in Seq(Seq(Pieces)) : Parser!Result(0, seq) \in States
  <2> DEFINE S == Seq(Pieces)
  <2>1. Start \in States /\ \A state \in States, l \in S : ParseStep(0, state, l) \in States
    BY StartTyped, ParseTyped DEF ParseStep
  <2> HIDE DEF S
  <2>2. \A seq \in Seq(S) : Parser!Result(0, seq) \in States
    BY ONLY <2>1, Parser!ThroughStaysIn
  <2> QED BY <2>2 DEF S
<1>2. Parser!Result(0, Append(lines, line)) = ParseStep(0, Parser!Result(0, lines), line)
  BY Parser!ThroughOneMore
<1> QED BY <1>1, <1>2, ParserIs DEF ParseStep

LEMMA ReadTyped == ASSUME NEW file \in Seq(Pieces) PROVE Read(file) \in Readers
<1>1. Closed(Lines(file)) \in Seq(Seq(Pieces)) /\ LastOf(Lines(file)) \in Seq(Pieces)
  BY LinesGrow, PieceTypes
<1>2. ParseAll(Closed(Lines(file))) \in States
  BY <1>1, ParseOneMore
<1> QED BY <1>1, <1>2 DEF Read, Readers

LEMMA ReadNone == Read(<<>>) = [state |-> Start, line |-> <<>>]
<1>1. Closed(<< <<>> >>) = <<>> /\ LastOf(<< <<>> >>) = <<>>
  BY SubSeqEmpty DEF Closed, LastOf
<1>2. ParseAll(<<>>) = Start
  BY ParserIs, Parser!ThroughNone
<1> QED BY <1>1, <1>2, LinesOfNone DEF Read

LEMMA ReadOnePiece ==
  ASSUME NEW file \in Seq(Pieces), NEW piece \in Pieces
  PROVE  Read(Append(file, piece)) = Eat(Read(file), piece)
<1> DEFINE more == Append(file, piece)
           closed == Closed(Lines(file))
           last == LastOf(Lines(file))
<1>1. /\ closed \in Seq(Seq(Pieces)) /\ last \in Seq(Pieces)
      /\ Lines(file) = Append(closed, last)
      /\ IF piece = NewLine
         THEN Closed(Lines(more)) = Lines(file) /\ LastOf(Lines(more)) = <<>>
         ELSE Closed(Lines(more)) = closed /\ LastOf(Lines(more)) = Append(last, piece)
  BY LinesGrow
<1>2. Read(file) = [state |-> ParseAll(closed), line |-> last]
  BY DEF Read
<1>3. Read(more) = [state |-> ParseAll(Closed(Lines(more))), line |-> LastOf(Lines(more))]
  BY DEF Read
<1> HIDE DEF more, closed, last
<1>4. ParseAll(Append(closed, last)) = ParseLine(ParseAll(closed), last)
  BY <1>1, ParseOneMore
<1>5. Read(more) = Eat(Read(file), piece)
  <2>1. CASE piece = NewLine
    <3>1. Read(more) = [state |-> ParseAll(Append(closed, last)), line |-> <<>>]
      BY <1>1, <1>3, <2>1
    <3>2. Read(file).state = ParseAll(closed) /\ Read(file).line = last
      BY <1>2
    <3> QED BY <1>4, <2>1, <3>1, <3>2 DEF Eat
  <2>2. CASE piece # NewLine
    <3>1. Read(more) = [state |-> ParseAll(closed), line |-> Append(last, piece)]
      BY <1>1, <1>3, <2>2
    <3>2. Read(file).state = ParseAll(closed) /\ Read(file).line = last
      BY <1>2
    <3> QED BY <2>2, <3>1, <3>2 DEF Eat
  <2> QED BY <2>1, <2>2
<1> QED BY <1>5 DEF more

(* What is recalled is what the reader has at the end of the file.         *)
LEMMA ParsedIs ==
  ASSUME turn_file \in Seq(Pieces)
  PROVE  Parsed = ParseLine(Read(turn_file).state, Read(turn_file).line).parsed
<1> DEFINE closed == Closed(Lines(turn_file))
           last == LastOf(Lines(turn_file))
<1>1. closed \in Seq(Seq(Pieces)) /\ last \in Seq(Pieces) /\ Lines(turn_file) = Append(closed, last)
  BY LinesGrow, PieceTypes
<1>2. Read(turn_file).state = ParseAll(closed) /\ Read(turn_file).line = last
  BY DEF Read
<1>3. Parsed = ParseAll(Lines(turn_file)).parsed
  BY DEF Parsed, ParseAll, Start
<1> HIDE DEF closed, last
<1>4. ParseAll(Append(closed, last)) = ParseLine(ParseAll(closed), last)
  BY <1>1, ParseOneMore
<1> QED BY <1>1, <1>2, <1>3, <1>4

(* The part of a write behind its first k pieces.                          *)
LEMMA ReadOn ==
  ASSUME NEW file \in Seq(Pieces), NEW part \in Seq(Pieces), NEW k \in Nat, k < Len(part)
  PROVE  /\ file \o SubSeq(part, 1, k) \in Seq(Pieces) /\ part[k + 1] \in Pieces
         /\ Read(file \o SubSeq(part, 1, k + 1)) = Eat(Read(file \o SubSeq(part, 1, k)), part[k + 1])
<1> DEFINE front == SubSeq(part, 1, k)
           piece == part[k + 1]
<1>1. front \in Seq(Pieces) /\ piece \in Pieces
  OBVIOUS
<1>2. SubSeq(part, 1, k + 1) = Append(front, piece)
  OBVIOUS
<1> HIDE DEF front, piece
<1>3. file \o front \in Seq(Pieces) /\ file \o Append(front, piece) = Append(file \o front, piece)
  BY <1>1
<1>4. Read(Append(file \o front, piece)) = Eat(Read(file \o front), piece)
  BY <1>1, <1>3, ReadOnePiece
<1> QED BY <1>1, <1>2, <1>3, <1>4 DEF front, piece

-----------------------------------------------------------------------------
(* What a line does to the parser.                                         *)

(* Two sequences, one behind the other.                                    *)
LEMMA ConcatAt ==
  ASSUME NEW S, NEW x \in Seq(S), NEW y \in Seq(S), NEW z, z = x \o y
  PROVE  /\ z \in Seq(S) /\ Len(z) = Len(x) + Len(y)
         /\ \A k \in 1..Len(x) : z[k] = x[k]
         /\ \A k \in 1..Len(y) : z[Len(x) + k] = y[k]
<1>1. /\ z \in Seq(S) /\ Len(z) = Len(x) + Len(y)
      /\ \A k \in 1..(Len(x) + Len(y)) : z[k] = IF k <= Len(x) THEN x[k] ELSE y[k - Len(x)]
  BY ConcatProperties
<1>2. Len(x) \in Nat /\ Len(y) \in Nat
  OBVIOUS
<1>3. ASSUME NEW k \in 1..Len(x) PROVE z[k] = x[k]
  BY <1>1, <1>2
<1>4. ASSUME NEW k \in 1..Len(y) PROVE z[Len(x) + k] = y[k]
  <2>1. Len(x) + k \in 1..(Len(x) + Len(y)) /\ ~(Len(x) + k <= Len(x)) /\ (Len(x) + k) - Len(x) = k
    BY <1>2
  <2> QED BY <1>1, <2>1
<1> QED BY <1>1, <1>3, <1>4

OpenState(rows, parsed) == [open |-> TRUE, rows |-> rows, parsed |-> parsed]
ClosedState(rows, parsed) == [open |-> FALSE, rows |-> rows, parsed |-> parsed]
WithTurn(parsed, turn) == IF IsEmpty(turn) THEN parsed ELSE Append(parsed, turn)

LEMMA StateIs ==
  ASSUME NEW state \in States
  PROVE  /\ state.open => state = OpenState(state.rows, state.parsed)
         /\ ~state.open => state = ClosedState(state.rows, state.parsed)
         /\ state.open \in BOOLEAN /\ state.rows \in Fields /\ state.parsed \in Seq(Fields)
BY DEF States, OpenState, ClosedState

LEMMA StateParts ==
  ASSUME NEW rows, NEW parsed
  PROVE  /\ OpenState(rows, parsed).open
         /\ OpenState(rows, parsed).rows = rows /\ OpenState(rows, parsed).parsed = parsed
         /\ ~ClosedState(rows, parsed).open
         /\ ClosedState(rows, parsed).rows = rows /\ ClosedState(rows, parsed).parsed = parsed
BY DEF OpenState, ClosedState

LEMMA SetParts ==
  ASSUME NEW open, NEW rows, NEW parsed, NEW value, NEW state,
         state = [open |-> open, rows |-> rows, parsed |-> parsed]
  PROVE  /\ [state EXCEPT !.open = value] = [open |-> value, rows |-> rows, parsed |-> parsed]
         /\ [state EXCEPT !.rows = value] = [open |-> open, rows |-> value, parsed |-> parsed]
         /\ [state EXCEPT !.parsed = value] = [open |-> open, rows |-> rows, parsed |-> value]
<1>1. [state EXCEPT !.open = value] = [open |-> value, rows |-> rows, parsed |-> parsed]
  OBVIOUS
<1>2. [state EXCEPT !.rows = value] = [open |-> open, rows |-> value, parsed |-> parsed]
  OBVIOUS
<1>3. [state EXCEPT !.parsed = value] = [open |-> open, rows |-> rows, parsed |-> value]
  OBVIOUS
<1> QED BY <1>1, <1>2, <1>3

LEMMA SetRows ==
  ASSUME NEW rows, NEW parsed, NEW value
  PROVE  [OpenState(rows, parsed) EXCEPT !.rows = value] = OpenState(value, parsed)
<1> DEFINE yes == TRUE
           state == OpenState(rows, parsed)
<1>1. state = [open |-> yes, rows |-> rows, parsed |-> parsed]
      /\ OpenState(value, parsed) = [open |-> yes, rows |-> value, parsed |-> parsed]
  BY DEF OpenState
<1> HIDE DEF yes, state
<1>2. [state EXCEPT !.rows = value] = [open |-> yes, rows |-> value, parsed |-> parsed]
  BY <1>1, SetParts
<1> QED BY <1>1, <1>2 DEF state

LEMMA Opening ==
  ASSUME NEW rows, NEW parsed, NEW value
  PROVE  [[ClosedState(rows, parsed) EXCEPT !.open = TRUE] EXCEPT !.rows = value]
           = OpenState(value, parsed)
<1> DEFINE no == FALSE
           yes == TRUE
           state == ClosedState(rows, parsed)
           next == [state EXCEPT !.open = yes]
<1>1. state = [open |-> no, rows |-> rows, parsed |-> parsed]
      /\ OpenState(rows, parsed) = [open |-> yes, rows |-> rows, parsed |-> parsed]
  BY DEF OpenState, ClosedState
<1> HIDE DEF no, yes, state
<1>2. next = OpenState(rows, parsed)
  BY <1>1, SetParts
<1> HIDE DEF next
<1>3. [next EXCEPT !.rows = value] = OpenState(value, parsed)
  BY <1>2, SetRows
<1> QED BY <1>3 DEF next, state, yes

LEMMA Closing ==
  ASSUME NEW rows, NEW parsed, NEW value
  PROVE  [[OpenState(rows, parsed) EXCEPT !.open = FALSE] EXCEPT !.parsed = value]
           = ClosedState(rows, value)
<1> DEFINE no == FALSE
           yes == TRUE
           state == OpenState(rows, parsed)
           next == [state EXCEPT !.open = no]
<1>1. state = [open |-> yes, rows |-> rows, parsed |-> parsed]
      /\ ClosedState(rows, value) = [open |-> no, rows |-> rows, parsed |-> value]
  BY DEF OpenState, ClosedState
<1> HIDE DEF no, yes, state
<1>2. next = [open |-> no, rows |-> rows, parsed |-> parsed]
  BY <1>1, SetParts
<1> HIDE DEF next
<1>3. [next EXCEPT !.parsed = value] = ClosedState(rows, value)
  BY <1>1, <1>2, SetParts
<1> QED BY <1>3 DEF next, state, no

LEMMA DelimiterLine ==
  ASSUME NEW rows, NEW parsed
  PROVE  /\ ParseLine(OpenState(rows, parsed), <<Delimiter>>) = ClosedState(rows, WithTurn(parsed, rows))
         /\ ParseLine(ClosedState(rows, parsed), <<Delimiter>>) = OpenState(NoRows, parsed)
<1>1. ParseLine(OpenState(rows, parsed), <<Delimiter>>) = ClosedState(rows, WithTurn(parsed, rows))
  <2> DEFINE state == OpenState(rows, parsed)
             with == WithTurn(parsed, rows)
  <2>1. state.open /\ state.rows = rows /\ state.parsed = parsed
    BY StateParts
  <2> HIDE DEF state
  <2>2. ParseLine(state, <<Delimiter>>) = [[state EXCEPT !.open = FALSE] EXCEPT !.parsed = with]
    BY <2>1 DEF ParseLine, WithTurn
  <2> HIDE DEF with
  <2>3. ParseLine(state, <<Delimiter>>) = ClosedState(rows, with)
    BY <2>2, Closing DEF state
  <2> QED BY <2>3 DEF state, with
<1>2. ParseLine(ClosedState(rows, parsed), <<Delimiter>>) = OpenState(NoRows, parsed)
  <2> DEFINE state == ClosedState(rows, parsed)
  <2>1. ~state.open
    BY StateParts
  <2> HIDE DEF state
  <2>2. ParseLine(state, <<Delimiter>>) = [[state EXCEPT !.open = TRUE] EXCEPT !.rows = NoRows]
    BY <2>1 DEF ParseLine
  <2>3. ParseLine(state, <<Delimiter>>) = OpenState(NoRows, parsed)
    BY <2>2, Opening DEF state
  <2> QED BY <2>3 DEF state
<1> QED BY <1>1, <1>2

LEMMA OtherLine ==
  ASSUME NEW rows, NEW parsed, NEW line, line # <<Delimiter>>
  PROVE  /\ ParseLine(OpenState(rows, parsed), line) = OpenState(ReadRow(rows, line), parsed)
         /\ ParseLine(ClosedState(rows, parsed), line) = ClosedState(rows, parsed)
<1>1. ParseLine(OpenState(rows, parsed), line) = OpenState(ReadRow(rows, line), parsed)
  <2> DEFINE state == OpenState(rows, parsed)
             row == ReadRow(rows, line)
  <2>1. state.open /\ state.rows = rows
    BY StateParts
  <2> HIDE DEF state
  <2>2. ParseLine(state, line) = [state EXCEPT !.rows = row]
    BY <2>1 DEF ParseLine
  <2> HIDE DEF row
  <2>3. ParseLine(state, line) = OpenState(row, parsed)
    BY <2>2, SetRows DEF state
  <2> QED BY <2>3 DEF state, row
<1>2. ParseLine(ClosedState(rows, parsed), line) = ClosedState(rows, parsed)
  <2> DEFINE state == ClosedState(rows, parsed)
  <2>1. ~state.open
    BY StateParts
  <2> HIDE DEF state
  <2>2. ParseLine(state, line) = state
    BY <2>1 DEF ParseLine
  <2> QED BY <2>2 DEF state
<1> QED BY <1>1, <1>2

LEMMA SetField ==
  ASSUME NEW rows \in Fields, NEW of
  PROVE  /\ [rows EXCEPT !["user"] = of] = Turn(of, rows.assistant)
         /\ [rows EXCEPT !["assistant"] = of] = Turn(rows.user, of)
<1>1. ASSUME NEW a, NEW b
      PROVE  [[user |-> a, assistant |-> b] EXCEPT !["user"] = of] = [user |-> of, assistant |-> b]
  OBVIOUS
<1>2. ASSUME NEW a, NEW b
      PROVE  [[user |-> a, assistant |-> b] EXCEPT !["assistant"] = of] = [user |-> a, assistant |-> of]
  OBVIOUS
<1> DEFINE a == rows.user
           b == rows.assistant
<1>3. rows = [user |-> a, assistant |-> b]
  BY DEF Fields
<1> HIDE DEF a, b
<1>4. [rows EXCEPT !["user"] = of] = [user |-> of, assistant |-> b]
  BY ONLY <1>1, <1>3
<1>5. [rows EXCEPT !["assistant"] = of] = [user |-> a, assistant |-> of]
  BY ONLY <1>2, <1>3
<1> QED BY <1>4, <1>5 DEF Turn, a, b

LEMMA RowIs ==
  ASSUME NEW rows \in Fields, NEW of \in Field
  PROVE  /\ ReadRow(rows, <<Piece("user", of)>>) = Turn(of, rows.assistant)
         /\ ReadRow(rows, <<Piece("assistant", of)>>) = Turn(rows.user, of)
         /\ ReadRow(rows, <<Text>>) = rows /\ ReadRow(rows, <<>>) = rows
         /\ <<Piece("user", of)>> # <<Delimiter>> /\ <<Piece("assistant", of)>> # <<Delimiter>>
         /\ <<Text>> # <<Delimiter>> /\ <<>> # <<Delimiter>>
<1>1. /\ Piece("user", of).kind = "user" /\ Piece("user", of).of = of
      /\ Piece("assistant", of).kind = "assistant" /\ Piece("assistant", of).of = of
      /\ Text.kind = "text" /\ Delimiter.kind = "delimiter"
  BY DEF Piece, Text, Delimiter
<1>2. \A x : Len(<<x>>) = 1 /\ <<x>>[1] = x /\ <<x>> # <<>>
  OBVIOUS
<1>3. ReadRow(rows, <<Piece("user", of)>>) = [rows EXCEPT !["user"] = of]
  BY <1>1, <1>2 DEF ReadRow
<1>4. ReadRow(rows, <<Piece("assistant", of)>>) = [rows EXCEPT !["assistant"] = of]
  BY <1>1, <1>2 DEF ReadRow
<1>5. ReadRow(rows, <<Text>>) = rows /\ ReadRow(rows, <<>>) = rows
  BY <1>1, <1>2 DEF ReadRow
<1>6. [rows EXCEPT !["user"] = of] = Turn(of, rows.assistant)
      /\ [rows EXCEPT !["assistant"] = of] = Turn(rows.user, of)
  BY SetField
<1>7. \A x : x.kind # "delimiter" => <<x>> # <<Delimiter>>
  BY <1>1, <1>2
<1> QED BY <1>1, <1>2, <1>3, <1>4, <1>5, <1>6, <1>7

(* A delimiter that runs into other text is garbage in a row.              *)
LEMMA BrokenRow ==
  ASSUME NEW rows \in Fields, NEW line \in Seq(Pieces), line # <<>>, NEW piece \in Pieces
  PROVE  /\ Append(line, piece) # <<Delimiter>> /\ Append(line, piece) \in Seq(Pieces)
         /\ ReadRow(rows, Append(line, piece)) \in
              {rows, Turn(Garbage, rows.assistant), Turn(rows.user, Garbage)}
<1> DEFINE more == Append(line, piece)
<1>1. /\ Len(line) \in Nat /\ Len(line) # 0 /\ Len(more) = Len(line) + 1
      /\ more \in Seq(Pieces) /\ more # <<>>
  OBVIOUS
<1> HIDE DEF more
<1>2. more # <<Delimiter>> /\ Len(more) # 1
  <2>1. Len(more) # 1
    BY <1>1
  <2>2. Len(<<Delimiter>>) = 1
    OBVIOUS
  <2> QED BY <2>1, <2>2
<1>3. \/ ReadRow(rows, more) = rows
      \/ ReadRow(rows, more) = [rows EXCEPT !["user"] = Garbage]
      \/ ReadRow(rows, more) = [rows EXCEPT !["assistant"] = Garbage]
  BY <1>1, <1>2 DEF ReadRow
<1>4. [rows EXCEPT !["user"] = Garbage] = Turn(Garbage, rows.assistant)
      /\ [rows EXCEPT !["assistant"] = Garbage] = Turn(rows.user, Garbage)
  BY SetField
<1> QED BY <1>1, <1>2, <1>3, <1>4 DEF more

-----------------------------------------------------------------------------
(* Reading a chunk.                                                        *)

LEMMA ChunkIs ==
  ASSUME NEW turn \in Fields, NEW chunk, chunk = Chunk(turn)
  PROVE  /\ chunk \in Seq(Pieces)
         /\ Len(chunk) = IF turn.assistant \in Collides THEN 15 ELSE 11
         /\ chunk[1] = Delimiter /\ chunk[2] = NewLine
         /\ chunk[3] = Piece("user", turn.user) /\ chunk[4] = NewLine
         /\ chunk[5] = Piece("assistant", turn.assistant) /\ chunk[6] = NewLine
         /\ chunk[7] = Delimiter /\ chunk[8] = NewLine
         /\ chunk[9] = Text /\ chunk[10] = NewLine
         /\ IF turn.assistant \in Collides
            THEN /\ chunk[11] = Delimiter /\ chunk[12] = NewLine
                 /\ chunk[13] = Text /\ chunk[14] = NewLine /\ chunk[15] = NewLine
            ELSE chunk[11] = NewLine
<1> DEFINE user == Piece("user", turn.user)
           assistant == Piece("assistant", turn.assistant)
           front == <<Delimiter, NewLine, user, NewLine, assistant, NewLine, Delimiter, NewLine>>
           body == Body(turn.assistant)
<1>1. user \in Pieces /\ assistant \in Pieces /\ NewLine \in Pieces /\ Delimiter \in Pieces
      /\ Text \in Pieces
  BY PieceTypes DEF Fields
<1>2. chunk = front \o body \o <<NewLine, NewLine>>
  BY DEF Chunk
<1>3. body = IF turn.assistant \in Collides THEN <<Text, NewLine, Delimiter, NewLine, Text>>
             ELSE <<Text>>
  BY DEF Body
<1> HIDE DEF user, assistant, body
<1>4. front \in Seq(Pieces) /\ Len(front) = 8
      /\ front[1] = Delimiter /\ front[2] = NewLine /\ front[3] = user /\ front[4] = NewLine
      /\ front[5] = assistant /\ front[6] = NewLine /\ front[7] = Delimiter /\ front[8] = NewLine
  BY <1>1
<1> DEFINE back == <<NewLine, NewLine>>
<1>5. back \in Seq(Pieces) /\ Len(back) = 2 /\ back[1] = NewLine /\ back[2] = NewLine
  BY <1>1
<1>6. /\ body \in Seq(Pieces) /\ Len(body) = (IF turn.assistant \in Collides THEN 5 ELSE 1)
      /\ body[1] = Text
      /\ turn.assistant \in Collides =>
           body[2] = NewLine /\ body[3] = Delimiter /\ body[4] = NewLine /\ body[5] = Text
  BY <1>1, <1>3
<1> HIDE DEF front, back
<1> DEFINE both == front \o body
<1>7. /\ both \in Seq(Pieces) /\ Len(both) = 8 + Len(body)
      /\ \A k \in 1..8 : both[k] = front[k]
      /\ \A k \in 1..Len(body) : both[8 + k] = body[k]
  <2>1. /\ both \in Seq(Pieces) /\ Len(both) = Len(front) + Len(body)
        /\ \A k \in 1..Len(front) : both[k] = front[k]
        /\ \A k \in 1..Len(body) : both[Len(front) + k] = body[k]
    <3>1. front \in Seq(Pieces) /\ body \in Seq(Pieces) /\ both = front \o body
      BY <1>4, <1>6
    <3> HIDE DEF both
    <3> QED BY ONLY <3>1, ConcatAt
  <2> HIDE DEF both
  <2> QED BY <1>4, <2>1
<1>8. chunk = both \o back
  BY <1>2 DEF back
<1> HIDE DEF both
<1>9. /\ chunk \in Seq(Pieces) /\ Len(chunk) = Len(both) + 2
      /\ \A k \in 1..Len(both) : chunk[k] = both[k]
      /\ \A k \in 1..2 : chunk[Len(both) + k] = back[k]
  <2>1. /\ chunk \in Seq(Pieces) /\ Len(chunk) = Len(both) + Len(back)
        /\ \A k \in 1..Len(both) : chunk[k] = both[k]
        /\ \A k \in 1..Len(back) : chunk[Len(both) + k] = back[k]
    <3>1. both \in Seq(Pieces) /\ back \in Seq(Pieces) /\ chunk = both \o back
      BY <1>5, <1>7, <1>8
    <3> QED BY ONLY <3>1, ConcatAt
  <2> QED BY <1>5, <2>1
<1>10. /\ chunk[1] = front[1] /\ chunk[2] = front[2] /\ chunk[3] = front[3]
       /\ chunk[4] = front[4] /\ chunk[5] = front[5] /\ chunk[6] = front[6]
       /\ chunk[7] = front[7] /\ chunk[8] = front[8]
  <2>1. Len(body) \in Nat
    BY <1>6
  <2>2. \A k \in 1..8 : k \in 1..Len(both) /\ chunk[k] = front[k]
    BY <1>7, <1>9, <2>1
  <2> QED BY <2>2
<1>11. CASE turn.assistant \in Collides
  <2>1. Len(body) = 5 /\ Len(both) = 13
    BY <1>6, <1>7, <1>11
  <2>2. chunk[14] = back[1] /\ chunk[15] = back[2] /\ Len(chunk) = 15
    <3>1. 13 + 1 = 14 /\ 13 + 2 = 15 /\ 1 \in 1..2 /\ 2 \in 1..2
      OBVIOUS
    <3> QED BY <1>9, <2>1, <3>1
  <2>3. /\ chunk[9] = body[1] /\ chunk[10] = body[2] /\ chunk[11] = body[3]
        /\ chunk[12] = body[4] /\ chunk[13] = body[5]
    <3>1. \A k \in 1..5 : 8 + k \in 1..13 /\ chunk[8 + k] = body[k]
      BY <1>7, <1>9, <2>1
    <3>2. 8 + 1 = 9 /\ 8 + 2 = 10 /\ 8 + 3 = 11 /\ 8 + 4 = 12 /\ 8 + 5 = 13
          /\ {1, 2, 3, 4, 5} \subseteq 1..5
      OBVIOUS
    <3> QED BY <3>1, <3>2
  <2> QED BY <1>4, <1>5, <1>6, <1>9, <1>10, <1>11, <2>2, <2>3 DEF user, assistant
<1>12. CASE turn.assistant \notin Collides
  <2>1. Len(body) = 1 /\ Len(both) = 9
    BY <1>6, <1>7, <1>12
  <2>2. chunk[10] = back[1] /\ chunk[11] = back[2] /\ Len(chunk) = 11
    <3>1. 9 + 1 = 10 /\ 9 + 2 = 11 /\ 1 \in 1..2 /\ 2 \in 1..2
      OBVIOUS
    <3> QED BY <1>9, <2>1, <3>1
  <2>3. chunk[9] = body[1]
    <3>1. 8 + 1 = 9 /\ 1 \in 1..1 /\ 9 \in 1..9
      OBVIOUS
    <3> QED BY <1>7, <1>9, <2>1, <3>1
  <2> QED BY <1>4, <1>5, <1>6, <1>9, <1>10, <1>12, <2>2, <2>3 DEF user, assistant
<1> QED BY <1>11, <1>12

(* A line of one piece, and its newline.                                   *)
LEMMA ReadPair ==
  ASSUME NEW file \in Seq(Pieces), NEW part \in Seq(Pieces), NEW k \in Nat, k + 2 <= Len(part),
         NEW piece, piece = part[k + 1], piece # NewLine, part[k + 2] = NewLine,
         NEW reader, reader = Read(file \o SubSeq(part, 1, k))
  PROVE  /\ Read(file \o SubSeq(part, 1, k + 1)).state = reader.state
         /\ Read(file \o SubSeq(part, 1, k + 2))
              = [state |-> ParseLine(reader.state, Append(reader.line, piece)), line |-> <<>>]
<1>1. Len(part) \in Nat /\ k < Len(part) /\ k + 1 \in Nat /\ k + 1 < Len(part) /\ (k + 1) + 1 = k + 2
  OBVIOUS
<1> DEFINE first == Read(file \o SubSeq(part, 1, k + 1))
           second == Read(file \o SubSeq(part, 1, k + 2))
<1>2. first = Eat(reader, piece)
  BY <1>1, ReadOn
<1>3. second = Eat(first, NewLine)
  <2>1. Read(file \o SubSeq(part, 1, (k + 1) + 1))
          = Eat(Read(file \o SubSeq(part, 1, k + 1)), part[(k + 1) + 1])
    BY ONLY <1>1, file \in Seq(Pieces), part \in Seq(Pieces), ReadOn
  <2> QED BY <1>1, <2>1
<1> HIDE DEF first, second
<1>4. first = [state |-> reader.state, line |-> Append(reader.line, piece)]
  BY <1>2 DEF Eat
<1>5. first.state = reader.state /\ first.line = Append(reader.line, piece)
  BY <1>4
<1>6. second = [state |-> ParseLine(first.state, first.line), line |-> <<>>]
  BY <1>3 DEF Eat
<1> QED BY <1>5, <1>6 DEF first, second

(* The states of the parser behind the lines of a chunk.                   *)
Opened(reader) == ParseLine(reader.state, Append(reader.line, Delimiter))
Asked(reader, turn) == ParseLine(Opened(reader), <<Piece("user", turn.user)>>)
Answered(reader, turn) == ParseLine(Asked(reader, turn), <<Piece("assistant", turn.assistant)>>)
EndOfRows(reader, turn) == ParseLine(Answered(reader, turn), <<Delimiter>>)
Collided(reader, turn) == ParseLine(EndOfRows(reader, turn), <<Delimiter>>)

Stages(reader, turn) ==
  {reader.state, Opened(reader), Asked(reader, turn), Answered(reader, turn),
   EndOfRows(reader, turn), Collided(reader, turn)}

LEMMA StagesTyped ==
  ASSUME NEW reader \in Readers, NEW turn \in Fields
  PROVE  /\ reader.state \in States /\ reader.line \in Seq(Pieces)
         /\ Opened(reader) \in States /\ Asked(reader, turn) \in States
         /\ Answered(reader, turn) \in States /\ EndOfRows(reader, turn) \in States
         /\ Collided(reader, turn) \in States
<1>1. reader.state \in States /\ reader.line \in Seq(Pieces) /\ turn.user \in Field
      /\ turn.assistant \in Field
  BY DEF Readers, Fields
<1>2. /\ Append(reader.line, Delimiter) \in Seq(Pieces) /\ <<Delimiter>> \in Seq(Pieces)
      /\ <<Piece("user", turn.user)>> \in Seq(Pieces)
      /\ <<Piece("assistant", turn.assistant)>> \in Seq(Pieces)
  BY <1>1, PieceTypes
<1>3. Opened(reader) \in States
  BY <1>1, <1>2, ParseTyped DEF Opened
<1>4. Asked(reader, turn) \in States
  BY <1>2, <1>3, ParseTyped DEF Asked
<1>5. Answered(reader, turn) \in States
  BY <1>2, <1>4, ParseTyped DEF Answered
<1>6. EndOfRows(reader, turn) \in States
  BY <1>2, <1>5, ParseTyped DEF EndOfRows
<1>7. Collided(reader, turn) \in States
  BY <1>2, <1>6, ParseTyped DEF Collided
<1> QED BY <1>1, <1>3, <1>4, <1>5, <1>6, <1>7

(* Text and an empty line are passed over.                                 *)
LEMMA PassedOver ==
  ASSUME NEW state \in States
  PROVE  ParseLine(state, <<Text>>) = state /\ ParseLine(state, <<>>) = state
<1>1. /\ state.open => state = OpenState(state.rows, state.parsed)
      /\ ~state.open => state = ClosedState(state.rows, state.parsed)
      /\ state.rows \in Fields
  BY StateIs
<1>2. /\ ReadRow(state.rows, <<Text>>) = state.rows /\ ReadRow(state.rows, <<>>) = state.rows
      /\ <<Text>> # <<Delimiter>> /\ <<>> # <<Delimiter>>
  <2>1. Blank \in Field
    BY DEF Field
  <2> QED BY <1>1, <2>1, RowIs
<1>3. ASSUME NEW line, line # <<Delimiter>>, ReadRow(state.rows, line) = state.rows
      PROVE  ParseLine(state, line) = state
  <2> DEFINE rows == state.rows
             parsed == state.parsed
  <2>1. state = OpenState(rows, parsed) \/ state = ClosedState(rows, parsed)
    BY <1>1
  <2>2. ReadRow(rows, line) = rows
    BY <1>3
  <2> HIDE DEF rows, parsed
  <2>3. /\ ParseLine(OpenState(rows, parsed), line) = OpenState(rows, parsed)
        /\ ParseLine(ClosedState(rows, parsed), line) = ClosedState(rows, parsed)
    BY <1>3, <2>2, OtherLine
  <2> QED BY <2>1, <2>3
<1> QED BY <1>2, <1>3

LEMMA ChunkRead ==
  ASSUME NEW file \in Seq(Pieces), NEW turn \in Fields, NEW chunk, chunk = Chunk(turn),
         NEW reader, reader = Read(file)
  PROVE  /\ file \o chunk \in Seq(Pieces) /\ reader \in Readers
         /\ Read(file \o chunk) =
              [state |-> IF turn.assistant \in Collides THEN Collided(reader, turn)
                         ELSE EndOfRows(reader, turn),
               line |-> <<>>]
         /\ \A k \in 0..Len(chunk) :
              Read(file \o SubSeq(chunk, 1, k)).state \in Stages(reader, turn)
<1> DEFINE At(k) == Read(file \o SubSeq(chunk, 1, k))
           user == Piece("user", turn.user)
           assistant == Piece("assistant", turn.assistant)
           s1 == Opened(reader)
           s2 == Asked(reader, turn)
           s3 == Answered(reader, turn)
           s4 == EndOfRows(reader, turn)
           s5 == Collided(reader, turn)
<1>1. /\ chunk \in Seq(Pieces)
      /\ Len(chunk) = IF turn.assistant \in Collides THEN 15 ELSE 11
      /\ chunk[1] = Delimiter /\ chunk[2] = NewLine /\ chunk[3] = user /\ chunk[4] = NewLine
      /\ chunk[5] = assistant /\ chunk[6] = NewLine /\ chunk[7] = Delimiter
      /\ chunk[8] = NewLine /\ chunk[9] = Text /\ chunk[10] = NewLine
      /\ IF turn.assistant \in Collides
         THEN /\ chunk[11] = Delimiter /\ chunk[12] = NewLine
              /\ chunk[13] = Text /\ chunk[14] = NewLine /\ chunk[15] = NewLine
         ELSE chunk[11] = NewLine
  BY ChunkIs
<1>2. user # NewLine /\ assistant # NewLine /\ Delimiter # NewLine /\ Text # NewLine
  BY PieceTypes DEF Fields
<1>3. reader \in Readers /\ s1 \in States /\ s2 \in States /\ s3 \in States /\ s4 \in States
      /\ s5 \in States
  BY ReadTyped, StagesTyped
<1>4. file \o chunk \in Seq(Pieces) /\ SubSeq(chunk, 1, Len(chunk)) = chunk
  <2>1. chunk \in Seq(Pieces)
    BY <1>1
  <2>2. SubSeq(chunk, 1, Len(chunk)) = chunk
    BY ONLY <2>1, SubSeqFull
  <2> QED BY <2>1, <2>2
<1>5. At(0) = reader
  <2>1. SubSeq(chunk, 1, 0) = <<>> /\ file \o <<>> = file
    BY SubSeqEmpty
  <2> QED BY <2>1
<1> DEFINE Fresh(state) == [state |-> state, line |-> <<>>]
<1>6. ASSUME NEW state, NEW piece
      PROVE  /\ Fresh(state).state = state
             /\ ParseLine(Fresh(state).state, Append(Fresh(state).line, piece))
                  = ParseLine(state, <<piece>>)
  <2>1. Fresh(state).state = state /\ Fresh(state).line = <<>> /\ Append(<<>>, piece) = <<piece>>
    OBVIOUS
  <2> QED BY <2>1
<1>7. Len(chunk) \in {11, 15}
  BY <1>1
<1>8. ASSUME NEW k \in Nat, k + 2 <= Len(chunk), chunk[k + 1] # NewLine, chunk[k + 2] = NewLine
      PROVE  /\ At(k + 1).state = At(k).state
             /\ At(k + 2) = Fresh(ParseLine(At(k).state, Append(At(k).line, chunk[k + 1])))
  <2> DEFINE piece == chunk[k + 1]
             r == At(k)
  <2>1. /\ chunk \in Seq(Pieces) /\ k \in Nat /\ k + 2 <= Len(chunk)
        /\ piece = chunk[k + 1] /\ piece # NewLine /\ chunk[k + 2] = NewLine
        /\ r = Read(file \o SubSeq(chunk, 1, k))
    BY <1>1, <1>8
  <2> HIDE DEF piece, r
  <2>2. /\ Read(file \o SubSeq(chunk, 1, k + 1)).state = r.state
        /\ Read(file \o SubSeq(chunk, 1, k + 2))
             = [state |-> ParseLine(r.state, Append(r.line, piece)), line |-> <<>>]
    BY ONLY <2>1, file \in Seq(Pieces), ReadPair
  <2> QED BY <2>2 DEF r, piece
<1>9. ASSUME NEW k \in Nat, k + 1 <= Len(chunk), chunk[k + 1] = NewLine
      PROVE  At(k + 1) = Fresh(ParseLine(At(k).state, At(k).line))
  <2>1. At(k + 1) = Eat(At(k), chunk[k + 1])
    <3>1. k < Len(chunk)
      BY <1>7, <1>9
    <3> QED BY <1>1, <3>1, ReadOn
  <2> QED BY <1>9, <2>1 DEF Eat
<1> HIDE DEF At, Fresh, user, assistant, s1, s2, s3, s4, s5
<1>10. At(1).state = reader.state /\ At(2) = Fresh(s1)
  <2>1. At(0 + 1).state = At(0).state
        /\ At(0 + 2) = Fresh(ParseLine(At(0).state, Append(At(0).line, chunk[0 + 1])))
    BY <1>1, <1>2, <1>7, <1>8
  <2> QED BY <1>1, <1>5, <2>1 DEF s1, Opened
<1>11. At(3).state = s1 /\ At(4) = Fresh(s2)
  <2>1. At(2 + 1).state = At(2).state
        /\ At(2 + 2) = Fresh(ParseLine(At(2).state, Append(At(2).line, chunk[2 + 1])))
    BY <1>1, <1>2, <1>7, <1>8
  <2>2. s2 = ParseLine(s1, <<user>>)
    BY DEF s1, s2, user, Asked
  <2> QED BY <1>1, <1>6, <1>10, <2>1, <2>2
<1>12. At(5).state = s2 /\ At(6) = Fresh(s3)
  <2>1. At(4 + 1).state = At(4).state
        /\ At(4 + 2) = Fresh(ParseLine(At(4).state, Append(At(4).line, chunk[4 + 1])))
    BY <1>1, <1>2, <1>7, <1>8
  <2>2. s3 = ParseLine(s2, <<assistant>>)
    BY DEF s2, s3, assistant, Answered
  <2> QED BY <1>1, <1>6, <1>11, <2>1, <2>2
<1>13. At(7).state = s3 /\ At(8) = Fresh(s4)
  <2>1. At(6 + 1).state = At(6).state
        /\ At(6 + 2) = Fresh(ParseLine(At(6).state, Append(At(6).line, chunk[6 + 1])))
    BY <1>1, <1>2, <1>7, <1>8
  <2>2. s4 = ParseLine(s3, <<Delimiter>>)
    BY DEF s3, s4, EndOfRows
  <2> QED BY <1>1, <1>6, <1>12, <2>1, <2>2
<1>14. At(9).state = s4 /\ At(10) = Fresh(s4)
  <2>1. At(8 + 1).state = At(8).state
        /\ At(8 + 2) = Fresh(ParseLine(At(8).state, Append(At(8).line, chunk[8 + 1])))
    BY <1>1, <1>2, <1>7, <1>8
  <2>2. ParseLine(s4, <<Text>>) = s4
    BY <1>3, PassedOver
  <2> QED BY <1>1, <1>6, <1>13, <2>1, <2>2
<1>15. {At(k).state : k \in 0..10} \subseteq Stages(reader, turn)
  <2>1. \A k \in 0..10 : k \in {0, 1, 2, 3, 4, 5, 6, 7, 8, 9, 10}
    OBVIOUS
  <2>2. \A k \in {0, 1, 2, 3, 4, 5, 6, 7, 8, 9, 10} : At(k).state \in {reader.state, s1, s2, s3, s4}
    <3>1. /\ At(0).state = reader.state /\ At(2).state = s1 /\ At(4).state = s2
          /\ At(6).state = s3 /\ At(8).state = s4 /\ At(10).state = s4
      BY <1>5, <1>6, <1>10, <1>11, <1>12, <1>13, <1>14
    <3>2. /\ At(1).state = reader.state /\ At(3).state = s1 /\ At(5).state = s2
          /\ At(7).state = s3 /\ At(9).state = s4
      BY <1>10, <1>11, <1>12, <1>13, <1>14
    <3> QED BY ONLY <3>1, <3>2
  <2> QED BY <2>1, <2>2 DEF s1, s2, s3, s4, Stages
<1>16. /\ At(Len(chunk)) = Fresh(IF turn.assistant \in Collides THEN s5 ELSE s4)
       /\ \A k \in 0..Len(chunk) : At(k).state \in Stages(reader, turn)
  <2>1. CASE turn.assistant \notin Collides
    <3>1. Len(chunk) = 11 /\ chunk[11] = NewLine
      BY <1>1, <2>1
    <3>2. At(10 + 1) = Fresh(ParseLine(At(10).state, At(10).line))
      BY <1>9, <3>1
    <3>3. At(10).state = s4 /\ At(10).line = <<>> /\ ParseLine(s4, <<>>) = s4
      BY <1>3, <1>14, PassedOver DEF Fresh
    <3>4. At(11) = Fresh(s4) /\ At(11).state = s4
      <4>1. 10 + 1 = 11
        OBVIOUS
      <4>2. At(11) = Fresh(s4)
        BY <3>2, <3>3, <4>1
      <4> QED BY <1>6, <4>2
    <3>5. \A k \in 0..11 : k \in 0..10 \/ k = 11
      OBVIOUS
    <3>6. s4 \in Stages(reader, turn)
      BY DEF s4, Stages
    <3> QED BY <1>15, <2>1, <3>1, <3>4, <3>5, <3>6
  <2>2. CASE turn.assistant \in Collides
    <3>1. /\ Len(chunk) = 15 /\ chunk[11] = Delimiter /\ chunk[12] = NewLine
          /\ chunk[13] = Text /\ chunk[14] = NewLine /\ chunk[15] = NewLine
      BY <1>1, <2>2
    <3>2. At(11).state = s4 /\ At(12) = Fresh(s5)
      <4>1. At(10 + 1).state = At(10).state
            /\ At(10 + 2) = Fresh(ParseLine(At(10).state, Append(At(10).line, chunk[10 + 1])))
        BY <1>2, <1>8, <3>1
      <4>2. s5 = ParseLine(s4, <<Delimiter>>)
        BY DEF s4, s5, Collided
      <4> QED BY <1>6, <1>14, <3>1, <4>1, <4>2
    <3>3. At(13).state = s5 /\ At(14) = Fresh(s5)
      <4>1. At(12 + 1).state = At(12).state
            /\ At(12 + 2) = Fresh(ParseLine(At(12).state, Append(At(12).line, chunk[12 + 1])))
        BY <1>2, <1>8, <3>1
      <4>2. ParseLine(s5, <<Text>>) = s5
        BY <1>3, PassedOver
      <4> QED BY <1>6, <3>1, <3>2, <4>1, <4>2
    <3>4. At(15) = Fresh(s5)
      <4>1. At(14 + 1) = Fresh(ParseLine(At(14).state, At(14).line))
        BY <1>9, <3>1
      <4>2. At(14).state = s5 /\ At(14).line = <<>> /\ ParseLine(s5, <<>>) = s5
        BY <1>3, <3>3, PassedOver DEF Fresh
      <4> QED BY <4>1, <4>2
    <3>5. \A k \in {11, 12, 13, 14, 15} : At(k).state \in {s4, s5}
      BY <1>6, <3>2, <3>3, <3>4
    <3>6. \A k \in 0..15 : k \in 0..10 \/ k \in {11, 12, 13, 14, 15}
      OBVIOUS
    <3>7. {s4, s5} \subseteq Stages(reader, turn)
      BY DEF s4, s5, Stages
    <3> QED BY <1>15, <2>2, <3>1, <3>4, <3>5, <3>6, <3>7
  <2> QED BY <2>1, <2>2
<1>17. At(Len(chunk)) = Read(file \o chunk)
  BY <1>4 DEF At
<1> QED BY <1>3, <1>4, <1>16, <1>17 DEF At, Fresh, s4, s5

LEMMA OpenedIs ==
  ASSUME NEW reader \in Readers, NEW rows, rows = reader.state.rows,
         NEW parsed, parsed = reader.state.parsed
  PROVE  /\ reader.line = <<>> /\ reader.state.open =>
              Opened(reader) = ClosedState(rows, WithTurn(parsed, rows))
         /\ reader.line = <<>> /\ ~reader.state.open => Opened(reader) = OpenState(NoRows, parsed)
         /\ reader.line # <<>> /\ reader.state.open =>
              \E r \in {rows, Turn(Garbage, rows.assistant), Turn(rows.user, Garbage)} :
                Opened(reader) = OpenState(r, parsed)
         /\ reader.line # <<>> /\ ~reader.state.open => Opened(reader) = ClosedState(rows, parsed)
<1> DEFINE state == reader.state
           line == Append(reader.line, Delimiter)
<1>1. /\ state \in States /\ reader.line \in Seq(Pieces) /\ rows \in Fields
      /\ state.open => state = OpenState(rows, parsed)
      /\ ~state.open => state = ClosedState(rows, parsed)
  BY StateIs DEF Readers
<1>2. Opened(reader) = ParseLine(state, line)
  BY DEF Opened
<1>3. reader.line = <<>> => line = <<Delimiter>>
  OBVIOUS
<1>4. reader.line # <<>> =>
        /\ line # <<Delimiter>>
        /\ ReadRow(rows, line) \in {rows, Turn(Garbage, rows.assistant), Turn(rows.user, Garbage)}
  BY <1>1, PieceTypes, BrokenRow
<1> HIDE DEF line, state
<1>5. CASE reader.line = <<>>
  BY <1>1, <1>2, <1>3, <1>5, DelimiterLine DEF state
<1>6. CASE reader.line # <<>>
  <2>1. /\ ParseLine(OpenState(rows, parsed), line) = OpenState(ReadRow(rows, line), parsed)
        /\ ParseLine(ClosedState(rows, parsed), line) = ClosedState(rows, parsed)
    BY <1>4, <1>6, OtherLine
  <2> QED BY <1>1, <1>2, <1>4, <1>6, <2>1 DEF state
<1> QED BY <1>5, <1>6

(* The rest of a chunk, by the state behind its first line.                *)
LEMMA RowsRead ==
  ASSUME NEW reader \in Readers, NEW turn \in Fields, NEW rows \in Fields, NEW parsed,
         Opened(reader) = OpenState(rows, parsed)
  PROVE  /\ Asked(reader, turn) = OpenState(Turn(turn.user, rows.assistant), parsed)
         /\ Answered(reader, turn) = OpenState(turn, parsed)
         /\ EndOfRows(reader, turn) = ClosedState(turn, WithTurn(parsed, turn))
         /\ Collided(reader, turn) = OpenState(NoRows, WithTurn(parsed, turn))
<1> DEFINE user == <<Piece("user", turn.user)>>
           assistant == <<Piece("assistant", turn.assistant)>>
           with == Turn(turn.user, rows.assistant)
<1>1. turn.user \in Field /\ turn.assistant \in Field /\ turn = Turn(turn.user, turn.assistant)
      /\ rows.assistant \in Field /\ with \in Fields /\ with.user = turn.user
  BY DEF Fields, Turn
<1>2. ReadRow(rows, user) = with /\ user # <<Delimiter>> /\ assistant # <<Delimiter>>
  BY <1>1, RowIs
<1>3. ReadRow(with, assistant) = turn
  <2>1. ReadRow(with, assistant) = Turn(with.user, turn.assistant)
    <3> HIDE DEF with
    <3> QED BY <1>1, RowIs
  <2> QED BY <1>1, <2>1
<1> HIDE DEF with
<1>4. Asked(reader, turn) = OpenState(with, parsed)
  BY <1>2, OtherLine DEF Asked
<1>5. Answered(reader, turn) = OpenState(turn, parsed)
  BY <1>2, <1>3, <1>4, OtherLine DEF Answered
<1>6. EndOfRows(reader, turn) = ClosedState(turn, WithTurn(parsed, turn))
  BY <1>5, DelimiterLine DEF EndOfRows
<1>7. Collided(reader, turn) = OpenState(NoRows, WithTurn(parsed, turn))
  BY <1>6, DelimiterLine DEF Collided
<1> QED BY <1>4, <1>5, <1>6, <1>7 DEF with

LEMMA RowsPassedOver ==
  ASSUME NEW reader \in Readers, NEW turn \in Fields, NEW rows \in Fields, NEW parsed,
         Opened(reader) = ClosedState(rows, parsed)
  PROVE  /\ Asked(reader, turn) = ClosedState(rows, parsed)
         /\ Answered(reader, turn) = ClosedState(rows, parsed)
         /\ EndOfRows(reader, turn) = OpenState(NoRows, parsed)
         /\ Collided(reader, turn) = ClosedState(NoRows, parsed)
<1> DEFINE user == <<Piece("user", turn.user)>>
           assistant == <<Piece("assistant", turn.assistant)>>
<1>1. user # <<Delimiter>> /\ assistant # <<Delimiter>>
  BY RowIs DEF Fields
<1>2. Asked(reader, turn) = ClosedState(rows, parsed)
  BY <1>1, OtherLine DEF Asked
<1>3. Answered(reader, turn) = ClosedState(rows, parsed)
  BY <1>1, <1>2, OtherLine DEF Answered
<1>4. EndOfRows(reader, turn) = OpenState(NoRows, parsed)
  BY <1>3, DelimiterLine DEF EndOfRows
<1>5. WithTurn(parsed, NoRows) = parsed
  BY DEF WithTurn, NoRows, IsEmpty, Turn
<1>6. Collided(reader, turn) = ClosedState(NoRows, parsed)
  BY <1>4, <1>5, DelimiterLine DEF Collided
<1> QED BY <1>2, <1>3, <1>4, <1>6

-----------------------------------------------------------------------------
(* No turn is put together from two.                                       *)

AllCoherent(parsed) == \A k \in DOMAIN parsed : Coherent(parsed[k])
Sound(state) == AllCoherent(state.parsed) /\ (state.open => Coherent(state.rows))
Fresh(state) == state.open => state.rows = NoRows

LEMMA CoherentRows ==
  /\ Coherent(NoRows)
  /\ \A x : /\ Coherent(Turn(x, Blank)) /\ Coherent(Turn(Blank, x))
            /\ Coherent(Turn(Garbage, x)) /\ Coherent(Turn(x, Garbage))
BY DEF Coherent, NoRows, Turn

LEMMA WithCoherent ==
  ASSUME NEW parsed \in Seq(Fields), AllCoherent(parsed), NEW turn \in Fields, Coherent(turn)
  PROVE  AllCoherent(WithTurn(parsed, turn)) /\ WithTurn(parsed, turn) \in Seq(Fields)
<1>1. ASSUME NEW k \in DOMAIN Append(parsed, turn) PROVE Coherent(Append(parsed, turn)[k])
  <2>1. CASE k \in 1..Len(parsed)
    BY <2>1 DEF AllCoherent
  <2>2. CASE k = Len(parsed) + 1
    BY <2>2
  <2>3. DOMAIN Append(parsed, turn) = 1..(Len(parsed) + 1) /\ Len(parsed) \in Nat
    OBVIOUS
  <2> QED BY <1>1, <2>1, <2>2, <2>3
<1> QED BY <1>1 DEF WithTurn, AllCoherent

(* What is sound of an open and of a closed state.                         *)
LEMMA SoundStates ==
  ASSUME NEW rows, NEW parsed, AllCoherent(parsed)
  PROVE  /\ Coherent(rows) => Sound(OpenState(rows, parsed))
         /\ Sound(ClosedState(rows, parsed)) /\ Fresh(ClosedState(rows, parsed))
         /\ Sound(OpenState(NoRows, parsed)) /\ Fresh(OpenState(NoRows, parsed))
<1>1. \A r : /\ OpenState(r, parsed).open /\ OpenState(r, parsed).rows = r
             /\ OpenState(r, parsed).parsed = parsed
             /\ ~ClosedState(r, parsed).open /\ ClosedState(r, parsed).parsed = parsed
  BY StateParts
<1> QED BY <1>1, CoherentRows DEF Sound, Fresh

LEMMA StagesSound ==
  ASSUME NEW reader \in Readers, NEW turn \in Fields, Coherent(turn), Sound(reader.state)
  PROVE  /\ Sound(EndOfRows(reader, turn)) /\ Fresh(EndOfRows(reader, turn))
         /\ Sound(Collided(reader, turn)) /\ Fresh(Collided(reader, turn))
         /\ reader.line = <<>> /\ Fresh(reader.state) =>
              \A state \in Stages(reader, turn) : Sound(state)
<1> DEFINE state == reader.state
<1>1. state \in States /\ state.rows \in Fields
      /\ state.parsed \in Seq(Fields) /\ AllCoherent(state.parsed)
      /\ (state.open => Coherent(state.rows)) /\ NoRows \in Fields
  BY StateIs, StartTyped DEF Readers, Sound
<1>2. \/ \E rows \in Fields, parsed \in Seq(Fields) :
           /\ Opened(reader) = OpenState(rows, parsed) /\ AllCoherent(parsed) /\ Coherent(rows)
           /\ reader.line = <<>> => rows = NoRows
      \/ \E rows \in Fields, parsed \in Seq(Fields) :
           Opened(reader) = ClosedState(rows, parsed) /\ AllCoherent(parsed)
  <2>1. CASE reader.line = <<>> /\ state.open
    <3>1. Opened(reader) = ClosedState(state.rows, WithTurn(state.parsed, state.rows))
      BY <2>1, OpenedIs
    <3> QED BY <1>1, <2>1, <3>1, WithCoherent
  <2>2. CASE reader.line = <<>> /\ ~state.open
    <3>1. Opened(reader) = OpenState(NoRows, state.parsed)
      BY <2>2, OpenedIs
    <3> QED BY <1>1, <3>1, CoherentRows
  <2>3. CASE reader.line # <<>> /\ state.open
    <3>1. PICK r \in {state.rows, Turn(Garbage, state.rows.assistant), Turn(state.rows.user, Garbage)} :
            Opened(reader) = OpenState(r, state.parsed)
      BY <2>3, OpenedIs
    <3>2. r \in Fields
      BY <1>1 DEF Fields, Field, Turn
    <3>3. Coherent(r)
      BY <1>1, <2>3, CoherentRows
    <3> QED BY <1>1, <2>3, <3>1, <3>2, <3>3
  <2>4. CASE reader.line # <<>> /\ ~state.open
    <3>1. Opened(reader) = ClosedState(state.rows, state.parsed)
      BY <2>4, OpenedIs
    <3> QED BY <1>1, <3>1
  <2> QED BY <2>1, <2>2, <2>3, <2>4
<1>3. CASE \E rows \in Fields, parsed \in Seq(Fields) :
           /\ Opened(reader) = OpenState(rows, parsed) /\ AllCoherent(parsed) /\ Coherent(rows)
           /\ reader.line = <<>> => rows = NoRows
  <2>1. PICK rows \in Fields, parsed \in Seq(Fields) :
           /\ Opened(reader) = OpenState(rows, parsed) /\ AllCoherent(parsed) /\ Coherent(rows)
           /\ reader.line = <<>> => rows = NoRows
    BY <1>3
  <2>2. /\ Asked(reader, turn) = OpenState(Turn(turn.user, rows.assistant), parsed)
        /\ Answered(reader, turn) = OpenState(turn, parsed)
        /\ EndOfRows(reader, turn) = ClosedState(turn, WithTurn(parsed, turn))
        /\ Collided(reader, turn) = OpenState(NoRows, WithTurn(parsed, turn))
    BY <2>1, RowsRead
  <2>3. AllCoherent(WithTurn(parsed, turn))
    BY <2>1, WithCoherent
  <2>4. /\ Sound(EndOfRows(reader, turn)) /\ Fresh(EndOfRows(reader, turn))
        /\ Sound(Collided(reader, turn)) /\ Fresh(Collided(reader, turn))
    BY <2>2, <2>3, SoundStates
  <2>5. Sound(Opened(reader)) /\ Sound(Answered(reader, turn))
    BY <2>1, <2>2, SoundStates
  <2>6. reader.line = <<>> => Sound(Asked(reader, turn))
    <3>1. NoRows.assistant = Blank
      BY DEF NoRows, Turn
    <3>2. reader.line = <<>> => Coherent(Turn(turn.user, rows.assistant))
      BY <2>1, <3>1, CoherentRows
    <3> QED BY <2>1, <2>2, <3>2, SoundStates
  <2> QED BY <2>4, <2>5, <2>6 DEF Stages
<1>4. CASE \E rows \in Fields, parsed \in Seq(Fields) :
             Opened(reader) = ClosedState(rows, parsed) /\ AllCoherent(parsed)
  <2>1. PICK rows \in Fields, parsed \in Seq(Fields) :
             Opened(reader) = ClosedState(rows, parsed) /\ AllCoherent(parsed)
    BY <1>4
  <2>2. /\ Asked(reader, turn) = ClosedState(rows, parsed)
        /\ Answered(reader, turn) = ClosedState(rows, parsed)
        /\ EndOfRows(reader, turn) = OpenState(NoRows, parsed)
        /\ Collided(reader, turn) = ClosedState(NoRows, parsed)
    BY <2>1, RowsPassedOver
  <2>3. /\ Sound(EndOfRows(reader, turn)) /\ Fresh(EndOfRows(reader, turn))
        /\ Sound(Collided(reader, turn)) /\ Fresh(Collided(reader, turn))
        /\ Sound(Opened(reader)) /\ Sound(Asked(reader, turn)) /\ Sound(Answered(reader, turn))
    BY <2>1, <2>2, SoundStates
  <2> QED BY <2>3 DEF Stages
<1> QED BY <1>2, <1>3, <1>4

LEMMA TornRead ==
  ASSUME NEW file \in Seq(Pieces), NEW turn \in Fields, NEW part \in Torn(Chunk(turn)),
         NEW reader, reader = Read(file)
  PROVE  /\ file \o part \in Seq(Pieces)
         /\ Read(file \o part).state \in Stages(reader, turn)
<1> DEFINE chunk == Chunk(turn)
           front(k) == SubSeq(chunk, 1, k)
<1>1. chunk \in Seq(Pieces) /\ Len(chunk) \in Nat
  BY ChunkIs
<1>2. \A k \in 0..Len(chunk) : Read(file \o front(k)).state \in Stages(reader, turn)
  BY ChunkRead
<1>3. PICK k \in 0..(Len(chunk) - 1) : part = front(k) \/ part = Append(front(k), Cut)
  BY <1>1 DEF Torn
<1>4. k \in Nat /\ k \in 0..Len(chunk) /\ k < Len(chunk)
  BY <1>1, <1>3
<1>5. front(k) \in Seq(Pieces) /\ file \o front(k) \in Seq(Pieces)
  BY <1>1, <1>4
<1>6. Cut \in Pieces /\ Cut # NewLine
  BY PieceTypes
<1> HIDE DEF chunk, front
<1>7. CASE part = front(k)
  BY <1>2, <1>4, <1>5, <1>7
<1>8. CASE part = Append(front(k), Cut)
  <2>1. file \o part = Append(file \o front(k), Cut) /\ file \o part \in Seq(Pieces)
    BY <1>5, <1>6, <1>8
  <2>2. Read(Append(file \o front(k), Cut)) = Eat(Read(file \o front(k)), Cut)
    BY <1>5, <1>6, ReadOnePiece
  <2>3. Eat(Read(file \o front(k)), Cut).state = Read(file \o front(k)).state
    BY <1>6 DEF Eat
  <2> QED BY <1>2, <1>4, <2>1, <2>2, <2>3
<1> QED BY <1>3, <1>7, <1>8

-----------------------------------------------------------------------------
(* What was parsed stays parsed.                                           *)

LEMMA PrefixIs ==
  ASSUME NEW S, NEW s \in Seq(S), NEW t \in Seq(S)
  PROVE  IsPrefix(s, t) <=> Len(s) <= Len(t) /\ \A k \in 1..Len(s) : s[k] = t[k]
<1> DEFINE n == Len(s)
<1>1. n \in Int /\ n \in Nat /\ n <= Len(s) /\ s \in Seq(S) /\ t \in Seq(S) /\ Len(t) \in Nat
  OBVIOUS
<1> HIDE DEF n
<1>2. ASSUME n <= Len(t), \A k \in 1..n : s[k] = t[k] PROVE SubSeq(s, 1, n) = SubSeq(t, 1, n)
  BY ONLY <1>1, <1>2, SameFront
<1>3. ASSUME n <= Len(t), SubSeq(s, 1, n) = SubSeq(t, 1, n), NEW k \in 1..n PROVE s[k] = t[k]
  <2>1. k \in 1..(n - 1 + 1) /\ 1 + k - 1 = k /\ 1 \in Int
    BY <1>1
  <2>2. (\A i \in 1..n : s[i] \in S) /\ (\A i \in 1..n : t[i] \in S)
    BY <1>1, <1>3
  <2>3. SubSeq(s, 1, n)[k] = s[k]
    BY <1>1, <2>1, <2>2, SubSeqProperties
  <2>4. SubSeq(t, 1, n)[k] = t[k]
    BY <1>1, <2>1, <2>2, SubSeqProperties
  <2> QED BY <1>3, <2>3, <2>4
<1> QED BY <1>2, <1>3 DEF IsPrefix, n

LEMMA PrefixSame ==
  ASSUME NEW S, NEW s \in Seq(S)
  PROVE  IsPrefix(s, s)
BY PrefixIs

LEMMA PrefixOfMore ==
  ASSUME NEW S, NEW s \in Seq(S), NEW x \in S
  PROVE  IsPrefix(s, Append(s, x))
<1> DEFINE t == Append(s, x)
<1>1. t \in Seq(S) /\ Len(t) = Len(s) + 1 /\ Len(s) \in Nat /\ \A k \in 1..Len(s) : t[k] = s[k]
  OBVIOUS
<1> HIDE DEF t
<1>2. IsPrefix(s, t)
  BY <1>1, PrefixIs
<1> QED BY <1>2 DEF t

LEMMA PrefixOfPrefix ==
  ASSUME NEW S, NEW s \in Seq(S), NEW t \in Seq(S), NEW u \in Seq(S), IsPrefix(s, t), IsPrefix(t, u)
  PROVE  IsPrefix(s, u)
<1>1. Len(s) <= Len(t) /\ \A k \in 1..Len(s) : s[k] = t[k]
  BY PrefixIs
<1>2. Len(t) <= Len(u) /\ \A k \in 1..Len(t) : t[k] = u[k]
  BY PrefixIs
<1>3. Len(s) \in Nat /\ Len(t) \in Nat /\ Len(u) \in Nat
  OBVIOUS
<1>4. Len(s) <= Len(u) /\ \A k \in 1..Len(s) : k \in 1..Len(t) /\ s[k] = u[k]
  BY <1>1, <1>2, <1>3
<1> QED BY <1>4, PrefixIs

LEMMA ParseExtends ==
  ASSUME NEW state \in States, NEW line
  PROVE  IsPrefix(state.parsed, ParseLine(state, line).parsed)
<1> DEFINE rows == state.rows
           parsed == state.parsed
<1>1. rows \in Fields /\ parsed \in Seq(Fields)
      /\ (state = OpenState(rows, parsed) \/ state = ClosedState(rows, parsed))
  BY StateIs
<1> HIDE DEF rows, parsed
<1>2. IsPrefix(parsed, parsed) /\ IsPrefix(parsed, WithTurn(parsed, rows))
  BY <1>1, PrefixSame, PrefixOfMore DEF WithTurn
<1>3. \A r, p : OpenState(r, p).parsed = p /\ ClosedState(r, p).parsed = p
  BY StateParts
<1>4. CASE line = <<Delimiter>>
  BY <1>1, <1>2, <1>3, <1>4, DelimiterLine DEF parsed
<1>5. CASE line # <<Delimiter>>
  BY <1>1, <1>2, <1>3, <1>5, OtherLine DEF parsed
<1> QED BY <1>4, <1>5

LEMMA StagesExtend ==
  ASSUME NEW reader \in Readers, NEW turn \in Fields, NEW state \in Stages(reader, turn)
  PROVE  state.parsed \in Seq(Fields) /\ IsPrefix(reader.state.parsed, state.parsed)
<1> DEFINE s0 == reader.state
           s1 == Opened(reader)
           s2 == Asked(reader, turn)
           s3 == Answered(reader, turn)
           s4 == EndOfRows(reader, turn)
           s5 == Collided(reader, turn)
<1>1. /\ s0 \in States /\ s1 \in States /\ s2 \in States /\ s3 \in States /\ s4 \in States
      /\ s5 \in States
  BY StagesTyped
<1>2. /\ IsPrefix(s0.parsed, s1.parsed) /\ IsPrefix(s1.parsed, s2.parsed)
      /\ IsPrefix(s2.parsed, s3.parsed) /\ IsPrefix(s3.parsed, s4.parsed)
      /\ IsPrefix(s4.parsed, s5.parsed)
  BY <1>1, ParseExtends DEF Opened, Asked, Answered, EndOfRows, Collided
<1>3. state \in {s0, s1, s2, s3, s4, s5}
  BY DEF Stages
<1> HIDE DEF s0, s1, s2, s3, s4, s5
<1>4. /\ s0.parsed \in Seq(Fields) /\ s1.parsed \in Seq(Fields) /\ s2.parsed \in Seq(Fields)
      /\ s3.parsed \in Seq(Fields) /\ s4.parsed \in Seq(Fields) /\ s5.parsed \in Seq(Fields)
  BY <1>1, StateIs
<1>5. IsPrefix(s0.parsed, s0.parsed)
  BY <1>4, PrefixSame
<1>6. IsPrefix(s0.parsed, s2.parsed)
  BY <1>2, <1>4, PrefixOfPrefix
<1>7. IsPrefix(s0.parsed, s3.parsed)
  BY <1>2, <1>4, <1>6, PrefixOfPrefix
<1>8. IsPrefix(s0.parsed, s4.parsed)
  BY <1>2, <1>4, <1>7, PrefixOfPrefix
<1>9. IsPrefix(s0.parsed, s5.parsed)
  BY <1>2, <1>4, <1>8, PrefixOfPrefix
<1> QED BY <1>2, <1>3, <1>4, <1>5, <1>6, <1>7, <1>8, <1>9 DEF s0

-----------------------------------------------------------------------------
(* What the tools make of the turns they see.                              *)

Turns == {turn \in Fields : ~IsEmpty(turn)}

KeepTurn(query, kept, turn) == IF Matches(query, turn) THEN Append(kept, turn) ELSE kept
KeepChanged(p, kept, turn) == IF ~IsEmpty(turn) THEN Append(kept, turn) ELSE kept

Matched == INSTANCE FoldLaws WITH Step <- KeepTurn, Base <- LAMBDA p : <<>>
Changed == INSTANCE FoldLaws WITH Step <- KeepChanged, Base <- LAMBDA p : <<>>

MatchedOf(query, parsed) == Filter(parsed, LAMBDA turn : Matches(query, turn))

LEMMA MatchedIs == ASSUME NEW query, NEW parsed PROVE MatchedOf(query, parsed) = Matched!Result(query, parsed)
BY DEF MatchedOf, Filter, Matched!Result, Matched!Through, Through, KeepTurn

LEMMA MatchedTyped ==
  ASSUME NEW S, NEW parsed \in Seq(S), NEW query
  PROVE  MatchedOf(query, parsed) \in Seq(S)
<1> DEFINE D == Seq(S)
<1>1. <<>> \in D /\ \A kept \in D, turn \in S : KeepTurn(query, kept, turn) \in D
  BY DEF KeepTurn
<1> HIDE DEF D
<1>2. \A seq \in Seq(S) : Matched!Result(query, seq) \in D
  BY ONLY <1>1, Matched!ThroughStaysIn
<1> QED BY <1>2, MatchedIs DEF D

LEMMA RecallTyped ==
  ASSUME NEW S, NEW parsed \in Seq(S), NEW query
  PROVE  Recall(parsed, query) \in Seq(S) /\ Len(Recall(parsed, query)) <= TopK
<1> DEFINE matched == MatchedOf(query, parsed)
<1>1. matched \in Seq(S) /\ Len(matched) \in Nat /\ TopK \in Nat
  BY MatchedTyped, PersistenceAssumption
<1>2. Recall(parsed, query) = IF Len(matched) <= TopK THEN matched ELSE SubSeq(matched, 1, TopK)
  BY DEF Recall, OldestOf, MatchedOf
<1> HIDE DEF matched
<1>3. CASE Len(matched) <= TopK
  BY <1>1, <1>2, <1>3
<1>4. CASE ~(Len(matched) <= TopK)
  <2>1. 1 \in Int /\ TopK \in Int /\ \A k \in 1..TopK : matched[k] \in S
    BY <1>1, <1>4
  <2>2. SubSeq(matched, 1, TopK) \in Seq(S)
        /\ Len(SubSeq(matched, 1, TopK)) = IF 1 <= TopK THEN TopK - 1 + 1 ELSE 0
    BY ONLY <2>1, SubSeqProperties
  <2> QED BY <1>1, <1>2, <1>4, <2>2
<1> QED BY <1>3, <1>4

LEMMA ReplacedTyped ==
  ASSUME NEW S, NEW viewed \in Seq(S), NEW old, NEW new,
         NoRows \in S, \A turn \in S : Replace(turn, old, new) \in S
  PROVE  Replaced(viewed, old, new) \in Seq({turn \in S : ~IsEmpty(turn)})
<1> DEFINE new_turns == [k \in DOMAIN viewed |->
                           IF Replace(viewed[k], old, new) = viewed[k] THEN NoRows
                           ELSE Replace(viewed[k], old, new)]
           D == Seq({turn \in S : ~IsEmpty(turn)})
<1>1. new_turns \in [1..Len(viewed) -> S] /\ Len(viewed) \in Nat
  OBVIOUS
<1> HIDE DEF new_turns
<1>2. new_turns \in Seq(S)
  BY <1>1
<1>3. <<>> \in D /\ \A kept \in D, turn \in S : KeepChanged(0, kept, turn) \in D
  BY DEF KeepChanged
<1>4. Replaced(viewed, old, new) = Changed!Result(0, new_turns)
  BY DEF Replaced, Filter, Changed!Result, Changed!Through, Through, KeepChanged, new_turns
<1> HIDE DEF D
<1>5. \A seq \in Seq(S) : Changed!Result(0, seq) \in D
  BY ONLY <1>3, Changed!ThroughStaysIn
<1> QED BY <1>2, <1>4, <1>5 DEF D

-----------------------------------------------------------------------------
(* The steps that concern the turns, and what they keep the type of.       *)

TurnsTyped ==
  /\ backend \in {"markdown", "short_term", "ranked"}
  /\ turn_file \in Seq(Pieces) /\ accident \in BOOLEAN
  /\ intact \in Seq(Turns) /\ todo \in Seq(Turns) /\ remembered \in Seq(Turns)
  /\ index \in 0..Len(remembered)

TodoGoesOn == todo' = todo \/ (todo # <<>> /\ todo' = Tail(todo))
Source(turn) == (\E t \in Texts : turn = Turn(t, t)) \/ (todo # <<>> /\ turn = Head(todo))

OneRemembered == \E turn \in Turns : Source(turn) /\ Remember(turn) /\ TodoGoesOn
OneFailed == \E turn \in Turns : Source(turn) /\ RememberFails(turn)
OneRememberedHere == \E turn \in Turns : RememberHere(turn) /\ TodoGoesOn

ReplaceInFile ==
  /\ backend = "markdown" /\ UNCHANGED <<backend, process, turn_file, intact, accident, tears>>
  /\ \E old \in Texts : \E new \in Texts \cup {Blank}, query \in SUBSET Texts :
       todo' = Replaced(Recall(Parsed, query), old, new)

SeenHere ==
  /\ UNCHANGED <<backend, remembered, turn_file, intact, accident, tears>>
  /\ \E seen \in Ranked \cup {remembered} :
       /\ RecallHere(seen)
       /\ \/ todo' = todo
          \/ \E old \in Texts : \E new \in Texts \cup {Blank} : todo' = Replaced(seen, old, new)

Elsewhere ==
  UNCHANGED <<backend, turns>> /\ (tears' = tears \/ (tears < MaxTears /\ tears' = tears + 1))

LEMMA TextTurns == \A t \in Texts : Turn(t, t) \in Turns
<1> SUFFICES ASSUME NEW t \in Texts PROVE Turn(t, t) \in Turns
  OBVIOUS
<1>1. t # Blank /\ t \in Field
  BY PersistenceAssumption DEF Field
<1> QED BY <1>1 DEF Turns, Fields, IsEmpty, Turn

LEMMA StepsOfTurns ==
  ASSUME todo \in Seq(Turns), [Next]_vars
  PROVE  OneRemembered \/ OneFailed \/ OneRememberedHere \/ ReplaceInFile \/ SeenHere \/ Elsewhere
<1>1. CASE UNCHANGED vars
  BY <1>1 DEF vars, Elsewhere
<1>2. ASSUME NEW e \in Event, AppendEvent(e) PROVE Elsewhere
  BY <1>2 DEF AppendEvent, Elsewhere, Tear
<1>3. ASSUME NEW t \in Texts, Create(t, t) PROVE OneRemembered \/ OneFailed \/ OneRememberedHere
  <2> DEFINE turn == Turn(t, t)
  <2>1. turn \in Turns /\ Source(turn)
    BY TextTurns DEF Source
  <2>2. TodoGoesOn
    BY <1>3 DEF Create, TodoGoesOn
  <2>3. Remember(turn) \/ RememberFails(turn) \/ RememberHere(turn)
    BY <1>3 DEF Create
  <2> HIDE DEF turn
  <2> QED BY <2>1, <2>2, <2>3 DEF OneRemembered, OneFailed, OneRememberedHere
<1>4. ASSUME NEW old \in Texts, NEW new \in (Texts \cup {Blank}) \ {old},
             NEW query \in {{old}, Texts}, StrReplace(query, old, new)
      PROVE  ReplaceInFile \/ SeenHere
  <2>1. query \in SUBSET Texts /\ new \in Texts \cup {Blank}
    OBVIOUS
  <2>2. UNCHANGED <<backend, turn_file, intact, accident, tears>>
    BY <1>4 DEF StrReplace
  <2>3. CASE backend = "markdown" /\ todo' = Replaced(View(query), old, new) /\ UNCHANGED process
    BY <2>1, <2>2, <2>3 DEF ReplaceInFile, View
  <2>4. CASE \E seen \in Ranked \cup {remembered} :
               RecallHere(seen) /\ todo' = Replaced(seen, old, new) /\ UNCHANGED remembered
    BY <2>1, <2>2, <2>4 DEF SeenHere
  <2> QED BY <1>4, <2>3, <2>4 DEF StrReplace
<1>5. CASE ReplaceNext
  <2> DEFINE turn == Head(todo)
  <2>1. todo # <<>> /\ turn \in Turns /\ Source(turn)
    BY <1>5 DEF ReplaceNext, Source
  <2>2. \/ (Remember(turn) \/ RememberHere(turn)) /\ todo' = Tail(todo)
        \/ RememberFails(turn)
    BY <1>5 DEF ReplaceNext
  <2> HIDE DEF turn
  <2>3. todo' = Tail(todo) => TodoGoesOn
    BY <2>1 DEF TodoGoesOn
  <2> QED BY <2>1, <2>2, <2>3 DEF OneRemembered, OneFailed, OneRememberedHere
<1>6. CASE ViewHere
  BY <1>6 DEF ViewHere, SeenHere
<1> QED BY <1>1, <1>2, <1>3, <1>4, <1>5, <1>6 DEF Next

LEMMA TodoTyped ==
  ASSUME todo \in Seq(Turns), TodoGoesOn
  PROVE  todo' \in Seq(Turns)
BY DEF TodoGoesOn

LEMMA ParsedTyped ==
  ASSUME turn_file \in Seq(Pieces)
  PROVE  Parsed \in Seq(Fields)
<1>1. Read(turn_file).state \in States /\ Read(turn_file).line \in Seq(Pieces)
  BY ReadTyped DEF Readers
<1> QED BY <1>1, ParsedIs, ParseTyped, StateIs

LEMMA ReplaceTyped ==
  ASSUME NEW old \in Texts, NEW new \in Texts \cup {Blank}
  PROVE  \A turn \in Fields : Replace(turn, old, new) \in Fields
<1>1. new \in Field
  BY DEF Field
<1> QED BY <1>1 DEF Fields, Replace, Turn

LEMMA RankedTyped ==
  ASSUME remembered \in Seq(Turns), index \in 0..Len(remembered), NEW seen \in Ranked \cup {remembered}
  PROVE  seen \in Seq(Turns)
<1>1. CASE seen \in Ranked
  <2> DEFINE n == Lesser(TopK, Indexed)
  <2>1. Indexed \in 0..Len(remembered) /\ n \in Nat
    BY PersistenceAssumption DEF Indexed, Lesser
  <2> HIDE DEF n
  <2>2. PICK order \in [1..n -> 1..Indexed] : seen = [k \in DOMAIN order |-> remembered[order[k]]]
    BY <1>1 DEF Ranked, n
  <2>3. \A k \in 1..n : remembered[order[k]] \in Turns
    BY <2>1, <2>2
  <2>4. seen \in [1..n -> Turns]
    BY <2>2, <2>3
  <2> QED BY <2>1, <2>4
<1> QED BY <1>1

LEMMA TurnsTypedInit == Init => TurnsTyped
<1> SUFFICES ASSUME Init PROVE TurnsTyped
  OBVIOUS
<1>1. <<>> \in Seq(Turns) /\ <<>> \in Seq(Pieces) /\ 0 \in 0..Len(<<>>)
  OBVIOUS
<1> QED BY <1>1 DEF Init, TurnsTyped

LEMMA NewestTyped ==
  ASSUME NEW S, NEW s \in Seq(S), NEW n \in Nat
  PROVE  Newest(s, n) \in Seq(S)
<1>1. Len(s) \in Nat /\ Lesser(Len(s), n) \in 0..Len(s)
  BY DEF Lesser
<1> DEFINE m == Len(s) - Lesser(Len(s), n) + 1
<1>2. m \in Int /\ Len(s) \in Int /\ \A k \in m..Len(s) : s[k] \in S
  BY <1>1
<1> HIDE DEF m
<1>3. SubSeq(s, m, Len(s)) \in Seq(S)
  BY ONLY <1>2, SubSeqProperties
<1> QED BY <1>3 DEF Newest, m

LEMMA TurnsTypedStep == TurnsTyped /\ [Next]_vars => TurnsTyped'
<1> SUFFICES ASSUME TurnsTyped, [Next]_vars PROVE TurnsTyped'
  OBVIOUS
<1>1. /\ backend \in {"markdown", "short_term", "ranked"}
      /\ turn_file \in Seq(Pieces) /\ accident \in BOOLEAN
      /\ intact \in Seq(Turns) /\ todo \in Seq(Turns) /\ remembered \in Seq(Turns)
      /\ index \in 0..Len(remembered)
  BY DEF TurnsTyped
<1>2. CASE OneRemembered
  <2>1. PICK turn \in Turns : Remember(turn) /\ TodoGoesOn
    BY <1>2 DEF OneRemembered
  <2>2. turn \in Fields
    BY DEF Turns
  <2>3. turn_file' \in Seq(Pieces)
    BY <1>1, <2>1, <2>2, ChunkRead DEF Remember
  <2>4. accident' \in BOOLEAN /\ intact' \in Seq(Turns)
    BY <1>1, <2>1 DEF Remember
  <2>5. todo' \in Seq(Turns)
    BY <1>1, <2>1, TodoTyped
  <2> QED BY <1>1, <2>1, <2>3, <2>4, <2>5 DEF TurnsTyped, Remember, process
<1>3. CASE OneFailed
  <2>1. PICK turn \in Turns : RememberFails(turn)
    BY <1>3 DEF OneFailed
  <2>2. turn \in Fields
    BY DEF Turns
  <2>3. PICK part \in Torn(Chunk(turn)) : turn_file' = turn_file \o part
    BY <2>1 DEF RememberFails
  <2>4. turn_file' \in Seq(Pieces)
    BY <1>1, <2>2, <2>3, TornRead
  <2> QED BY <1>1, <2>1, <2>4 DEF TurnsTyped, RememberFails, process
<1>4. CASE OneRememberedHere
  <2>1. PICK turn \in Turns : RememberHere(turn) /\ TodoGoesOn
    BY <1>4 DEF OneRememberedHere
  <2>2. Append(remembered, turn) \in Seq(Turns) /\ TopK \in Nat
    BY <1>1, PersistenceAssumption
  <2>3. Newest(Append(remembered, turn), TopK) \in Seq(Turns)
    BY <2>2, NewestTyped
  <2>4. remembered' \in Seq(Turns) /\ index' = 0
    BY <2>1, <2>2, <2>3 DEF RememberHere, Invalidated
  <2>5. todo' \in Seq(Turns) /\ intact' \in Seq(Turns)
    BY <1>1, <2>1, TodoTyped DEF RememberHere
  <2> QED BY <1>1, <2>1, <2>4, <2>5 DEF TurnsTyped, RememberHere
<1>5. CASE ReplaceInFile
  <2>1. PICK old \in Texts, new \in Texts \cup {Blank}, query \in SUBSET Texts :
          todo' = Replaced(Recall(Parsed, query), old, new)
    BY <1>5 DEF ReplaceInFile
  <2>2. Recall(Parsed, query) \in Seq(Fields)
    BY <1>1, ParsedTyped, RecallTyped
  <2>3. Replaced(Recall(Parsed, query), old, new) \in Seq({turn \in Fields : ~IsEmpty(turn)})
    BY <2>2, ReplacedTyped, ReplaceTyped, StartTyped
  <2> QED BY <1>1, <1>5, <2>1, <2>3 DEF TurnsTyped, ReplaceInFile, process, Turns
<1>6. CASE SeenHere
  <2>1. PICK seen \in Ranked \cup {remembered} :
          /\ RecallHere(seen)
          /\ \/ todo' = todo
             \/ \E old \in Texts : \E new \in Texts \cup {Blank} : todo' = Replaced(seen, old, new)
    BY <1>6 DEF SeenHere
  <2>2. seen \in Seq(Turns)
    BY <1>1, RankedTyped
  <2>3. seen \in Seq(Fields)
    <3>1. Turns \subseteq Fields
      BY DEF Turns
    <3> QED BY <2>2, <3>1, SeqMonotonic
  <2>4. todo' \in Seq(Turns)
    <3>1. ASSUME NEW old \in Texts, NEW new \in Texts \cup {Blank}
          PROVE  Replaced(seen, old, new) \in Seq({turn \in Fields : ~IsEmpty(turn)})
      BY <2>3, ReplacedTyped, ReplaceTyped, StartTyped
    <3> QED BY <1>1, <2>1, <3>1 DEF Turns
  <2>5. index' \in 0..Len(remembered)
    BY <1>1, <2>1 DEF RecallHere, Indexed
  <2> QED BY <1>1, <1>6, <2>4, <2>5 DEF TurnsTyped, SeenHere
<1>7. CASE Elsewhere
  BY <1>1, <1>7 DEF TurnsTyped, Elsewhere, turns, process
<1> QED BY <1>1, <1>2, <1>3, <1>4, <1>5, <1>6, <1>7, StepsOfTurns

-----------------------------------------------------------------------------
(* The turns written ahead of any accident are recalled first.             *)

LEMMA FrontIs ==
  ASSUME NEW S, NEW s \in Seq(S), NEW n \in Nat, n <= Len(s), NEW front, front = SubSeq(s, 1, n)
  PROVE  front \in Seq(S) /\ Len(front) = n /\ \A k \in 1..n : front[k] = s[k]
<1>1. 1 \in Int /\ n \in Int /\ \A k \in 1..n : s[k] \in S
  OBVIOUS
<1>2. /\ front \in Seq(S) /\ Len(front) = (IF 1 <= n THEN n - 1 + 1 ELSE 0)
      /\ \A k \in 1..(n - 1 + 1) : front[k] = s[1 + k - 1]
  BY <1>1, SubSeqProperties
<1>3. \A k \in 1..n : k \in 1..(n - 1 + 1) /\ 1 + k - 1 = k
  OBVIOUS
<1> QED BY <1>2, <1>3

LEMMA FirstOfPrefix ==
  ASSUME NEW S, NEW s \in Seq(S), NEW t \in Seq(S), IsPrefix(s, t), NEW n \in Nat
  PROVE  IsPrefix(SubSeq(s, 1, Lesser(Len(s), n)), IF Len(t) <= n THEN t ELSE SubSeq(t, 1, n))
<1>1. Len(s) \in Nat /\ Len(t) \in Nat /\ Len(s) <= Len(t) /\ \A k \in 1..Len(s) : s[k] = t[k]
  BY PrefixIs
<1> DEFINE m == Lesser(Len(s), n)
           front == SubSeq(s, 1, m)
           answer == IF Len(t) <= n THEN t ELSE SubSeq(t, 1, n)
<1>2. m \in Nat /\ m <= Len(s) /\ m <= n /\ m <= Len(t)
  BY <1>1 DEF Lesser
<1> HIDE DEF m
<1>3. front \in Seq(S) /\ Len(front) = m /\ \A k \in 1..m : front[k] = s[k]
  BY <1>2, FrontIs
<1>4. answer \in Seq(S) /\ m <= Len(answer) /\ \A k \in 1..m : answer[k] = t[k]
  <2>1. CASE Len(t) <= n
    BY <1>2, <2>1
  <2>2. CASE ~(Len(t) <= n)
    <3> DEFINE u == SubSeq(t, 1, n)
    <3>1. n <= Len(t) /\ answer = u
      BY <1>1, <2>2
    <3>2. u \in Seq(S) /\ Len(u) = n /\ \A k \in 1..n : u[k] = t[k]
      BY <3>1, FrontIs
    <3> HIDE DEF u, answer
    <3> QED BY <1>2, <3>1, <3>2
  <2> QED BY <2>1, <2>2
<1> HIDE DEF front, answer
<1>5. \A k \in 1..m : front[k] = answer[k]
  <2>1. \A k \in 1..m : k \in 1..Len(s)
    BY <1>1, <1>2
  <2> QED BY <1>1, <1>3, <1>4, <2>1
<1>6. IsPrefix(front, answer)
  BY <1>3, <1>4, <1>5, PrefixIs
<1> QED BY <1>6 DEF front, answer, m

(* What is behind a prefix.                                                *)
LEMMA RestBehind ==
  ASSUME NEW S, NEW s \in Seq(S), NEW t \in Seq(S), IsPrefix(s, t)
  PROVE  \E rest \in Seq(S) : t = s \o rest
<1>1. Len(s) \in Nat /\ Len(t) \in Nat /\ Len(s) <= Len(t) /\ \A k \in 1..Len(s) : s[k] = t[k]
  BY PrefixIs
<1> DEFINE m == Len(s) + 1
           n == Len(t)
           rest == SubSeq(t, m, n)
<1>2. m \in Int /\ n \in Int /\ \A k \in m..n : t[k] \in S
  BY <1>1
<1>3. /\ rest \in Seq(S) /\ Len(rest) = (IF m <= n THEN n - m + 1 ELSE 0)
      /\ \A k \in 1..(n - m + 1) : rest[k] = t[m + k - 1]
  <2> HIDE DEF m, n
  <2> QED BY ONLY <1>2, SubSeqProperties
<1> HIDE DEF rest
<1>4. Len(rest) = n - Len(s) /\ \A k \in 1..(n - Len(s)) : rest[k] = t[Len(s) + k]
  <2>1. n - m + 1 = n - Len(s)
    BY <1>1
  <2>2. \A k \in 1..(n - Len(s)) : m + k - 1 = Len(s) + k
    BY <1>1
  <2>3. Len(rest) = n - Len(s)
    BY <1>1, <1>3
  <2> QED BY <1>3, <2>1, <2>2, <2>3
<1> DEFINE both == s \o rest
<1>5. /\ both \in Seq(S) /\ Len(both) = Len(s) + Len(rest)
      /\ \A k \in 1..Len(s) : both[k] = s[k]
      /\ \A k \in 1..Len(rest) : both[Len(s) + k] = rest[k]
  <2>1. s \in Seq(S) /\ rest \in Seq(S) /\ both = s \o rest
    BY <1>3
  <2> HIDE DEF both, m, n
  <2> QED BY ONLY <2>1, ConcatAt
<1> HIDE DEF both
<1>6. Len(both) = Len(t)
  BY <1>1, <1>4, <1>5
<1>7. ASSUME NEW k \in 1..Len(both) PROVE both[k] = t[k]
  <2>1. CASE k \in 1..Len(s)
    BY <1>1, <1>5, <2>1
  <2>2. CASE k \notin 1..Len(s)
    <3> DEFINE j == k - Len(s)
    <3>1. j \in 1..(n - Len(s)) /\ k = Len(s) + j
      BY <1>1, <1>6, <2>2
    <3>2. rest[j] = t[Len(s) + j] /\ both[Len(s) + j] = rest[j]
      BY <1>4, <1>5, <3>1
    <3> QED BY <3>1, <3>2
  <2> QED BY <2>1, <2>2
<1>8. both = t
  BY ONLY <1>5, <1>6, <1>7, t \in Seq(S), SeqEqual
<1> QED BY <1>3, <1>8 DEF both

LEMMA MatchedPrefix ==
  ASSUME NEW S, NEW s \in Seq(S), NEW t \in Seq(S), IsPrefix(s, t), NEW query
  PROVE  IsPrefix(MatchedOf(query, s), MatchedOf(query, t))
<1> DEFINE T == {rest \in Seq(S) : IsPrefix(MatchedOf(query, s), MatchedOf(query, s \o rest))}
<1>1. <<>> \in T
  <2>1. s \o <<>> = s /\ <<>> \in Seq(S)
    OBVIOUS
  <2> QED BY <2>1, MatchedTyped, PrefixSame
<1>2. ASSUME NEW rest \in Seq(S), NEW x \in S, rest \in T PROVE Append(rest, x) \in T
  <2> DEFINE u == s \o rest
             kept == MatchedOf(query, u)
  <2>1. u \in Seq(S) /\ s \o Append(rest, x) = Append(u, x) /\ Append(rest, x) \in Seq(S)
    OBVIOUS
  <2> HIDE DEF u
  <2>2. MatchedOf(query, Append(u, x)) = KeepTurn(query, kept, x)
    BY <2>1, MatchedIs, Matched!ThroughOneMore
  <2>3. kept \in Seq(S) /\ MatchedOf(query, s) \in Seq(S) /\ MatchedOf(query, Append(u, x)) \in Seq(S)
    <3>1. kept \in Seq(S)
      BY <2>1, MatchedTyped
    <3>2. MatchedOf(query, s) \in Seq(S)
      BY MatchedTyped
    <3>3. Append(u, x) \in Seq(S)
      BY <2>1
    <3> HIDE DEF T, kept
    <3>4. MatchedOf(query, Append(u, x)) \in Seq(S)
      BY ONLY <3>3, MatchedTyped
    <3> QED BY <3>1, <3>2, <3>4
  <2>4. IsPrefix(MatchedOf(query, s), kept)
    BY <1>2 DEF u
  <2>5. IsPrefix(kept, KeepTurn(query, kept, x))
    BY <2>3, PrefixSame, PrefixOfMore DEF KeepTurn
  <2> HIDE DEF kept
  <2>6. IsPrefix(MatchedOf(query, s), MatchedOf(query, Append(u, x)))
    BY <2>2, <2>3, <2>4, <2>5, PrefixOfPrefix
  <2> QED BY <2>1, <2>6
<1> HIDE DEF T
<1>3. Seq(S) \subseteq T
  BY <1>1, <1>2, Matched!SequenceInduction
<1> QED BY <1>3, RestBehind DEF T

LEMMA RecallInOrder ==
  ASSUME NEW S, NEW before \in Seq(S), NEW parsed \in Seq(S), IsPrefix(before, parsed), NEW query
  PROVE  LET expected == Filter(before, LAMBDA turn : Matches(query, turn))
             answer == Recall(parsed, query)
         IN /\ IsPrefix(SubSeq(expected, 1, Lesser(Len(expected), TopK)), answer)
            /\ Len(answer) <= TopK
<1> DEFINE expected == MatchedOf(query, before)
           matched == MatchedOf(query, parsed)
<1>1. expected \in Seq(S) /\ matched \in Seq(S) /\ IsPrefix(expected, matched) /\ TopK \in Nat
  BY MatchedTyped, MatchedPrefix, PersistenceAssumption
<1>2. Recall(parsed, query) = IF Len(matched) <= TopK THEN matched ELSE SubSeq(matched, 1, TopK)
  BY DEF Recall, OldestOf, MatchedOf
<1> HIDE DEF expected, matched
<1>3. IsPrefix(SubSeq(expected, 1, Lesser(Len(expected), TopK)), Recall(parsed, query))
  BY <1>1, <1>2, FirstOfPrefix
<1>4. Len(Recall(parsed, query)) <= TopK
  BY RecallTyped
<1> QED BY <1>3, <1>4 DEF expected, MatchedOf

TurnsInOrder ==
  backend = "markdown" =>
    /\ IsPrefix(intact, Read(turn_file).state.parsed)
    /\ ~accident => /\ ~Read(turn_file).state.open /\ Read(turn_file).line = <<>>
                    /\ Read(turn_file).state.parsed = intact

LEMMA TurnsInOrderInit == Init => TurnsInOrder
<1> SUFFICES ASSUME Init PROVE TurnsInOrder
  OBVIOUS
<1>1. turn_file = <<>> /\ intact = <<>>
  BY DEF Init
<1>2. Read(turn_file) = [state |-> Start, line |-> <<>>]
  BY <1>1, ReadNone
<1>3. Start.parsed = <<>> /\ ~Start.open
  BY DEF Start
<1>4. <<>> \in Seq(Fields)
  OBVIOUS
<1>5. IsPrefix(<<>>, <<>>)
  BY <1>4, PrefixSame
<1> QED BY <1>1, <1>2, <1>3, <1>5 DEF TurnsInOrder

LEMMA TurnsInOrderStep == TurnsTyped /\ TurnsInOrder /\ [Next]_vars => TurnsInOrder'
<1> SUFFICES ASSUME TurnsTyped, TurnsInOrder, [Next]_vars, backend' = "markdown"
             PROVE  /\ IsPrefix(intact, Read(turn_file).state.parsed)'
                    /\ (~accident => /\ ~Read(turn_file).state.open /\ Read(turn_file).line = <<>>
                                     /\ Read(turn_file).state.parsed = intact)'
  BY DEF TurnsInOrder
<1> DEFINE reader == Read(turn_file)
           next == Read(turn_file')
<1>1. turn_file \in Seq(Pieces) /\ intact \in Seq(Turns) /\ todo \in Seq(Turns) /\ accident \in BOOLEAN
  BY DEF TurnsTyped
<1>2. intact \in Seq(Fields)
  <2>1. Turns \subseteq Fields
    BY DEF Turns
  <2> QED BY <1>1, <2>1, SeqMonotonic
<1>3. reader \in Readers /\ reader.state \in States /\ reader.state.parsed \in Seq(Fields)
  BY <1>1, ReadTyped, StateIs DEF Readers
<1>4. backend = "markdown" =>
        /\ IsPrefix(intact, reader.state.parsed)
        /\ ~accident => ~reader.state.open /\ reader.line = <<>> /\ reader.state.parsed = intact
  BY DEF TurnsInOrder
<1>5. CASE OneRemembered
  <2>1. PICK turn \in Turns : Remember(turn)
    BY <1>5 DEF OneRemembered
  <2>2. /\ backend = "markdown" /\ turn_file' = turn_file \o Chunk(turn)
        /\ accident' = (accident \/ turn.assistant \in Collides)
        /\ intact' = IF accident' THEN intact ELSE Append(intact, turn)
    BY <2>1 DEF Remember
  <2>3. turn \in Fields /\ ~IsEmpty(turn)
    BY DEF Turns
  <2>4. next = [state |-> IF turn.assistant \in Collides THEN Collided(reader, turn)
                          ELSE EndOfRows(reader, turn), line |-> <<>>]
    BY <1>1, <2>2, <2>3, ChunkRead
  <2> HIDE DEF reader, next
  <2>5. next.line = <<>> /\ next.state \in Stages(reader, turn)
    BY <2>4 DEF Stages
  <2>6. next.state.parsed \in Seq(Fields) /\ IsPrefix(reader.state.parsed, next.state.parsed)
    BY <1>3, <2>3, <2>5, StagesExtend
  <2>7. CASE accident'
    <3>1. IsPrefix(intact, next.state.parsed)
      BY <1>2, <1>3, <1>4, <2>2, <2>6, PrefixOfPrefix
    <3> QED BY <2>2, <2>7, <3>1 DEF next
  <2>8. CASE ~accident'
    <3>1. /\ ~accident /\ turn.assistant \notin Collides
          /\ ~reader.state.open /\ reader.line = <<>> /\ reader.state.parsed = intact
      BY <1>4, <2>2, <2>8
    <3>2. Opened(reader) = OpenState(NoRows, intact)
      BY <1>3, <3>1, OpenedIs
    <3>3. EndOfRows(reader, turn) = ClosedState(turn, WithTurn(intact, turn))
      BY <1>3, <2>3, <3>2, RowsRead, StartTyped
    <3>4. WithTurn(intact, turn) = Append(intact, turn) /\ intact' = Append(intact, turn)
      BY <2>2, <2>3, <2>8 DEF WithTurn
    <3>5. next.state = ClosedState(turn, intact')
      BY <2>4, <3>1, <3>3, <3>4
    <3>6. ~next.state.open /\ next.state.parsed = intact'
      BY <3>5, StateParts
    <3>7. intact' \in Seq(Fields)
      BY <1>2, <2>3, <3>4
    <3>8. IsPrefix(intact', intact')
      BY <3>7, PrefixSame
    <3> QED BY <2>5, <3>6, <3>8 DEF next
  <2> QED BY <2>7, <2>8
<1>6. CASE OneFailed
  <2>1. PICK turn \in Turns : RememberFails(turn)
    BY <1>6 DEF OneFailed
  <2>2. turn \in Fields
    BY DEF Turns
  <2>3. PICK part \in Torn(Chunk(turn)) : turn_file' = turn_file \o part
    BY <2>1 DEF RememberFails
  <2>4. backend = "markdown" /\ accident' /\ intact' = intact
    BY <2>1 DEF RememberFails
  <2>5. next.state \in Stages(reader, turn)
    BY <1>1, <2>2, <2>3, TornRead
  <2> HIDE DEF reader, next
  <2>6. next.state.parsed \in Seq(Fields) /\ IsPrefix(reader.state.parsed, next.state.parsed)
    BY <1>3, <2>2, <2>5, StagesExtend
  <2>7. IsPrefix(intact, next.state.parsed)
    BY <1>2, <1>3, <1>4, <2>4, <2>6, PrefixOfPrefix
  <2> QED BY <2>4, <2>7 DEF next
<1>7. CASE OneRememberedHere
  <2>1. backend' # "markdown"
    BY <1>7 DEF OneRememberedHere, RememberHere
  <2> QED BY <2>1
<1>8. CASE UNCHANGED <<backend, turn_file, intact, accident>>
  BY <1>4, <1>8
<1>9. ReplaceInFile \/ SeenHere \/ Elsewhere => UNCHANGED <<backend, turn_file, intact, accident>>
  BY DEF ReplaceInFile, SeenHere, Elsewhere, turns
<1> QED BY <1>1, <1>5, <1>6, <1>7, <1>8, <1>9, StepsOfTurns

(* The turns written ahead of any accident stay readable for ever, however *)
(* many writes are cut short after it and wherever, and whatever the texts *)
(* collide with: a query is answered with those of them it matches first,  *)
(* in order, up to the limit.                                              *)
THEOREM IntactTurnsStayFirst == Spec => [](backend = "markdown" => IntactTurnsFirst)
<1>1. TurnsTyped /\ TurnsInOrder => (backend = "markdown" => IntactTurnsFirst)
  <2> SUFFICES ASSUME TurnsTyped, TurnsInOrder, backend = "markdown" PROVE IntactTurnsFirst
    OBVIOUS
  <2>1. turn_file \in Seq(Pieces) /\ intact \in Seq(Turns)
    BY DEF TurnsTyped
  <2>2. intact \in Seq(Fields)
    <3>1. Turns \subseteq Fields
      BY DEF Turns
    <3> QED BY <2>1, <3>1, SeqMonotonic
  <2> DEFINE state == Read(turn_file).state
             line == Read(turn_file).line
  <2>3. state \in States /\ line \in Seq(Pieces)
    BY <2>1, ReadTyped DEF Readers
  <2>4. IsPrefix(intact, state.parsed)
    BY DEF TurnsInOrder
  <2>5. Parsed = ParseLine(state, line).parsed
    BY <2>1, ParsedIs
  <2> HIDE DEF state, line
  <2>6. state.parsed \in Seq(Fields) /\ IsPrefix(state.parsed, Parsed)
    BY <2>3, <2>5, StateIs, ParseExtends
  <2>7. Parsed \in Seq(Fields)
    BY <2>1, ParsedTyped
  <2>8. IsPrefix(intact, Parsed)
    BY <2>2, <2>4, <2>6, <2>7, PrefixOfPrefix
  <2>9. ASSUME NEW query
        PROVE  LET expected == Filter(intact, LAMBDA turn : Matches(query, turn))
                   answer == Recall(Parsed, query)
               IN /\ IsPrefix(SubSeq(expected, 1, Lesser(Len(expected), TopK)), answer)
                  /\ Len(answer) <= TopK
    BY <2>2, <2>7, <2>8, RecallInOrder
  <2> QED BY <2>9 DEF IntactTurnsFirst
<1>2. Spec => [](TurnsTyped /\ TurnsInOrder)
  BY TurnsTypedInit, TurnsTypedStep, TurnsInOrderInit, TurnsInOrderStep, PTL DEF Spec
<1> QED BY <1>1, <1>2, PTL


-----------------------------------------------------------------------------
(* The question of one turn is not recalled with the answer of another, if *)
(* no more than one write is cut short: before it the reader is between    *)
(* two chunks, and has no rows or only those of the turn it has just read  *)
(* (Fresh); and what one cut leaves in its rows goes together (Sound).     *)

CoherentFields == {turn \in Fields : Coherent(turn)}

TurnsUnmixed ==
  /\ tears \in Nat
  /\ backend = "markdown" =>
       /\ Sound(Read(turn_file).state)
       /\ tears < MaxTears => Read(turn_file).line = <<>> /\ Fresh(Read(turn_file).state)
       /\ todo \in Seq(CoherentFields)

LEMMA CoherentSeq ==
  ASSUME NEW parsed \in Seq(Fields), AllCoherent(parsed)
  PROVE  parsed \in Seq(CoherentFields)
<1>1. \A k \in 1..Len(parsed) : parsed[k] \in CoherentFields
  BY DEF AllCoherent, CoherentFields
<1> QED BY <1>1

LEMMA ParseSound ==
  ASSUME NEW state \in States, NEW line \in Seq(Pieces), Sound(state)
  PROVE  AllCoherent(ParseLine(state, line).parsed)
<1> DEFINE rows == state.rows
           parsed == state.parsed
<1>1. /\ rows \in Fields /\ parsed \in Seq(Fields) /\ AllCoherent(parsed)
      /\ \/ state = OpenState(rows, parsed) /\ Coherent(rows)
         \/ state = ClosedState(rows, parsed)
  BY StateIs DEF Sound
<1> HIDE DEF rows, parsed
<1>2. Coherent(rows) => AllCoherent(WithTurn(parsed, rows))
  BY <1>1, WithCoherent
<1>3. CASE line = <<Delimiter>>
  <2>1. ParseLine(state, line) \in {ClosedState(rows, WithTurn(parsed, rows)), OpenState(NoRows, parsed)}
        /\ (state = OpenState(rows, parsed) =>
              ParseLine(state, line) = ClosedState(rows, WithTurn(parsed, rows)))
        /\ (state = ClosedState(rows, parsed) => ParseLine(state, line) = OpenState(NoRows, parsed))
    BY <1>1, <1>3, DelimiterLine
  <2> QED BY <1>1, <1>2, <2>1, StateParts
<1>4. CASE line # <<Delimiter>>
  <2>1. ParseLine(state, line) = OpenState(ReadRow(rows, line), parsed)
        \/ ParseLine(state, line) = ClosedState(rows, parsed)
    BY <1>1, <1>4, OtherLine
  <2> QED BY <1>1, <2>1, StateParts
<1> QED BY <1>3, <1>4

LEMMA ParsedCoherent ==
  ASSUME turn_file \in Seq(Pieces), Sound(Read(turn_file).state)
  PROVE  Parsed \in Seq(CoherentFields) /\ AllCoherent(Parsed)
<1>1. Read(turn_file).state \in States /\ Read(turn_file).line \in Seq(Pieces)
  BY ReadTyped DEF Readers
<1>2. AllCoherent(Parsed)
  BY <1>1, ParsedIs, ParseSound
<1> QED BY <1>2, ParsedTyped, CoherentSeq

LEMMA ReplaceCoherent ==
  ASSUME NEW old \in Texts, NEW new \in Texts \cup {Blank}
  PROVE  \A turn \in CoherentFields : Replace(turn, old, new) \in CoherentFields
<1> SUFFICES ASSUME NEW turn \in CoherentFields PROVE Replace(turn, old, new) \in CoherentFields
  OBVIOUS
<1>1. turn \in Fields /\ Coherent(turn) /\ Replace(turn, old, new) \in Fields
  BY ReplaceTyped DEF CoherentFields
<1>2. old # Blank /\ old # Garbage
  BY PersistenceAssumption
<1>3. LET In(text) == IF text = old THEN new ELSE text
      IN Replace(turn, old, new).user = In(turn.user)
         /\ Replace(turn, old, new).assistant = In(turn.assistant)
  BY DEF Replace, Turn
<1>4. Coherent(Replace(turn, old, new))
  BY <1>1, <1>2, <1>3 DEF Coherent
<1> QED BY <1>1, <1>4 DEF CoherentFields

LEMMA TurnsUnmixedInit == Init => TurnsUnmixed
<1> SUFFICES ASSUME Init PROVE TurnsUnmixed
  OBVIOUS
<1>1. turn_file = <<>> /\ todo = <<>> /\ tears = 0
  BY DEF Init
<1>2. Read(turn_file) = [state |-> Start, line |-> <<>>]
  BY <1>1, ReadNone
<1>3. Start.parsed = <<>> /\ ~Start.open
  BY DEF Start
<1>4. Sound(Start) /\ Fresh(Start)
  BY <1>3 DEF Sound, Fresh, AllCoherent
<1> QED BY <1>1, <1>2, <1>4 DEF TurnsUnmixed

LEMMA TurnsUnmixedStep ==
  ASSUME MaxTears <= 1
  PROVE  TurnsTyped /\ TurnsUnmixed /\ [Next]_vars => TurnsUnmixed'
<1> SUFFICES ASSUME TurnsTyped, TurnsUnmixed, [Next]_vars PROVE TurnsUnmixed'
  OBVIOUS
<1> DEFINE reader == Read(turn_file)
           next == Read(turn_file')
<1>1. turn_file \in Seq(Pieces) /\ todo \in Seq(Turns) /\ tears \in Nat /\ MaxTears \in Nat
  BY PersistenceAssumption DEF TurnsTyped, TurnsUnmixed
<1>2. reader \in Readers
  BY <1>1, ReadTyped
<1>3. backend = "markdown" =>
        /\ Sound(reader.state)
        /\ tears < MaxTears => reader.line = <<>> /\ Fresh(reader.state)
        /\ todo \in Seq(CoherentFields)
  BY DEF TurnsUnmixed
<1>4. ASSUME NEW turn, Source(turn), backend = "markdown" PROVE Coherent(turn)
  <2>1. CASE \E t \in Texts : turn = Turn(t, t)
    BY <2>1 DEF Coherent, Turn
  <2>2. CASE todo # <<>> /\ turn = Head(todo)
    BY <1>3, <1>4, <2>2 DEF CoherentFields
  <2> QED BY <1>4, <2>1, <2>2 DEF Source
<1>5. CASE OneRemembered
  <2>1. PICK turn \in Turns : Source(turn) /\ Remember(turn) /\ TodoGoesOn
    BY <1>5 DEF OneRemembered
  <2>2. backend = "markdown" /\ turn_file' = turn_file \o Chunk(turn) /\ tears' = tears
    BY <2>1 DEF Remember
  <2>3. turn \in Fields /\ Coherent(turn)
    BY <1>4, <2>1, <2>2 DEF Turns
  <2>4. next = [state |-> IF turn.assistant \in Collides THEN Collided(reader, turn)
                          ELSE EndOfRows(reader, turn), line |-> <<>>]
    BY <1>1, <2>2, <2>3, ChunkRead
  <2>5. todo' \in Seq(CoherentFields)
    <3>1. todo \in Seq(CoherentFields) /\ TodoGoesOn
      BY <1>3, <2>1, <2>2
    <3> QED BY ONLY <3>1 DEF TodoGoesOn
  <2> HIDE DEF reader, next
  <2>6. Sound(next.state) /\ Fresh(next.state) /\ next.line = <<>>
    BY <1>2, <1>3, <2>2, <2>3, <2>4, StagesSound
  <2> QED BY <1>1, <2>2, <2>5, <2>6 DEF TurnsUnmixed, next
<1>6. CASE OneFailed
  <2>1. PICK turn \in Turns : Source(turn) /\ RememberFails(turn)
    BY <1>6 DEF OneFailed
  <2>2. backend = "markdown" /\ tears < MaxTears /\ tears' = tears + 1 /\ todo' = <<>>
    BY <2>1 DEF RememberFails, Tear
  <2>3. turn \in Fields /\ Coherent(turn)
    BY <1>4, <2>1, <2>2 DEF Turns
  <2>4. PICK part \in Torn(Chunk(turn)) : turn_file' = turn_file \o part
    BY <2>1 DEF RememberFails
  <2>5. next.state \in Stages(reader, turn)
    BY <1>1, <2>3, <2>4, TornRead
  <2> HIDE DEF reader, next
  <2>6. Sound(next.state)
    BY <1>2, <1>3, <2>2, <2>3, <2>5, StagesSound
  <2>7. tears' \in Nat /\ ~(tears' < MaxTears)
    BY <1>1, <2>2
  <2> QED BY <2>2, <2>6, <2>7 DEF TurnsUnmixed, next
<1>7. CASE OneRememberedHere
  <2>1. backend' # "markdown" /\ tears' = tears
    BY <1>7 DEF OneRememberedHere, RememberHere
  <2> QED BY <1>1, <2>1 DEF TurnsUnmixed
<1>8. CASE ReplaceInFile
  <2>1. PICK old \in Texts, new \in Texts \cup {Blank}, query \in SUBSET Texts :
          todo' = Replaced(Recall(Parsed, query), old, new)
    BY <1>8 DEF ReplaceInFile
  <2>2. backend = "markdown" /\ UNCHANGED <<backend, turn_file, tears>>
    BY <1>8 DEF ReplaceInFile
  <2>3. Recall(Parsed, query) \in Seq(CoherentFields)
    BY <1>1, <1>3, <2>2, ParsedCoherent, RecallTyped
  <2>4. NoRows \in CoherentFields
    BY StartTyped, CoherentRows DEF CoherentFields
  <2>5. Replaced(Recall(Parsed, query), old, new) \in Seq({turn \in CoherentFields : ~IsEmpty(turn)})
    BY <2>3, <2>4, ReplacedTyped, ReplaceCoherent
  <2>6. Seq({turn \in CoherentFields : ~IsEmpty(turn)}) \subseteq Seq(CoherentFields)
    BY SeqMonotonic
  <2> QED BY <1>1, <1>3, <2>1, <2>2, <2>5, <2>6 DEF TurnsUnmixed
<1>9. CASE SeenHere
  <2>1. backend' # "markdown" /\ tears' = tears
    BY <1>9 DEF SeenHere, RecallHere
  <2> QED BY <1>1, <2>1 DEF TurnsUnmixed
<1>10. CASE Elsewhere
  <2>1. UNCHANGED <<backend, turn_file, todo>>
    BY <1>10 DEF Elsewhere, turns
  <2>2. tears' \in Nat /\ (tears' < MaxTears => tears < MaxTears)
    BY <1>1, <1>10 DEF Elsewhere
  <2> QED BY <1>3, <2>1, <2>2 DEF TurnsUnmixed
<1> QED BY <1>1, <1>5, <1>6, <1>7, <1>8, <1>9, <1>10, StepsOfTurns

(* Of a file of which at most one write was cut short, wherever, the turns *)
(* ahead of the cut are recalled in order, and no question with the answer *)
(* of another turn unless what is missing shows.                           *)
THEOREM OneCutMixesNothing ==
  ASSUME MaxTears <= 1
  PROVE  Spec => []IntactTurnsRecalled
<1>1. TurnsTyped /\ TurnsUnmixed /\ (backend = "markdown" => IntactTurnsFirst) => IntactTurnsRecalled
  BY ParsedCoherent DEF TurnsTyped, TurnsUnmixed, IntactTurnsRecalled, AllCoherent
<1>2. Init => TurnsTyped /\ TurnsUnmixed
  BY TurnsTypedInit, TurnsUnmixedInit
<1>3. TurnsTyped /\ TurnsUnmixed /\ [Next]_vars => TurnsTyped' /\ TurnsUnmixed'
  BY TurnsTypedStep, TurnsUnmixedStep
<1> QED BY <1>1, <1>2, <1>3, IntactTurnsStayFirst, PTL DEF Spec

-----------------------------------------------------------------------------
(* The memories in the process.                                            *)

Count(turn, seq) == Cardinality({k \in DOMAIN seq : seq[k] = turn})

LEMMA NewestIs ==
  ASSUME NEW S, NEW s \in Seq(S), NEW n \in Nat
  PROVE  /\ Newest(s, n) \in Seq(S) /\ Len(Newest(s, n)) = Lesser(Len(s), n)
         /\ Lesser(Len(s), n) \in 0..Len(s)
         /\ \A k \in 1..Lesser(Len(s), n) : Newest(s, n)[k] = s[Len(s) - Lesser(Len(s), n) + k]
<1> DEFINE m == Lesser(Len(s), n)
           first == Len(s) - m + 1
           last == Len(s)
<1>1. last \in Nat /\ m \in 0..last
  BY DEF Lesser
<1>2. first \in Int /\ last \in Int /\ \A k \in first..last : s[k] \in S
  BY <1>1
<1>3. Newest(s, n) = SubSeq(s, first, last)
  BY DEF Newest
<1>4. last - first + 1 = m /\ (IF first <= last THEN last - first + 1 ELSE 0) = m
      /\ \A k \in 1..m : first + k - 1 = last - m + k
  BY <1>1
<1> HIDE DEF first
<1>5. /\ SubSeq(s, first, last) \in Seq(S)
      /\ Len(SubSeq(s, first, last)) = (IF first <= last THEN last - first + 1 ELSE 0)
      /\ \A k \in 1..(last - first + 1) : SubSeq(s, first, last)[k] = s[first + k - 1]
  <2> HIDE DEF last
  <2> QED BY ONLY <1>2, SubSeqProperties
<1> QED BY <1>1, <1>3, <1>4, <1>5

(* To keep the newest, and to keep the newest of those kept, is the same.  *)
LEMMA NewestOfNewest ==
  ASSUME NEW S, NEW s \in Seq(S), NEW x \in S, NEW n \in Nat \ {0}
  PROVE  Newest(Append(Newest(s, n), x), n) = Newest(Append(s, x), n)
<1> DEFINE kept == Newest(s, n)
           m == Lesser(Len(s), n)
           few == Append(kept, x)
           many == Append(s, x)
           l == Lesser(Len(many), n)
<1>1. kept \in Seq(S) /\ Len(kept) = m /\ m \in 0..Len(s) /\ \A k \in 1..m : kept[k] = s[Len(s) - m + k]
  <2>1. s \in Seq(S) /\ n \in Nat /\ m = Lesser(Len(s), n)
    OBVIOUS
  <2> QED BY ONLY <2>1, NewestIs
<1> HIDE DEF kept
<1>2. /\ few \in Seq(S) /\ Len(few) = m + 1 /\ few[m + 1] = x /\ \A k \in 1..m : few[k] = kept[k]
      /\ many \in Seq(S) /\ Len(many) = Len(s) + 1 /\ many[Len(s) + 1] = x
      /\ \A k \in 1..Len(s) : many[k] = s[k]
  BY <1>1
<1> HIDE DEF few, many
<1>3. l \in 1..(m + 1) /\ l = Lesser(Len(few), n) /\ Len(s) \in Nat
  BY <1>2 DEF Lesser
<1> HIDE DEF m, l
<1>4. /\ Newest(few, n) \in Seq(S) /\ Len(Newest(few, n)) = l
      /\ \A k \in 1..l : Newest(few, n)[k] = few[Len(few) - l + k]
  <2>1. few \in Seq(S) /\ n \in Nat /\ l = Lesser(Len(few), n)
    BY <1>2, <1>3
  <2> QED BY ONLY <2>1, NewestIs
<1>5. /\ Newest(many, n) \in Seq(S) /\ Len(Newest(many, n)) = l
      /\ \A k \in 1..l : Newest(many, n)[k] = many[Len(many) - l + k]
  <2>1. many \in Seq(S) /\ n \in Nat /\ l = Lesser(Len(many), n)
    BY <1>2 DEF l
  <2> QED BY ONLY <2>1, NewestIs
<1>6. ASSUME NEW k \in 1..l PROVE few[Len(few) - l + k] = many[Len(many) - l + k]
  <2> DEFINE j == m + 1 - l + k
  <2>1. j \in 1..(m + 1) /\ Len(few) - l + k = j /\ Len(many) - l + k = Len(s) - m + j
    <3>1. l \in Int /\ m \in Int /\ Len(s) \in Int /\ k \in Int /\ 1 <= k /\ k <= l /\ l <= m + 1
      BY <1>1, <1>3
    <3>2. Len(few) = m + 1 /\ Len(many) = Len(s) + 1
      BY <1>2
    <3> QED BY ONLY <3>1, <3>2
  <2> HIDE DEF j
  <2>2. CASE j = m + 1
    <3>1. Len(s) - m + j = Len(s) + 1
      BY <1>1, <1>3, <2>2
    <3> QED BY <1>2, <2>1, <2>2, <3>1
  <2>3. CASE j \in 1..m
    <3>1. Len(s) - m + j \in 1..Len(s)
      BY <1>1, <1>3, <2>3
    <3> QED BY <1>1, <1>2, <2>1, <2>3, <3>1
  <2> QED BY <1>1, <1>3, <2>1, <2>2, <2>3
<1>7. \A k \in 1..Len(Newest(few, n)) : Newest(few, n)[k] = Newest(many, n)[k]
  BY <1>4, <1>5, <1>6
<1>8. Newest(few, n) = Newest(many, n)
  BY <1>4, <1>5, <1>7, SeqEqual
<1> QED BY <1>8 DEF few, many, kept

(* What is picked by position, none twice, is not more often among what    *)
(* was picked than among all.                                              *)
LEMMA PickedOnce ==
  ASSUME NEW S, NEW all \in Seq(S), NEW picked \in Seq(S), NEW turn,
         NEW order \in [1..Len(picked) -> 1..Len(all)],
         \A i, j \in 1..Len(picked) : order[i] = order[j] => i = j,
         \A k \in 1..Len(picked) : picked[k] = all[order[k]]
  PROVE  Count(turn, picked) <= Count(turn, all)
<1> DEFINE A == {k \in 1..Len(picked) : picked[k] = turn}
           B == {k \in 1..Len(all) : all[k] = turn}
           f == [k \in A |-> order[k]]
<1>1. \A k \in A : order[k] \in B
  OBVIOUS
<1>2. f \in Injection(A, B)
  BY <1>1 DEF Injection, IsInjective
<1>3. IsFiniteSet(B)
  <2>1. Len(all) \in Int /\ B \in SUBSET (1..Len(all))
    OBVIOUS
  <2> HIDE DEF B
  <2>2. IsFiniteSet(1..Len(all))
    BY <2>1, FS_Interval
  <2> QED BY ONLY <2>1, <2>2, FS_Subset
<1> HIDE DEF A, B, f
<1>4. Cardinality(A) <= Cardinality(B)
  BY <1>2, <1>3, FS_Injection
<1>5. DOMAIN picked = 1..Len(picked) /\ DOMAIN all = 1..Len(all)
  OBVIOUS
<1> QED BY <1>4, <1>5 DEF Count, A, B

LEMMA RankedIs ==
  ASSUME remembered \in Seq(Turns), index \in {0, Len(remembered)}, NEW seen \in Ranked
  PROVE  /\ seen \in Seq(Turns) /\ Len(seen) = Lesser(TopK, Len(remembered))
         /\ \A turn : Count(turn, seen) <= Count(turn, remembered)
<1> DEFINE n == Lesser(TopK, Len(remembered))
<1>1. Indexed = Len(remembered) /\ n \in Nat /\ Len(remembered) \in Nat
  BY PersistenceAssumption DEF Indexed, Lesser
<1>2. seen \in {[k \in DOMAIN order |-> remembered[order[k]]] :
                  order \in {o \in [1..n -> 1..Len(remembered)] :
                              \A i, j \in DOMAIN o : o[i] = o[j] => i = j}}
  BY <1>1 DEF Ranked
<1> HIDE DEF n
<1>3. PICK order \in [1..n -> 1..Len(remembered)] :
        /\ \A i, j \in 1..n : order[i] = order[j] => i = j
        /\ seen = [k \in 1..n |-> remembered[order[k]]]
  BY <1>2
<1>4. \A k \in 1..n : remembered[order[k]] \in Turns
  BY <1>3
<1>5. seen \in [1..n -> Turns] /\ \A k \in 1..n : seen[k] = remembered[order[k]]
  BY <1>3, <1>4
<1>6. seen \in Seq(Turns) /\ Len(seen) = n
  BY <1>1, <1>5
<1>7. ASSUME NEW turn PROVE Count(turn, seen) <= Count(turn, remembered)
  BY <1>3, <1>5, <1>6, PickedOnce
<1> QED BY <1>6, <1>7 DEF n

LEMMA NewestPicked ==
  ASSUME NEW S, NEW s \in Seq(S), NEW n \in Nat
  PROVE  \A turn : Count(turn, Newest(s, n)) <= Count(turn, s)
<1> SUFFICES ASSUME NEW turn PROVE Count(turn, Newest(s, n)) <= Count(turn, s)
  OBVIOUS
<1> DEFINE picked == Newest(s, n)
           m == Lesser(Len(s), n)
           order == [k \in 1..m |-> Len(s) - m + k]
<1>1. /\ picked \in Seq(S) /\ Len(picked) = m /\ m \in 0..Len(s)
      /\ \A k \in 1..m : picked[k] = s[Len(s) - m + k]
  <2>1. s \in Seq(S) /\ n \in Nat /\ m = Lesser(Len(s), n)
    OBVIOUS
  <2> QED BY ONLY <2>1, NewestIs
<1> HIDE DEF picked, m
<1>2. order \in [1..m -> 1..Len(s)] /\ \A i, j \in 1..m : order[i] = order[j] => i = j
  BY <1>1
<1>3. \A k \in 1..m : picked[k] = s[order[k]]
  BY <1>1
<1> HIDE DEF order
<1>4. Count(turn, picked) <= Count(turn, s)
  BY <1>1, <1>2, <1>3, PickedOnce
<1> QED BY <1>4 DEF picked

(* The short memory is the newest of all turns, the others are all turns;  *)
(* an index is of all of them or of none.                                  *)
ProcessHasAll ==
  /\ backend # "markdown" =>
       remembered = IF backend = "short_term" THEN Newest(intact, TopK) ELSE intact
  /\ index \in {0, Len(remembered)} /\ (backend = "short_term" => index = 0)
  /\ recalled.of \in 0..Len(intact)

(* RecallSeesEveryTurn of a recall of some turns out of those before it.   *)
GoodRecall(recall, before) ==
  /\ Len(recall) = Lesser(TopK, Len(before))
  /\ \A turn \in ToSet(recall) : Count(turn, recall) <= Count(turn, before)
  /\ backend = "short_term" => recall = Newest(before, TopK)

GoodBefore ==
  intact \in Seq(Turns) /\ recalled.of \in 0..Len(intact) =>
    (RecallSeesEveryTurn <=> GoodRecall(recalled.turns, SubSeq(intact, 1, recalled.of)))

LEMMA BeforeIs == GoodBefore
<1> SUFFICES ASSUME intact \in Seq(Turns), recalled.of \in 0..Len(intact)
             PROVE  RecallSeesEveryTurn <=> GoodRecall(recalled.turns, SubSeq(intact, 1, recalled.of))
  BY DEF GoodBefore
<1> DEFINE before == SubSeq(intact, 1, recalled.of)
<1>1. Len(before) = recalled.of
  BY FrontIs
<1> HIDE DEF before
<1>2. (LET Times(turn, seq) == Cardinality({k \in DOMAIN seq : seq[k] = turn})
       IN /\ Len(recalled.turns) = Lesser(TopK, recalled.of)
          /\ \A turn \in ToSet(recalled.turns) : Times(turn, recalled.turns) <= Times(turn, before)
          /\ backend = "short_term" => recalled.turns = Newest(before, TopK))
      <=> GoodRecall(recalled.turns, before)
  BY <1>1 DEF GoodRecall, Count
<1> QED BY <1>2 DEF RecallSeesEveryTurn, before

LEMMA BeforeIsNext == GoodBefore'
BY BeforeIs, PTL

(* What was recalled stays as good as it was while turns are added.        *)
LEMMA SameBefore ==
  ASSUME NEW S, NEW s \in Seq(S), NEW x \in S, NEW n \in 0..Len(s)
  PROVE  SubSeq(Append(s, x), 1, n) = SubSeq(s, 1, n) /\ n \in 0..Len(Append(s, x))
<1> DEFINE more == Append(s, x)
           short == SubSeq(s, 1, n)
           long == SubSeq(more, 1, n)
<1>1. more \in Seq(S) /\ Len(more) = Len(s) + 1 /\ \A k \in 1..Len(s) : more[k] = s[k]
  OBVIOUS
<1>2. n \in Nat /\ n <= Len(s) /\ n <= Len(more)
  BY <1>1
<1>3. short \in Seq(S) /\ Len(short) = n /\ \A k \in 1..n : short[k] = s[k]
  BY <1>2, FrontIs
<1> HIDE DEF more
<1>4. long \in Seq(S) /\ Len(long) = n /\ \A k \in 1..n : long[k] = more[k]
  BY <1>1, <1>2, FrontIs
<1> HIDE DEF short, long
<1>5. \A k \in 1..Len(long) : long[k] = short[k]
  BY <1>1, <1>2, <1>3, <1>4
<1>6. long = short
  BY <1>3, <1>4, <1>5, SeqEqual
<1> QED BY <1>1, <1>6 DEF more, short, long

LEMMA ProcessHasAllInit == Init => ProcessHasAll /\ RecallSeesEveryTurn
<1> SUFFICES ASSUME Init PROVE ProcessHasAll /\ RecallSeesEveryTurn
  OBVIOUS
<1>1. remembered = <<>> /\ intact = <<>> /\ index = 0 /\ recalled.turns = <<>> /\ recalled.of = 0
  BY DEF Init
<1>2. TopK \in Nat \ {0} /\ <<>> \in Seq(Turns) /\ Len(<<>>) = 0
  BY PersistenceAssumption
<1>3. Newest(<<>>, TopK) = <<>>
  <2>1. Newest(<<>>, TopK) \in Seq(Turns) /\ Len(Newest(<<>>, TopK)) = Lesser(0, TopK)
    BY <1>2, NewestIs
  <2>2. Lesser(0, TopK) = 0
    BY <1>2 DEF Lesser
  <2> QED BY <2>1, <2>2
<1>4. SubSeq(<<>>, 1, 0) = <<>>
  BY SubSeqEmpty
<1>5. GoodRecall(<<>>, <<>>)
  BY <1>2, <1>3 DEF GoodRecall, Lesser, ToSet
<1>6. RecallSeesEveryTurn
  <2>1. intact \in Seq(Turns) /\ recalled.of \in 0..Len(intact)
    BY <1>1, <1>2
  <2>2. GoodRecall(recalled.turns, SubSeq(intact, 1, recalled.of))
    BY <1>1, <1>4, <1>5
  <2> QED BY <2>1, <2>2, BeforeIs DEF GoodBefore
<1> QED BY <1>1, <1>2, <1>3, <1>6 DEF ProcessHasAll

LEMMA RecalledBefore ==
  ASSUME TurnsTyped, ProcessHasAll, RecallSeesEveryTurn, UNCHANGED <<backend, recalled>>,
         \/ intact' = intact
         \/ \E turn \in Turns : intact' = Append(intact, turn)
  PROVE  RecallSeesEveryTurn' /\ recalled.of \in 0..Len(intact')
<1>1. intact \in Seq(Turns) /\ recalled.of \in 0..Len(intact)
  BY DEF TurnsTyped, ProcessHasAll
<1>2. GoodRecall(recalled.turns, SubSeq(intact, 1, recalled.of))
  BY <1>1, BeforeIs DEF GoodBefore
<1>3. /\ SubSeq(intact', 1, recalled.of) = SubSeq(intact, 1, recalled.of)
      /\ recalled.of \in 0..Len(intact') /\ intact' \in Seq(Turns)
  <2>1. CASE intact' = intact
    BY <1>1, <2>1
  <2>2. ASSUME NEW turn \in Turns, intact' = Append(intact, turn)
        PROVE  /\ SubSeq(intact', 1, recalled.of) = SubSeq(intact, 1, recalled.of)
               /\ recalled.of \in 0..Len(intact') /\ intact' \in Seq(Turns)
    BY <1>1, <2>2, SameBefore
  <2> QED BY <2>1, <2>2
<1>4. GoodRecall(recalled.turns, SubSeq(intact, 1, recalled.of))'
  <2> DEFINE before == SubSeq(intact, 1, recalled.of)
             answer == recalled.turns
  <2>1. before' = before /\ answer' = answer
    BY <1>3
  <2>2. GoodRecall(answer, before)
    BY <1>2
  <2> HIDE DEF before, answer
  <2>3. GoodRecall(answer, before)'
    BY <2>1, <2>2 DEF GoodRecall
  <2> QED BY <2>3 DEF before, answer
<1>5. intact' \in Seq(Turns) /\ recalled'.of \in 0..Len(intact')
  BY <1>3
<1>6. RecallSeesEveryTurn'
  BY <1>4, <1>5, BeforeIsNext DEF GoodBefore
<1> QED BY <1>3, <1>6

LEMMA ProcessHasAllStep ==
  TurnsTyped /\ ProcessHasAll /\ RecallSeesEveryTurn /\ [Next]_vars
    => ProcessHasAll' /\ RecallSeesEveryTurn'
<1> SUFFICES ASSUME TurnsTyped, ProcessHasAll, RecallSeesEveryTurn, [Next]_vars
             PROVE  ProcessHasAll' /\ RecallSeesEveryTurn'
  OBVIOUS
<1>1. /\ intact \in Seq(Turns) /\ todo \in Seq(Turns) /\ remembered \in Seq(Turns)
      /\ backend \in {"markdown", "short_term", "ranked"} /\ TopK \in Nat \ {0}
  BY PersistenceAssumption DEF TurnsTyped
<1>2. /\ backend # "markdown" =>
           remembered = IF backend = "short_term" THEN Newest(intact, TopK) ELSE intact
      /\ index \in {0, Len(remembered)} /\ (backend = "short_term" => index = 0)
      /\ recalled.of \in 0..Len(intact)
  BY DEF ProcessHasAll
<1>3. ASSUME NEW turn \in Turns, backend = "markdown", UNCHANGED <<backend, process>>,
             intact' = intact \/ intact' = Append(intact, turn)
      PROVE  ProcessHasAll' /\ RecallSeesEveryTurn'
  <2>1. UNCHANGED <<backend, remembered, index, recalled>>
    BY <1>3 DEF process
  <2>2. RecallSeesEveryTurn' /\ recalled.of \in 0..Len(intact')
    BY <1>3, <2>1, RecalledBefore
  <2> QED BY <1>2, <1>3, <2>1, <2>2 DEF ProcessHasAll
<1>4. CASE OneRemembered
  <2>1. PICK turn \in Turns : Remember(turn)
    BY <1>4 DEF OneRemembered
  <2> QED BY <1>3, <2>1 DEF Remember
<1>5. CASE OneFailed
  <2>1. PICK turn \in Turns : RememberFails(turn)
    BY <1>5 DEF OneFailed
  <2> QED BY <1>3, <2>1 DEF RememberFails
<1>6. CASE OneRememberedHere
  <2>1. PICK turn \in Turns : RememberHere(turn)
    BY <1>6 DEF OneRememberedHere
  <2>2. /\ backend # "markdown" /\ UNCHANGED <<backend, recalled>> /\ index' = 0
        /\ remembered' = IF backend = "short_term" THEN Newest(Append(remembered, turn), TopK)
                         ELSE Append(remembered, turn)
        /\ intact' = Append(intact, turn)
    BY <2>1 DEF RememberHere, Invalidated
  <2>3. RecallSeesEveryTurn' /\ recalled.of \in 0..Len(intact')
    BY <2>2, RecalledBefore
  <2>4. remembered' = IF backend = "short_term" THEN Newest(intact', TopK) ELSE intact'
    BY <1>1, <1>2, <2>2, NewestOfNewest
  <2> QED BY <2>2, <2>3, <2>4 DEF ProcessHasAll
<1>7. CASE ReplaceInFile
  <2>1. PICK turn \in Turns : TRUE
    BY <1>7, TextTurns DEF ReplaceInFile
  <2> QED BY <1>3, <1>7, <2>1 DEF ReplaceInFile
<1>8. CASE SeenHere
  <2>1. PICK seen \in Ranked \cup {remembered} : RecallHere(seen)
    BY <1>8 DEF SeenHere
  <2>2. UNCHANGED <<backend, remembered, intact>> /\ backend # "markdown"
    BY <1>8, <2>1 DEF SeenHere, RecallHere
  <2>3. recalled' = [turns |-> seen, of |-> Len(intact)]
    BY <2>1 DEF RecallHere
  <2>4. index' \in {0, Len(remembered)} /\ (backend = "short_term" => index' = 0)
    BY <1>2, <2>1 DEF RecallHere, Indexed
  <2>5. GoodRecall(seen, intact)
    <3>1. CASE backend = "short_term"
      <4>1. seen = Newest(intact, TopK)
        BY <1>2, <2>1, <3>1 DEF RecallHere
      <4>2. Len(seen) = Lesser(Len(intact), TopK) /\ \A turn : Count(turn, seen) <= Count(turn, intact)
        BY <1>1, <4>1, NewestIs, NewestPicked
      <4>3. Lesser(Len(intact), TopK) = Lesser(TopK, Len(intact))
        BY <1>1 DEF Lesser
      <4> QED BY <4>1, <4>2, <4>3 DEF GoodRecall
    <3>2. CASE backend # "short_term"
      <4>1. seen \in Ranked /\ remembered = intact
        BY <1>2, <2>1, <2>2, <3>2 DEF RecallHere
      <4>2. Len(seen) = Lesser(TopK, Len(intact)) /\ \A turn : Count(turn, seen) <= Count(turn, intact)
        BY <1>1, <1>2, <4>1, RankedIs
      <4> QED BY <3>2, <4>2 DEF GoodRecall
    <3> QED BY <3>1, <3>2
  <2>6. SubSeq(intact, 1, Len(intact)) = intact /\ Len(intact) \in 0..Len(intact)
    BY <1>1
  <2>7. GoodRecall(recalled.turns, SubSeq(intact, 1, recalled.of))'
    <3> DEFINE before == SubSeq(intact, 1, recalled.of)
               answer == recalled.turns
    <3>1. before' = intact /\ answer' = seen
      BY <2>2, <2>3, <2>6
    <3> HIDE DEF before, answer
    <3>2. GoodRecall(answer, before)'
      BY <2>2, <2>5, <3>1 DEF GoodRecall
    <3> QED BY <3>2 DEF before, answer
  <2>8. intact' \in Seq(Turns) /\ recalled'.of \in 0..Len(intact')
    BY <1>1, <2>2, <2>3, <2>6
  <2>9. RecallSeesEveryTurn'
    BY <2>7, <2>8, BeforeIsNext DEF GoodBefore
  <2> QED BY <1>2, <2>2, <2>4, <2>8, <2>9 DEF ProcessHasAll
<1>9. CASE Elsewhere
  <2>1. UNCHANGED <<backend, remembered, index, recalled, intact>>
    BY <1>9 DEF Elsewhere, turns, process
  <2>2. RecallSeesEveryTurn'
    BY <2>1, RecalledBefore
  <2> QED BY <1>2, <2>1, <2>2 DEF ProcessHasAll
<1> QED BY <1>1, <1>4, <1>5, <1>6, <1>7, <1>8, <1>9, StepsOfTurns

(* A recall from the process ranks every turn there is at the time, those  *)
(* that came after the index was built too, none of them more often than   *)
(* it was remembered; a short memory answers the latest in order.          *)
THEOREM RecallsSeeEveryTurn == Spec => []RecallSeesEveryTurn
<1>1. Init => TurnsTyped /\ ProcessHasAll /\ RecallSeesEveryTurn
  BY TurnsTypedInit, ProcessHasAllInit
<1>2. TurnsTyped /\ ProcessHasAll /\ RecallSeesEveryTurn /\ [Next]_vars
        => TurnsTyped' /\ ProcessHasAll' /\ RecallSeesEveryTurn'
  BY TurnsTypedStep, ProcessHasAllStep
<1> QED BY <1>1, <1>2, PTL DEF Spec
=============================================================================
