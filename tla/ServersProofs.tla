--------------------------- MODULE ServersProofs ----------------------------
(***************************************************************************)
(* Proofs about the programs that serve clients or keep data for them:     *)
(* JsonServer and Stellarium; NetPace, the pace of the bridge's packets,   *)
(* for any times that the assumption allows and any size of the socket's   *)
(* buffer; ShmBlock, the segment that it keeps, for any number of bridges  *)
(* and readers; and what two daemons promise of the flags and times that   *)
(* they keep there, the old meteo daemon of rain (Precip) and the mirror   *)
(* temperature daemon of T3 (MirTemp).                                     *)
(***************************************************************************)
EXTENDS JsonServer, Stellarium, NetPace, ShmBlock, Precip, MirTemp,
        SequenceTheorems, TLAPS

-----------------------------------------------------------------------------
(* JsonServer: the inductive invariant.                                    *)

(* No "GET" of an earlier request is left where the next does not write.   *)
NoOldGet == \A i \in 2 .. BufLen : buffer[i] \notin Marks

JsonIInv ==
  /\ JsonTypeOK /\ kids + zombies <= MaxKids
  /\ NoZombieForgotten /\ NoOldGet /\ AskedIsAnswered

(* What is in the first characters of a buffer decides about them.         *)
Agrees(b, m) ==
  /\ DOMAIN b = 1 .. BufLen /\ DOMAIN m = 1 .. Len(m)
  /\ Len(m) \in 1 .. BufLen
  /\ \A i \in 1 .. Len(m) : b[i] = m[i]

LEMMA SameString ==
  ASSUME NEW b, NEW m, Agrees(b, m), BufLen \in Nat,
         NEW i \in 1 .. Len(m)
  PROVE  InString(b, i) <=> InString(m, i)
BY DEF Agrees, InString

(* A word that ended before the last of them is a word of the buffer.      *)
LEMMA SameWord ==
  ASSUME NEW b, NEW m, Agrees(b, m), BufLen \in Nat,
         NEW w \in Bounds(m), w[2] < Len(m)
  PROVE  w \in Bounds(b)
<1> DEFINE i == w[1]
           j == w[2]
<1>1. /\ w = <<i, j>> /\ w \in (1 .. Len(m)) \X (1 .. Len(m))
      /\ Len(m) \in 1 .. BufLen /\ DOMAIN b = 1 .. BufLen
  BY DEF Bounds, Agrees
<1>2. i \in 1 .. Len(m) /\ j \in 1 .. Len(m) /\ j + 1 \in 1 .. Len(m)
      /\ WordAt(m, i, j)
  BY <1>1 DEF Bounds
<1>3. \A k \in 1 .. Len(m) : InWord(b, k) <=> InWord(m, k)
  BY SameString DEF InWord, Agrees
<1> HIDE DEF i, j
<1>4. \A k \in i .. j : InWord(b, k)
  BY <1>1, <1>2, <1>3 DEF WordAt
<1>5. ~InWord(b, j + 1)
  BY <1>2, <1>3 DEF WordAt
<1>6. ~InWord(b, i - 1)
  <2>1. CASE i = 1
    BY <2>1, <1>1 DEF InWord, InString
  <2>2. CASE i # 1
    <3>1. i - 1 \in 1 .. Len(m)
      BY <2>2, <1>1, <1>2
    <3> QED
      BY <3>1, <1>2, <1>3 DEF WordAt
  <2> QED
    BY <2>1, <2>2
<1>7. w \in (DOMAIN b) \X (DOMAIN b)
  BY <1>1
<1>8. WordAt(b, i, j)
  BY <1>2, <1>4, <1>5, <1>6 DEF WordAt
<1> QED
  BY <1>7, <1>8 DEF Bounds, i, j

(* And it is the same word.                                                *)
LEMMA SamePart ==
  ASSUME NEW b \in [1 .. BufLen -> Chars], NEW m \in Seq(Chars), Agrees(b, m),
         BufLen \in Nat,
         NEW i \in 1 .. Len(m), NEW j \in 1 .. Len(m)
  PROVE  SubSeq(b, i, j) = SubSeq(m, i, j)
<1>1. b \in Seq(Chars) /\ Len(b) = BufLen
  OBVIOUS
<1>2. Len(m) <= BufLen /\ \A k \in 1 .. Len(m) : b[k] = m[k]
  BY DEF Agrees
<1> QED
  BY <1>1, <1>2

(* So what a piece names is found in the buffer it was received into.      *)
LEMMA NamedThere ==
  ASSUME NEW b \in [1 .. BufLen -> Chars], NEW m \in Seq(Chars), Agrees(b, m),
         BufLen \in Nat
  PROVE  Names \cap {Word(m, w) : w \in {v \in Bounds(m) : v[2] < Len(m)}}
           \subseteq Named(b)
<1> SUFFICES ASSUME NEW w \in Bounds(m), w[2] < Len(m), Word(m, w) \in Names
             PROVE  Word(m, w) \in Named(b)
  OBVIOUS
<1>1. w \in Bounds(b)
  BY SameWord
<1>2. w[1] \in 1 .. Len(m) /\ w[2] \in 1 .. Len(m)
  BY DEF Bounds, Agrees
<1>3. Word(b, w) = Word(m, w)
  BY <1>2, SamePart DEF Word
<1> QED
  BY <1>1, <1>3 DEF Named

(* What the constants are.                                                 *)
LEMMA JsonConstants ==
  /\ BufLen \in Nat /\ 1 <= BufLen /\ MaxKids \in Nat /\ 1 <= MaxKids
  /\ Get # Query /\ Wrong # Get /\ Wrong # Query
  /\ \A c \in {Space, Amp, Nul} : c \in Chars /\ c \notin Marks
  /\ Marks \subseteq Chars
BY JsonAssumption

(* What recv returns.                                                      *)
LEMMA PiecesAre ==
  ASSUME NEW m \in Pieces
  PROVE  /\ m \in Seq(Chars) /\ Len(m) \in 1 .. BufLen
         /\ \A i \in 2 .. Len(m) : m[i] \notin Marks
BY JsonAssumption

(* What is looked at is what came, and what was there behind it.           *)
LEMMA PieceFilled ==
  ASSUME NEW m \in Pieces, JsonIInv
  PROVE  /\ Filled(m) \in [1 .. BufLen -> Chars] /\ Agrees(Filled(m), m)
         /\ \A i \in 2 .. BufLen : Filled(m)[i] \notin Marks
<1>1. /\ m \in Seq(Chars) /\ Len(m) \in 1 .. BufLen
      /\ \A i \in 2 .. Len(m) : m[i] \notin Marks
  BY PiecesAre
<1>2. BufLen \in Nat
  BY JsonConstants
<1>3. /\ buffer \in [1 .. BufLen -> Chars]
      /\ \A i \in 2 .. BufLen : buffer[i] \notin Marks
  BY DEF JsonIInv, JsonTypeOK, NoOldGet
<1>4. Filled(m) \in [1 .. BufLen -> Chars]
  BY <1>1, <1>2, <1>3 DEF Filled
<1>5. Agrees(Filled(m), m)
  BY <1>1, <1>2, <1>3 DEF Filled, Agrees
<1>6. \A i \in 2 .. BufLen : Filled(m)[i] \notin Marks
  BY <1>1, <1>2, <1>3 DEF Filled
<1> QED
  BY <1>4, <1>5, <1>6

(* A mark is at the beginning, and a buffer has one mark.                  *)
LEMMA MarkIsFirst ==
  ASSUME NEW b, NEW c \in Marks, 1 \in DOMAIN b,
         DOMAIN b \subseteq 1 .. BufLen,
         \A i \in DOMAIN b : i # 1 => b[i] \notin Marks
  PROVE  Has(b, c) <=> b[1] = c
<1>1. c # Nul
  BY JsonConstants
<1>2. ASSUME b[1] = c PROVE Has(b, c)
  <2>1. InString(b, 1)
    BY <1>1, <1>2 DEF InString
  <2> QED
    BY <1>2, <2>1 DEF Has
<1>3. ASSUME Has(b, c) PROVE b[1] = c
  BY <1>3 DEF Has, InString
<1> QED
  BY <1>2, <1>3

(* What is asked for behind a "GET" is in the buffer as it came.           *)
LEMMA AskedAgrees ==
  ASSUME NEW b \in [1 .. BufLen -> Chars], NEW m \in Seq(Chars),
         Agrees(b, m), m[1] = Query,
         \A i \in 2 .. BufLen : b[i] \notin Marks
  PROVE  /\ Asked(b) \in [1 .. BufLen -> Chars] /\ Asked(m) \in Seq(Chars)
         /\ Len(Asked(m)) = Len(m) /\ Agrees(Asked(b), Asked(m))
         /\ \A i \in 2 .. BufLen : Asked(b)[i] \notin Marks
<1>1. BufLen \in Nat /\ Nul \in Chars /\ Amp \in Chars
  BY JsonConstants
<1>2. /\ DOMAIN b = 1 .. BufLen /\ DOMAIN m = 1 .. Len(m)
      /\ Len(m) \in 1 .. BufLen /\ \A i \in 1 .. Len(m) : b[i] = m[i]
  BY DEF Agrees
<1>3. \A i \in DOMAIN b : b[i] = Query <=> i = 1
  BY <1>1, <1>2 DEF Marks
<1>4. \A i \in DOMAIN m : m[i] = Query <=> i = 1
  BY <1>1, <1>2, <1>3
<1>5. (CHOOSE i \in DOMAIN b : b[i] = Query) = 1
  BY <1>1, <1>2, <1>3
<1>6. (CHOOSE i \in DOMAIN m : m[i] = Query) = 1
  BY <1>1, <1>2, <1>4
<1>7. Asked(b) = [i \in 1 .. BufLen |->
        IF i <= 1 THEN Amp
        ELSE IF b[i] = Space /\ \A j \in 1 .. i - 1 : b[j] # Space THEN Nul
        ELSE b[i]]
  BY <1>2, <1>5 DEF Asked
<1>8. Asked(m) = [i \in 1 .. Len(m) |->
        IF i <= 1 THEN Amp
        ELSE IF m[i] = Space /\ \A j \in 1 .. i - 1 : m[j] # Space THEN Nul
        ELSE m[i]]
  BY <1>2, <1>6 DEF Asked
<1>9. Asked(b) \in [1 .. BufLen -> Chars]
  BY <1>1, <1>2, <1>7
<1>10. Asked(m) \in Seq(Chars) /\ Len(Asked(m)) = Len(m)
  BY <1>1, <1>2, <1>8
<1>11. \A i \in 1 .. Len(m) : Asked(b)[i] = Asked(m)[i]
  BY <1>1, <1>2, <1>7, <1>8
<1>12. Agrees(Asked(b), Asked(m))
  BY <1>2, <1>9, <1>10, <1>11 DEF Agrees
<1>13. \A i \in 2 .. BufLen : Asked(b)[i] \notin Marks
  BY <1>1, <1>7, JsonConstants
<1> QED
  BY <1>9, <1>10, <1>12, <1>13

(* The zeros that strtok writes are no marks.                              *)
LEMMA CutKeeps ==
  ASSUME NEW b \in [1 .. BufLen -> Chars],
         \A i \in 2 .. BufLen : b[i] \notin Marks
  PROVE  /\ Cut(b) \in [1 .. BufLen -> Chars]
         /\ \A i \in 2 .. BufLen : Cut(b)[i] \notin Marks
<1>1. Nul \in Chars /\ Nul \notin Marks /\ BufLen \in Nat
  BY JsonConstants
<1> QED
  BY <1>1 DEF Cut

(* The invariant has a part about the connection and one about processes.  *)
TalkInv ==
  /\ conn \in {"recv", "closed"} /\ buffer \in [1 .. BufLen -> Chars]
  /\ got \in Pieces \cup {<<>>} /\ answered \subseteq Names
  /\ NoOldGet /\ AskedIsAnswered

FamilyInv ==
  /\ parent \in {"accept", "fork", "dead"}
  /\ kids \in 0 .. MaxKids /\ zombies \in 0 .. MaxKids
  /\ sigchld \in BOOLEAN /\ reaping \in BOOLEAN
  /\ kids + zombies <= MaxKids /\ NoZombieForgotten

LEMMA JsonParts == JsonIInv <=> TalkInv /\ FamilyInv
BY DEF JsonIInv, JsonTypeOK, TalkInv, FamilyInv

(* Where in a piece a mark is.                                             *)
LEMMA PieceMarks ==
  ASSUME NEW m \in Pieces, NEW c \in Marks, JsonIInv
  PROVE  /\ Has(m, c) <=> m[1] = c
         /\ Has(Filled(m), c) <=> m[1] = c
<1>1. /\ m \in Seq(Chars) /\ Len(m) \in 1 .. BufLen /\ BufLen \in Nat
      /\ \A i \in 2 .. Len(m) : m[i] \notin Marks
  BY PiecesAre, JsonConstants
<1>2. Has(m, c) <=> m[1] = c
  BY <1>1, MarkIsFirst
<1>3. /\ Filled(m) \in [1 .. BufLen -> Chars] /\ Agrees(Filled(m), m)
      /\ \A i \in 2 .. BufLen : Filled(m)[i] \notin Marks
  BY PieceFilled
<1>4. Filled(m)[1] = m[1]
  BY <1>1, <1>3 DEF Agrees
<1>5. Has(Filled(m), c) <=> Filled(m)[1] = c
  <2> HIDE DEF Marks
  <2>1. DOMAIN Filled(m) = 1 .. BufLen
    BY <1>3
  <2>2. 1 \in 1 .. BufLen
    BY <1>1
  <2>3. \A i \in 1 .. BufLen : i # 1 => i \in 2 .. BufLen
    BY <1>1
  <2> QED
    BY <1>3, <2>1, <2>2, <2>3, MarkIsFirst
<1> QED
  BY <1>2, <1>4, <1>5

(* A piece that names parameters, with no "GET": each is found.            *)
LEMMA NamesStep ==
  ASSUME NEW m \in Pieces, JsonIInv, AnswerNames(m)
  PROVE  TalkInv'
<1> DEFINE b == Filled(m)
<1>1. /\ b \in [1 .. BufLen -> Chars] /\ Agrees(b, m)
      /\ \A i \in 2 .. BufLen : b[i] \notin Marks
  BY PieceFilled
<1>2. m \in Seq(Chars) /\ BufLen \in Nat
  BY PiecesAre, JsonConstants
<1>3. ~Has(m, Query)
  BY PieceMarks DEF AnswerNames, Marks
<1>4. /\ answered' = Named(b) /\ buffer' = Cut(b) /\ got' = m
      /\ conn' = conn /\ conn \in {"recv", "closed"}
  BY DEF AnswerNames, JsonIInv, JsonTypeOK
<1> HIDE DEF b
<1>5. /\ Cut(b) \in [1 .. BufLen -> Chars]
      /\ \A i \in 2 .. BufLen : Cut(b)[i] \notin Marks
  BY <1>1, CutKeeps
<1>6. NoOldGet'
  BY <1>4, <1>5 DEF NoOldGet
<1>7. AskedIsAnswered'
  BY <1>1, <1>2, <1>3, <1>4, NamedThere DEF AskedIsAnswered
<1>8. answered' \subseteq Names
  BY <1>4 DEF Named
<1> QED
  BY <1>4, <1>5, <1>6, <1>7, <1>8 DEF TalkInv

(* "GET" with the resource alone is answered with everything, and with     *)
(* another is the end.                                                     *)
LEMMA GetStep ==
  ASSUME NEW m \in Pieces, JsonIInv, AnswerGet(m)
  PROVE  TalkInv'
<1> DEFINE b == Filled(m)
<1>1. /\ b \in [1 .. BufLen -> Chars]
      /\ \A i \in 2 .. BufLen : b[i] \notin Marks
  BY PieceFilled
<1>2. Has(b, Get) \/ Has(m, Wrong)
  BY PieceMarks DEF AnswerGet, Marks
<1>3. /\ answered' = IF Has(b, Get) THEN Names ELSE {}
      /\ buffer' = b /\ got' = m /\ conn' = "closed"
  BY DEF AnswerGet
<1> HIDE DEF b
<1>4. AskedIsAnswered'
  BY <1>2, <1>3 DEF AskedIsAnswered
<1>5. NoOldGet'
  BY <1>1, <1>3 DEF NoOldGet
<1> QED
  BY <1>1, <1>3, <1>4, <1>5 DEF TalkInv

(* "GET" with names behind the resource: each of these is found.           *)
LEMMA QueryStep ==
  ASSUME NEW m \in Pieces, JsonIInv, AnswerQuery(m)
  PROVE  TalkInv'
<1> DEFINE b == Filled(m)
           names == Asked(b)
<1>1. /\ b \in [1 .. BufLen -> Chars] /\ Agrees(b, m)
      /\ \A i \in 2 .. BufLen : b[i] \notin Marks
  BY PieceFilled
<1>2. m \in Seq(Chars) /\ BufLen \in Nat
  BY PiecesAre, JsonConstants
<1>3. Has(m, Query) /\ m[1] = Query
  BY PieceMarks DEF AnswerQuery, Marks
<1>4. /\ answered' = Named(names) /\ got' = m
      /\ buffer' = [i \in DOMAIN b |->
                      IF b[i] = Query THEN Query ELSE Cut(names)[i]]
      /\ conn' = conn /\ conn \in {"recv", "closed"}
  BY DEF AnswerQuery, JsonIInv, JsonTypeOK
<1> HIDE DEF b
<1>5. /\ names \in [1 .. BufLen -> Chars] /\ Asked(m) \in Seq(Chars)
      /\ Len(Asked(m)) = Len(m) /\ Agrees(names, Asked(m))
      /\ \A i \in 2 .. BufLen : names[i] \notin Marks
  BY <1>1, <1>2, <1>3, AskedAgrees
<1> HIDE DEF names
<1>6. /\ Cut(names) \in [1 .. BufLen -> Chars]
      /\ \A i \in 2 .. BufLen : Cut(names)[i] \notin Marks
  BY <1>5, CutKeeps
<1>7. /\ buffer' \in [1 .. BufLen -> Chars]
      /\ \A i \in 2 .. BufLen : buffer'[i] \notin Marks
  <2>1. Query \in Chars /\ Query \in Marks
    BY JsonConstants DEF Marks
  <2>2. \A i \in 2 .. BufLen : b[i] # Query
    BY <1>1, <2>1
  <2>3. \A i \in 2 .. BufLen : i \in 1 .. BufLen
    BY <1>2
  <2>4. DOMAIN b = 1 .. BufLen
    BY <1>1
  <2> QED
    BY <1>4, <1>6, <2>1, <2>2, <2>3, <2>4
<1>8. AskedIsAnswered'
  BY <1>2, <1>3, <1>4, <1>5, NamedThere DEF AskedIsAnswered
<1>9. answered' \subseteq Names
  BY <1>4 DEF Named
<1> QED
  BY <1>4, <1>7, <1>8, <1>9 DEF TalkInv, NoOldGet

(* The server begins so.                                                   *)
LEMMA JsonAtFirst == JsonInit => JsonIInv
<1> SUFFICES ASSUME JsonInit PROVE JsonIInv
  OBVIOUS
<1>1. FamilyInv
  <2>1. sigchld \in BOOLEAN /\ reaping \in BOOLEAN
    BY Zenon DEF JsonInit
  <2> QED
    BY <2>1, JsonConstants DEF JsonInit, FamilyInv, NoZombieForgotten
<1>2. /\ conn = "recv" /\ got = <<>> /\ answered = {}
      /\ buffer \in [1 .. BufLen -> Chars]
      /\ \A i \in 2 .. BufLen : buffer[i] \notin Marks
  BY JsonAssumption DEF JsonInit
<1>3. AskedIsAnswered
  <2>1. ~Has(<<>>, Query) /\ Bounds(<<>>) = {}
    BY DEF Has, Bounds
  <2> QED
    BY <1>2, <2>1 DEF AskedIsAnswered
<1>4. TalkInv
  BY <1>2, <1>3 DEF TalkInv, NoOldGet
<1> QED
  BY <1>1, <1>4, JsonParts

(* What the connection does not take part in.                              *)
LEMMA TalkRests == JsonIInv /\ UNCHANGED talk => TalkInv'
<1> SUFFICES ASSUME JsonIInv, UNCHANGED talk PROVE TalkInv'
  OBVIOUS
<1>1. conn' = conn /\ buffer' = buffer /\ got' = got /\ answered' = answered
  BY DEF talk
<1>2. TalkInv
  BY JsonParts
<1> QED
  BY <1>1, <1>2 DEF TalkInv, NoOldGet, AskedIsAnswered

(* Every step, for the connection and for the processes.                   *)
LEMMA TalkStep ==
  JsonIInv /\ [JsonNext]_json_vars => TalkInv'
<1> SUFFICES ASSUME JsonIInv, [JsonNext]_json_vars PROVE TalkInv'
  OBVIOUS
<1>1. CASE handle
  BY <1>1, NamesStep, GetStep, QueryStep DEF handle
<1>2. CASE Close
  <2>1. conn' = "closed" /\ buffer' = buffer /\ got' = got
        /\ answered' = answered
    BY <1>2 DEF Close
  <2>2. TalkInv
    BY JsonParts
  <2> QED
    BY <2>1, <2>2 DEF TalkInv, NoOldGet, AskedIsAnswered
<1>3. CASE UNCHANGED talk
  BY <1>3, TalkRests
<1> QED
  BY <1>1, <1>2, <1>3
     DEF JsonNext, json_vars, AcceptConnection, ForkKid, KidEnds, ChildSignal,
         wait_for_child

(* An ended child sets the signal, and the handler goes on while there is  *)
(* one.                                                                    *)
LEMMA FamilyStep ==
  JsonIInv /\ [JsonNext]_json_vars => FamilyInv'
<1> SUFFICES ASSUME JsonIInv, [JsonNext]_json_vars PROVE FamilyInv'
  OBVIOUS
<1> USE DEF NoZombieForgotten
<1>1. FamilyInv /\ MaxKids \in Nat
  BY JsonParts, JsonConstants
<1>2. CASE AcceptConnection
  BY <1>1, <1>2 DEF FamilyInv, AcceptConnection
<1>3. CASE ForkKid
  BY <1>1, <1>3 DEF FamilyInv, ForkKid
<1>4. CASE KidEnds
  <2>1. sigchld' \in BOOLEAN /\ reaping' \in BOOLEAN
    BY Zenon, <1>1, <1>4 DEF FamilyInv, KidEnds
  <2>2. NoZombieForgotten'
    BY <1>1, <1>4 DEF FamilyInv, KidEnds
  <2> QED
    BY <1>1, <1>4, <2>1, <2>2 DEF FamilyInv, KidEnds
<1>5. CASE ChildSignal
  BY <1>1, <1>5 DEF FamilyInv, ChildSignal
<1>6. CASE wait_for_child
  <2>1. sigchld' \in BOOLEAN /\ reaping' \in BOOLEAN
    BY Zenon, <1>1, <1>6 DEF FamilyInv, wait_for_child
  <2>2. reaping /\ parent' = parent /\ kids' = kids
    BY Zenon, <1>6 DEF wait_for_child
  <2>3. CASE zombies > 0
    <3>1. zombies' = zombies - 1
      BY <1>6, <2>3 DEF wait_for_child
    <3>2. reaping'
      BY Zenon, <1>6, <2>2, <2>3 DEF wait_for_child
    <3> QED
      BY <1>1, <2>1, <2>2, <2>3, <3>1, <3>2 DEF FamilyInv
  <2>4. CASE ~(zombies > 0)
    <3>1. zombies' = zombies
      BY Zenon, <1>6, <2>4 DEF wait_for_child
    <3> QED
      BY <1>1, <2>1, <2>2, <2>4, <3>1 DEF FamilyInv
  <2> QED
    BY <2>3, <2>4
<1>7. CASE UNCHANGED family
  BY Zenon, <1>1, <1>7 DEF FamilyInv, family
<1>8. CASE handle \/ Close
  BY <1>7, <1>8 DEF handle, Close
<1>9. CASE UNCHANGED json_vars
  BY <1>7, <1>9 DEF json_vars
<1> QED
  BY <1>2, <1>3, <1>4, <1>5, <1>6, <1>8, <1>9 DEF JsonNext

(* The invariant holds.                                                    *)
LEMMA JsonInvariance == JsonSpec => []JsonIInv
BY JsonAtFirst, TalkStep, FamilyStep, JsonParts, PTL DEF JsonSpec

(* Every parameter that a request names whole is in the answer, for any    *)
(* names, requests and buffer, and whatever earlier requests have left in  *)
(* the buffer that is never cleared.                                       *)
THEOREM WholeNamesAnswered == JsonSpec => []AskedIsAnswered
<1>1. JsonIInv => AskedIsAnswered
  BY DEF JsonIInv
<1> QED
  BY <1>1, JsonInvariance, PTL

(* While the parent runs, an ended child is waited for or its signal is on *)
(* the way, however many end at a time.                                    *)
THEOREM EveryChildReaped == JsonSpec => []NoZombieForgotten
<1>1. JsonIInv => NoZombieForgotten
  BY DEF JsonIInv
<1> QED
  BY <1>1, JsonInvariance, PTL

-----------------------------------------------------------------------------
(* Stellarium: the inductive invariant.                                    *)

(* A message whose coordinates are the telescope's input is noted.         *)
InputInv == \A n \in DOMAIN asks : asks[n] = Inp => n \in in_force

(* A status of 0 that is to be sent is about no message, or about one that *)
(* was obeyed; and a new client's status is about none.                    *)
StatusInv ==
  /\ server \in {"none", "accept"} => want = 0
  /\ server \in {"send", "wait"} /\ want > 0 /\ dout = 0 => want \in in_force

StellIInv ==
  /\ StellTypeOK /\ {asks, queue} \subseteq Seq(Coords)
  /\ InputInv /\ StatusInv /\ OkMeansObeyed

(* What the constants are.                                                 *)
LEMMA StellConstants ==
  /\ Other \notin Coords /\ Polls \in Nat /\ MaxSent \in Nat /\ Room \in Nat
BY StellariumAssumption

(* The server begins so.                                                   *)
LEMMA StellAtFirst == StellInit => StellIInv
BY StellConstants
   DEF StellInit, StellIInv, StellTypeOK, InputInv, StatusInv, OkMeansObeyed,
       None

(* A new child has no client, and no message that it is at.                *)
LEMMA ForkStep == StellIInv /\ ForkServer => StellIInv'
BY StellConstants
   DEF ForkServer, link, system, StellIInv, StellTypeOK, InputInv, StatusInv,
       OkMeansObeyed, None

(* A client that is accepted has not been told anything.                   *)
LEMMA AcceptStep == StellIInv /\ AcceptClient => StellIInv'
BY StellConstants
   DEF AcceptClient, link, system, StellIInv, StellTypeOK, InputInv, StatusInv,
       OkMeansObeyed, None

(* What is sent is about the message that was obeyed, or not obeyed.       *)
LEMMA SendStep == StellIInv /\ Send => StellIInv'
<1> SUFFICES ASSUME StellIInv, Send PROVE StellIInv'
  OBVIOUS
<1> USE StellConstants
    DEF link, system, StellIInv, StellTypeOK, InputInv, StatusInv,
        OkMeansObeyed, None
<1>1. CASE client' = "none"
  <2>1. /\ server' = "accept" /\ server = "send" /\ want' = 0
        /\ asks' = <<>> /\ unread' = 0 /\ in_force' = {}
        /\ told' = None /\ about' = 0
        /\ keeper' = keeper /\ looks' = looks /\ dout' = dout
        /\ queue' = queue /\ Inp' = Inp
    BY <1>1 DEF Send
  <2> QED
    BY <1>1, <2>1
<1>2. CASE client' # "none"
  <2>1. /\ server' = "wait" /\ server = "send" /\ want' = want
        /\ asks' = asks /\ unread' = unread /\ in_force' = in_force
        /\ keeper' = keeper /\ looks' = looks /\ dout' = dout
        /\ queue' = queue /\ Inp' = Inp /\ client' = client
        /\ \/ told' = dout /\ about' = want
           \/ told' = told /\ about' = about
    BY <1>2 DEF Send
  <2> QED
    BY <2>1
<1> QED
  BY <1>1, <1>2

(* Nothing came.                                                           *)
LEMMA QuietStep == StellIInv /\ Quiet => StellIInv'
BY StellConstants
   DEF Quiet, link, system, StellIInv, StellTypeOK, InputInv, StatusInv,
       OkMeansObeyed, None

(* The client went, and with it its messages.                              *)
LEMMA DisconnectStep == StellIInv /\ Disconnect => StellIInv'
BY StellConstants
   DEF Disconnect, link, system, StellIInv, StellTypeOK, InputInv, StatusInv,
       OkMeansObeyed, None

(* Several messages at once are refused.                                   *)
LEMMA TooMuchStep == StellIInv /\ ReadTooMuch => StellIInv'
BY StellConstants
   DEF ReadTooMuch, link, system, StellIInv, StellTypeOK, InputInv, StatusInv,
       OkMeansObeyed, None

(* A message is read, its command sent or dropped.                         *)
LEMMA ReadStep == StellIInv /\ ReadMessage => StellIInv'
BY StellConstants
   DEF ReadMessage, link, system, StellIInv, StellTypeOK, InputInv, StatusInv,
       OkMeansObeyed, None

(* It is waited for the coordinates.                                       *)
LEMMA PollStep == StellIInv /\ PollSegment => StellIInv'
BY StellConstants
   DEF PollSegment, link, system, StellIInv, StellTypeOK, InputInv, StatusInv,
       OkMeansObeyed, None

(* The coordinates are there, and so the message was obeyed; or not.       *)
LEMMA JudgeStep == StellIInv /\ JudgeSegment => StellIInv'
BY StellConstants
   DEF JudgeSegment, link, system, StellIInv, StellTypeOK, InputInv,
       StatusInv, OkMeansObeyed, None

(* A signal ends everything.                                               *)
LEMMA SignalStep == StellIInv /\ SignalServer => StellIInv'
BY StellConstants
   DEF SignalServer, link, system, StellIInv, StellTypeOK, InputInv, StatusInv,
       OkMeansObeyed, None

(* A client connects.                                                      *)
LEMMA ConnectStep == StellIInv /\ Connect => StellIInv'
BY StellConstants
   DEF Connect, link, system, StellIInv, StellTypeOK, InputInv, StatusInv,
       OkMeansObeyed, None

(* It asks, perhaps for what is the input already.                         *)
LEMMA AskStep == StellIInv /\ Ask => StellIInv'
BY StellConstants
   DEF Ask, link, system, StellIInv, StellTypeOK, InputInv, StatusInv,
       OkMeansObeyed, None

(* It goes.                                                                *)
LEMMA GoesStep == StellIInv /\ ClientGoes => StellIInv'
BY StellConstants
   DEF ClientGoes, link, system, StellIInv, StellTypeOK, InputInv, StatusInv,
       OkMeansObeyed, None

(* The control system takes a command.                                     *)
LEMMA ObeyStep == StellIInv /\ Obey => StellIInv'
BY StellConstants
   DEF Obey, Seen, link, system, StellIInv, StellTypeOK, InputInv, StatusInv,
       OkMeansObeyed, None

(* Someone else gives it coordinates, which no message asked for.          *)
LEMMA ElseStep == StellIInv /\ SomeoneElse => StellIInv'
BY StellConstants
   DEF SomeoneElse, link, system, StellIInv, StellTypeOK, InputInv, StatusInv,
       OkMeansObeyed, None

(* Every step keeps the invariant.                                         *)
LEMMA StellInductive == StellIInv /\ [StellNext]_stell_vars => StellIInv'
<1> SUFFICES ASSUME StellIInv, [StellNext]_stell_vars PROVE StellIInv'
  OBVIOUS
<1>1. CASE UNCHANGED stell_vars
  BY <1>1
     DEF stell_vars, link, system, StellIInv, StellTypeOK, InputInv, StatusInv,
         OkMeansObeyed
<1> QED
  BY <1>1, ForkStep, AcceptStep, SendStep, QuietStep, DisconnectStep,
     TooMuchStep, ReadStep, PollStep, JudgeStep, SignalStep, ConnectStep,
     AskStep, GoesStep, ObeyStep, ElseStep
     DEF StellNext

(* A client that is told 0 about a message knows that its coordinates were *)
(* the telescope's input at a time since it sent them: for any number of   *)
(* messages, looks and places in the command queue, whoever else gives     *)
(* commands.                                                               *)
THEOREM ZeroMeansObeyed == StellSpec => []OkMeansObeyed
<1>1. StellIInv => OkMeansObeyed
  BY DEF StellIInv
<1> QED
  BY <1>1, StellAtFirst, StellInductive, PTL DEF StellSpec

-----------------------------------------------------------------------------
(* The pace of the packets (NetPace): the inductive invariant.             *)

(* since_send is never less than the time since the block was really sent, *)
(* since_recv never more than the time since a packet was taken.           *)
ClocksInv == gap <= since_send /\ since_recv <= last

(* The block is sent when the time-out is over, when the sleep is over, or *)
(* else a packet was taken no later than Tsec after the last time it was.  *)
GapInv ==
  /\ waits = "select" =>
       /\ to_sleep = 0
       /\ gap + timer <= 3 * Tsec + Slip
       /\ since_recv < Slip => gap <= Tsec + since_recv
  /\ waits = "sleep" =>
       /\ since_recv + to_sleep <= Slip
       /\ due => gap + to_sleep <= 3 * Tsec + Slip
       /\ ~due => since_send <= Tsec + since_recv

(* The sleep keeps the packet after the next one off.                      *)
PaceInv == before + to_sleep >= Limit

PaceIInv == PaceTypeOK /\ ClocksInv /\ GapInv /\ PaceInv

(* What the assumption on the constants says of them one by one.           *)
LEMMA PaceConstants ==
  /\ Limit \in Nat \ {0} /\ Slip \in Nat \ {0} /\ Tsec \in Nat \ {0}
  /\ Least \in Nat \ {0} /\ BufMax \in Nat \ {0}
  /\ Least < Limit /\ Limit < Slip /\ Slip < Tsec
  /\ MaxGap \in Nat /\ MaxGap = 3 * Tsec + Slip + 1
  /\ CommandSecond \in Nat \ {0}
BY PaceAssumption DEF MaxGap, CommandSecond

(* How the clocks move when time passes: each by one, up to its bound.     *)
LEMMA TickClocks ==
  ASSUME PaceTypeOK, PaceTick
  PROVE  /\ since_recv' = IF since_recv = Slip THEN Slip ELSE since_recv + 1
         /\ since_send' = IF since_send = MaxGap THEN MaxGap
                          ELSE since_send + 1
         /\ gap' = IF gap = MaxGap THEN MaxGap ELSE gap + 1
         /\ last' = IF last = MaxGap THEN MaxGap ELSE last + 1
         /\ before' = IF before = MaxGap THEN MaxGap ELSE before + 1
<1>1. /\ since_recv \in 0 .. Slip /\ since_send \in 0 .. MaxGap
      /\ gap \in 0 .. MaxGap /\ last \in 0 .. MaxGap
      /\ before \in 0 .. MaxGap
  BY DEF PaceTypeOK
<1>2. ASSUME NEW max \in Nat, NEW n \in 0 .. max
      PROVE  Upto(n + 1, max) = IF n = max THEN max ELSE n + 1
  BY DEF Upto
<1>3. /\ since_recv' = Upto(since_recv + 1, Slip)
      /\ since_send' = Upto(since_send + 1, MaxGap)
      /\ gap' = Upto(gap + 1, MaxGap)
      /\ last' = Upto(last + 1, MaxGap)
      /\ before' = Upto(before + 1, MaxGap)
  BY DEF PaceTick
<1> QED
  BY <1>1, <1>2, <1>3, PaceConstants

-----------------------------------------------------------------------------
(* The invariant holds at the start.                                       *)
LEMMA PaceAtFirst ==
  PaceInit => PaceIInv
<1> SUFFICES ASSUME PaceInit PROVE PaceIInv
  OBVIOUS
<1> USE PaceConstants DEF PaceInit
<1>1. PaceTypeOK
  <2>1. due \in BOOLEAN
    BY Zenon
  <2>2. timer \in 0 .. Tsec + MaxGap /\ 0 \in 0 .. CommandSecond - 1
    OBVIOUS
  <2>3. {gap, last, before} \subseteq 0 .. MaxGap
    OBVIOUS
  <2> QED
    BY <2>1, <2>2, <2>3 DEF PaceTypeOK
<1>2. ClocksInv /\ PaceInv
  BY DEF ClocksInv, PaceInv
<1>3. GapInv
  BY DEF GapInv
<1> QED
  BY <1>1, <1>2, <1>3 DEF PaceIInv

(* A packet is taken: the pause that follows makes up for one taken less   *)
(* than Limit after the one before.                                        *)
LEMMA TakePacketStep ==
  PaceIInv /\ TakePacket => PaceIInv'
<1> SUFFICES ASSUME PaceIInv, TakePacket PROVE PaceIInv'
  OBVIOUS
<1> USE PaceConstants DEF PaceIInv, TakePacket, Taken
<1>1. PaceTypeOK'
  BY DEF PaceTypeOK
<1>2. ClocksInv'
  BY DEF PaceTypeOK, ClocksInv
<1>3. GapInv'
  <2>1. /\ waits' = "sleep"
        /\ since_recv' + to_sleep' <= Slip
        /\ gap + to_sleep' <= 3 * Tsec + Slip
    BY DEF PaceTypeOK, GapInv
  <2>2. ~due' => ~(since_send > Tsec)
    BY Zenon DEF TakePacket
  <2>3. ~(since_send > Tsec) => since_send <= Tsec
    BY DEF PaceTypeOK
  <2> QED
    BY <2>1, <2>2, <2>3 DEF PaceTypeOK, GapInv
<1>4. PaceInv'
  BY DEF PaceTypeOK, ClocksInv, PaceInv
<1> QED
  BY <1>1, <1>2, <1>3, <1>4

(* The block is sent to everyone after a packet.                           *)
LEMMA SendToAllStep ==
  PaceIInv /\ SendToAll => PaceIInv'
BY PaceConstants
   DEF PaceIInv, SendToAll, PaceTypeOK, ClocksInv, GapInv, PaceInv

(* It is sent to the sender: the time-out grows by less than Tsec.         *)
LEMMA SendToSenderStep ==
  PaceIInv /\ SendToSender => PaceIInv'
<1> SUFFICES ASSUME PaceIInv, SendToSender PROVE PaceIInv'
  OBVIOUS
<1> DEFINE timeout == Tsec + (since_send - since_recv)
<1> USE PaceConstants DEF PaceIInv, SendToSender, history
<1>1. /\ timer' = IF timeout < Least THEN Least ELSE timeout
      /\ timeout <= 2 * Tsec /\ timeout \in Int
  BY DEF PaceTypeOK, GapInv
<1>2. /\ timer' \in 0 .. 2 * Tsec
      /\ gap + timer' <= 3 * Tsec + Slip
  BY <1>1 DEF PaceTypeOK, ClocksInv, GapInv
<1>3. PaceTypeOK'
  BY <1>2 DEF PaceTypeOK
<1>4. ClocksInv' /\ PaceInv'
  BY DEF ClocksInv, PaceInv
<1>5. GapInv'
  BY <1>2 DEF PaceTypeOK, ClocksInv, GapInv
<1> QED
  BY <1>3, <1>4, <1>5

(* The time-out is over.                                                   *)
LEMMA TimeOutStep ==
  PaceIInv /\ TimeOut => PaceIInv'
BY PaceConstants
   DEF PaceIInv, TimeOut, PaceTypeOK, ClocksInv, GapInv, PaceInv

(* A packet arrives.                                                       *)
LEMMA ArriveStep ==
  PaceIInv /\ Arrive => PaceIInv'
BY PaceConstants
   DEF PaceIInv, Arrive, history, PaceTypeOK, ClocksInv, GapInv, PaceInv

(* Time passes: what is left of the sleep or the time-out gets less as the *)
(* time since the block was sent gets more.                                *)
LEMMA TickStep ==
  PaceIInv /\ PaceTick => PaceIInv'
<1> SUFFICES ASSUME PaceIInv, PaceTick PROVE PaceIInv'
  OBVIOUS
<1> USE PaceConstants DEF PaceIInv
<1>1. /\ since_recv \in 0 .. Slip /\ since_send \in 0 .. MaxGap
      /\ gap \in 0 .. MaxGap /\ last \in 0 .. MaxGap
      /\ before \in 0 .. MaxGap
  BY DEF PaceTypeOK
<1>2. /\ since_recv' = IF since_recv = Slip THEN Slip ELSE since_recv + 1
      /\ since_send' = IF since_send = MaxGap THEN MaxGap ELSE since_send + 1
      /\ gap' = IF gap = MaxGap THEN MaxGap ELSE gap + 1
      /\ last' = IF last = MaxGap THEN MaxGap ELSE last + 1
      /\ before' = IF before = MaxGap THEN MaxGap ELSE before + 1
  BY TickClocks
<1>3. PaceTypeOK'
  BY <1>1, <1>2 DEF PaceTypeOK, PaceTick
<1>4. ClocksInv'
  BY <1>1, <1>2 DEF ClocksInv
<1>5. PaceInv'
  BY <1>1, <1>2 DEF PaceTypeOK, PaceInv, PaceTick
<1>6. GapInv'
  BY <1>1, <1>2 DEF PaceTypeOK, GapInv, PaceTick
<1> QED
  BY <1>3, <1>4, <1>5, <1>6

(* Every step keeps the invariant.                                         *)
LEMMA PaceInductive ==
  PaceIInv /\ [PaceNext]_pace_vars => PaceIInv'
<1> SUFFICES ASSUME PaceIInv, [PaceNext]_pace_vars PROVE PaceIInv'
  OBVIOUS
<1>1. CASE UNCHANGED pace_vars
  BY <1>1 DEF pace_vars, history, PaceIInv, PaceTypeOK, ClocksInv, GapInv,
              PaceInv
<1> QED
  BY <1>1, TakePacketStep, SendToAllStep, SendToSenderStep, TimeOutStep,
     ArriveStep, TickStep DEF PaceNext

(* The clocks, what is left of sleep and time-out and the time since the   *)
(* block was sent are related as PaceIInv says in every state.             *)
THEOREM PaceInvariance ==
  PaceSpec => []PaceIInv
BY PaceAtFirst, PaceInductive, PTL DEF PaceSpec

(* However packets come, the server's block reaches everyone again within  *)
(* three times Tsec and a sleep, although the time-out after a reply is    *)
(* computed with the wrong sign.                                           *)
THEOREM GapIsBounded ==
  PaceSpec => []GapBounded
<1>1. PaceIInv => GapBounded
  BY PaceConstants DEF PaceIInv, PaceTypeOK, ClocksInv, GapInv, GapBounded
<1> QED
  BY <1>1, PaceInvariance, PTL

(* Three packets are never taken within Limit.                             *)
THEOREM PacketsPaced ==
  PaceSpec => TwoAtATime
<1>1. PaceIInv /\ [PaceNext]_pace_vars
        => [taken' > taken => before >= Limit]_pace_vars
  <2> SUFFICES ASSUME PaceIInv, PaceNext, taken' > taken PROVE before >= Limit
    OBVIOUS
  <2>1. CASE TakePacket
    BY <2>1, PaceConstants
       DEF TakePacket, PaceIInv, PaceTypeOK, GapInv, PaceInv
  <2>2. CASE SendToAll \/ SendToSender \/ TimeOut \/ Arrive
    BY <2>2 DEF SendToAll, SendToSender, TimeOut, Arrive, history, PaceIInv,
                PaceTypeOK
  <2>3. CASE PaceTick
    BY <2>3 DEF PaceTick, PaceIInv, PaceTypeOK
  <2> QED
    BY <2>1, <2>2, <2>3 DEF PaceNext
<1> QED
  BY <1>1, PaceInvariance, PTL DEF PaceSpec, TwoAtATime

-----------------------------------------------------------------------------
(* The segment (ShmBlock): the inductive invariant.                        *)

(* For ReadersSeeBridge: one bridge has the port; as long as none was      *)
(* stopped while another began, every bridge that has a segment has the    *)
(* one that the key leads to, and no other is right.                       *)
HasPort(b) == doing[b] \in {"run", "closing"}
OnePort == \A a, b \in Bridges : HasPort(a) /\ HasPort(b) => a = b
StopsAlone ==
  \A a \in Bridges :
    doing[a] \in Stopping =>
      doing[a] = "closing" /\ \A b \in Bridges : doing[b] \notin Beginning
HasBlock(b) == HasPort(b) \/ doing[b] \in Beginning \ {"none"}
SameSegment ==
  \A b \in Bridges : HasBlock(b) => key # 0 /\ seg[b] = key
OnlyKeyIsRight ==
  /\ right \subseteq {key}
  /\ \A b \in Bridges : doing[b] = "closing" => right = {}
SegmentInv ==
  /\ OnePort /\ \A b \in Bridges : HasBlock(b) => seg[b] # 0
  /\ ~crossed => StopsAlone /\ SameSegment /\ OnlyKeyIsRight

(* For NoOldCommands: a bridge that has emptied the queue knows all that   *)
(* comes to it.                                                            *)
StaleInv ==
  \A b \in Bridges :
    doing[b] \in {"check", "bind", "run"} =>
      \A i \in DOMAIN commands : b \notin commands[i]

ShmIInv == ShmTypeOK /\ SegmentInv /\ StaleInv

(* The parts of ShmTypeOK that the proofs need, and how a command leaves   *)
(* the queue.                                                              *)
States == Beginning \cup Stopping \cup {"off", "blind", "run", "refused"}
BridgeTypes ==
  /\ doing \in [Bridges -> States] /\ seg \in [Bridges -> {0} \cup Segments]
BlockTypes ==
  /\ key \in {0} \cup Segments /\ made \in 0 .. MaxMade
  /\ right \subseteq Segments
  /\ ServPID \in [Segments -> Bridges \cup {Nobody, Control}]
CommandTypes == commands \in Seq(SUBSET Bridges) /\ Len(commands) <= MaxQueued
ReaderTypes == reads \in [Readers -> {0} \cup Segments]

LEMMA ShmTypeParts ==
  ShmTypeOK <=> /\ BridgeTypes /\ BlockTypes /\ CommandTypes /\ ReaderTypes
                /\ crossed \in BOOLEAN
  BY DEF ShmTypeOK, BridgeTypes, BlockTypes, CommandTypes, ReaderTypes, States

LEMMA InitShm == ShmInit => ShmIInv
<1> SUFFICES ASSUME ShmInit PROVE ShmIInv
  OBVIOUS
<1>1. crossed \in BOOLEAN /\ ~crossed
  BY Zenon DEF ShmInit
<1>2. BridgeTypes /\ BlockTypes /\ CommandTypes /\ ReaderTypes
  BY ShmAssumption
     DEF ShmInit, BridgeTypes, BlockTypes, CommandTypes, ReaderTypes, States,
         Segments
<1>3. SegmentInv /\ StaleInv
  BY DEF ShmInit, SegmentInv, OnePort, HasPort, HasBlock, StopsAlone,
         SameSegment, OnlyKeyIsRight, StaleInv, Beginning, Stopping
<1> QED  BY <1>1, <1>2, <1>3, ShmTypeParts DEF ShmIInv

(* A queue of commands after Tail, and after Append.                       *)
LEMMA TailOf ==
  ASSUME NEW S, NEW q \in Seq(S), q # <<>>
  PROVE  /\ Tail(q) \in Seq(S) /\ Len(Tail(q)) = Len(q) - 1
         /\ \A i \in DOMAIN Tail(q) :
              i + 1 \in DOMAIN q /\ Tail(q)[i] = q[i + 1]
  BY HeadTailProperties

LEMMA AppendTo ==
  ASSUME NEW S, NEW q \in Seq(S), NEW e \in S
  PROVE  /\ Append(q, e) \in Seq(S) /\ Len(Append(q, e)) = Len(q) + 1
         /\ \A i \in DOMAIN Append(q, e) :
              Append(q, e)[i] = e \/ (i \in DOMAIN q /\ Append(q, e)[i] = q[i])
  BY AppendProperties

(* What a bridge that passes from one state to another leaves of the       *)
(* bridges' types, and of the port.                                        *)
LEMMA Goes ==
  ASSUME BridgeTypes, NEW b \in Bridges, NEW to \in States,
         doing' = [doing EXCEPT ![b] = to],
         \/ seg' = seg
         \/ \E s \in {0} \cup Segments : seg' = [seg EXCEPT ![b] = s]
  PROVE  /\ BridgeTypes' /\ doing'[b] = to
         /\ \A a \in Bridges \ {b} : doing'[a] = doing[a] /\ seg'[a] = seg[a]
  BY DEF BridgeTypes

(* One step of a bridge, as far as SegmentInv looks at it.                   *)
LEMMA StartKeepsBlock ==
  ASSUME BridgeTypes, BlockTypes, SegmentInv, crossed \in BOOLEAN,
         NEW b \in Bridges, Start(b)
  PROVE  BridgeTypes' /\ BlockTypes' /\ SegmentInv'
<1> USE DEF SegmentInv, OnePort, HasPort, HasBlock, StopsAlone, SameSegment,
            OnlyKeyIsRight, Beginning, Stopping, States, shm_block,
            BlockTypes
<1>0. key \in {0} \cup Segments /\ seg[b] \in {0} \cup Segments
      /\ MaxMade \in Nat /\ Segments = 1 .. MaxMade
  BY ShmAssumption DEF BridgeTypes, Segments
<1>1. CASE Look(b)
  <2>1. doing' = [doing EXCEPT ![b] = IF key = 0 THEN "none" ELSE "got"]
        /\ seg' = [seg EXCEPT ![b] = key] /\ doing[b] = "off"
        /\ UNCHANGED <<key, made, right, ServPID>>
    BY <1>1 DEF Look, BridgeGoes
  <2>2. ~crossed' => ~crossed /\ \A a \in Bridges : doing[a] \notin Stopping
    BY <1>1, Zenon DEF Look
  <2>3. /\ BridgeTypes' /\ doing'[b] = IF key = 0 THEN "none" ELSE "got"
        /\ \A a \in Bridges \ {b} : doing'[a] = doing[a] /\ seg'[a] = seg[a]
    BY <1>0, <2>1, Goes
  <2>4. seg'[b] = key
    BY <2>1 DEF BridgeTypes
  <2> QED  BY <1>0, <2>1, <2>2, <2>3, <2>4
<1>2. CASE Create(b)
  <2>1. doing' = [doing EXCEPT ![b] = "got"] /\ doing[b] = "none"
        /\ seg' = [seg EXCEPT ![b] = made'] /\ key = 0 /\ key' = made + 1
        /\ made' = made + 1 /\ made' \in Segments
        /\ UNCHANGED <<right, ServPID, crossed>>
    BY <1>0, <1>2 DEF Create, BridgeGoes
  <2>3. /\ BridgeTypes' /\ doing'[b] = "got"
        /\ \A a \in Bridges \ {b} : doing'[a] = doing[a] /\ seg'[a] = seg[a]
    BY <1>0, <2>1, Goes
  <2>4. seg'[b] = key'
    BY <2>1 DEF BridgeTypes
  <2> QED  BY <1>0, <2>1, <2>3, <2>4
<1>3. CASE Fails(b)
  <2>1. doing' = [doing EXCEPT ![b] = "blind"] /\ doing[b] \in {"none", "got"}
        /\ seg' = [seg EXCEPT ![b] = 0]
        /\ UNCHANGED <<key, made, right, ServPID, crossed>>
    BY <1>3 DEF Fails, BridgeGoes
  <2>3. /\ BridgeTypes' /\ doing'[b] = "blind"
        /\ \A a \in Bridges \ {b} : doing'[a] = doing[a] /\ seg'[a] = seg[a]
    BY <1>0, <2>1, Goes
  <2> QED  BY <1>0, <2>1, <2>3
<1>4. CASE bta_data_init(b)
  <2>1. doing' = [doing EXCEPT ![b] = "drain"] /\ doing[b] = "got"
        /\ key = seg[b] /\ right' = right \cup {seg[b]}
        /\ UNCHANGED <<seg, key, made, crossed>>
    BY <1>4 DEF bta_data_init, BridgeGoes
  <2>2. ServPID' \in [Segments -> Bridges \cup {Nobody, Control}]
    BY <1>4 DEF bta_data_init
  <2>3. /\ BridgeTypes' /\ doing'[b] = "drain"
        /\ \A a \in Bridges \ {b} : doing'[a] = doing[a] /\ seg'[a] = seg[a]
    BY <1>0, <2>1, Goes
  <2> QED  BY <1>0, <2>1, <2>2, <2>3
<1>5. CASE Drain(b) \/ CheckPid(b) \/ Bind(b)
  <2>1. PICK to \in {"drain", "blind", "off", "check", "bind", "refused",
                     "run"} :
          /\ doing' = [doing EXCEPT ![b] = to]
          /\ \/ doing[b] \in {"drain", "check", "bind"} /\ to # "blind"
             \/ doing[b] = "blind" /\ to \in {"blind", "off"}
          /\ to = "run" =>
               \A a \in Bridges : doing[a] \notin {"run", "closing"}
    BY <1>5 DEF Drain, CheckPid, Bind, BridgeGoes, BridgeTypes
  <2>2. UNCHANGED <<seg, key, made, right, ServPID, crossed>>
    BY <1>5 DEF Drain, CheckPid, Bind
  <2>3. /\ BridgeTypes' /\ doing'[b] = to
        /\ \A a \in Bridges \ {b} : doing'[a] = doing[a] /\ seg'[a] = seg[a]
    BY <1>0, <2>1, <2>2, Goes
  <2> QED  BY <1>0, <2>1, <2>2, <2>3
<1>6. CASE ExitBridge(b)
  <2>1. doing' = [doing EXCEPT ![b] = "off"]
        /\ seg' = [seg EXCEPT ![b] = 0]
        /\ UNCHANGED <<key, made, right, ServPID, crossed>>
    BY <1>6 DEF ExitBridge, BridgeGoes
  <2>3. /\ BridgeTypes' /\ doing'[b] = "off"
        /\ \A a \in Bridges \ {b} : doing'[a] = doing[a] /\ seg'[a] = seg[a]
    BY <1>0, <2>1, Goes
  <2> QED  BY <1>0, <2>1, <2>3
<1> QED  BY <1>1, <1>2, <1>3, <1>4, <1>5, <1>6 DEF Start

LEMMA RunKeepsBlock ==
  ASSUME BridgeTypes, BlockTypes, SegmentInv, crossed \in BOOLEAN,
         NEW b \in Bridges,
         \/ Receive(b) \/ PassOn(b) \/ bta_data_close(b)
         \/ RemoveSegment(b) \/ KilledBridge(b)
  PROVE  BridgeTypes' /\ BlockTypes' /\ SegmentInv'
<1> USE DEF SegmentInv, OnePort, HasPort, HasBlock, StopsAlone, SameSegment,
            OnlyKeyIsRight, Beginning, Stopping, States, shm_block,
            BlockTypes
<1>0. key \in {0} \cup Segments /\ seg[b] \in {0} \cup Segments
      /\ MaxMade \in Nat /\ Segments = 1 .. MaxMade
  BY ShmAssumption DEF BridgeTypes, Segments
<1>1. CASE Receive(b)
  <2>1. doing[b] = "run" /\ UNCHANGED <<doing, seg, key, made, crossed>>
    BY <1>1, Zenon DEF Receive
  <2>2. right' = right \/ right' = right \cup {seg[b]}
    BY <1>1, Zenon DEF Receive
  <2>3. seg[b] \in Segments
    BY <1>0, <2>1
  <2>4. BridgeTypes' /\ BlockTypes'
    <3>1. PICK pid \in {b, Control} :
            ServPID' = [ServPID EXCEPT ![seg[b]] = pid]
      BY <1>1, Zenon DEF Receive
    <3> QED  BY <2>1, <2>2, <2>3, <3>1 DEF BridgeTypes
  <2>5. ~crossed => OnlyKeyIsRight'
    BY <1>0, <2>1, <2>2, <2>3
  <2> QED  BY <2>1, <2>4, <2>5
<1>2. CASE PassOn(b)
  BY <1>2 DEF PassOn, BridgeTypes
<1>3. CASE bta_data_close(b)
  <2>1. PICK to \in {"closing", "leaving"} :
          /\ doing' = [doing EXCEPT ![b] = to]
          /\ to = "closing" => doing[b] = "run"
          /\ to = "leaving" => doing[b] \in Beginning
    BY <1>3 DEF bta_data_close, BridgeGoes
  <2>2. /\ right' = right \ {seg[b]}
        /\ UNCHANGED <<seg, key, made, ServPID>>
    BY <1>3 DEF bta_data_close
  <2>3. ~crossed' => /\ ~crossed /\ doing[b] \notin Beginning
                     /\ \A a \in Bridges \ {b} : doing[a] \notin Beginning
    BY <1>3, Zenon DEF bta_data_close
  <2>4. /\ BridgeTypes' /\ doing'[b] = to
        /\ \A a \in Bridges \ {b} : doing'[a] = doing[a] /\ seg'[a] = seg[a]
    BY <1>0, <2>1, <2>2, Goes
  <2> QED  BY <1>0, <2>1, <2>2, <2>3, <2>4
<1>4. CASE RemoveSegment(b)
  <2>1. /\ doing' = [doing EXCEPT ![b] = "off"] /\ doing[b] \in Stopping
        /\ key' = IF key = seg[b] THEN 0 ELSE key
        /\ seg' = [seg EXCEPT ![b] = 0]
        /\ UNCHANGED <<made, right, ServPID, crossed>>
    BY <1>4 DEF RemoveSegment, BridgeGoes
  <2>2. /\ BridgeTypes' /\ doing'[b] = "off"
        /\ \A a \in Bridges \ {b} : doing'[a] = doing[a] /\ seg'[a] = seg[a]
    BY <1>0, <2>1, Goes
  <2> QED  BY <1>0, <2>1, <2>2
<1>5. CASE KilledBridge(b)
  <2>1. /\ doing' = [doing EXCEPT ![b] = "off"]
        /\ seg' = [seg EXCEPT ![b] = 0]
        /\ UNCHANGED <<key, made, right, ServPID, crossed>>
    BY <1>5 DEF KilledBridge
  <2>2. /\ BridgeTypes' /\ doing'[b] = "off"
        /\ \A a \in Bridges \ {b} : doing'[a] = doing[a] /\ seg'[a] = seg[a]
    BY <1>0, <2>1, Goes
  <2> QED  BY <1>0, <2>1, <2>2
<1> QED  BY <1>1, <1>2, <1>3, <1>4, <1>5

-----------------------------------------------------------------------------
(* The other steps of the block; those of a bridge change the queue at     *)
(* Look, which adds to what every command says, and by Tail.               *)
LEMMA QueueKept ==
  ASSUME CommandTypes, BridgeTypes, StaleInv, NEW b \in Bridges,
         \/ Start(b) \/ Receive(b) \/ PassOn(b) \/ bta_data_close(b)
         \/ RemoveSegment(b) \/ KilledBridge(b)
  PROVE  CommandTypes' /\ StaleInv'
<1>1. CASE Look(b)
  <2>1. commands' = [i \in DOMAIN commands |-> commands[i] \cup {b}]
    BY <1>1 DEF Look
  <2>2. /\ commands' \in Seq(SUBSET Bridges) /\ Len(commands') = Len(commands)
        /\ \A i \in DOMAIN commands' :
             i \in DOMAIN commands /\ commands'[i] = commands[i] \cup {b}
    BY <2>1 DEF CommandTypes
  <2>3. /\ doing'[b] \in {"none", "got"}
        /\ \A a \in Bridges \ {b} : doing'[a] = doing[a]
    BY <1>1 DEF Look, BridgeGoes, BridgeTypes
  <2> QED  BY <2>2, <2>3 DEF CommandTypes, StaleInv
<1>2. CASE Drain(b) /\ commands = <<>>
  BY <1>2 DEF Drain, CommandTypes, StaleInv
<1>3. ASSUME commands # <<>>, commands' = Tail(commands), UNCHANGED doing
      PROVE  CommandTypes' /\ StaleInv'
  <2>1. commands \in Seq(SUBSET Bridges) /\ Len(commands) \in Nat
        /\ MaxQueued \in Nat /\ Len(commands) <= MaxQueued
    BY ShmAssumption DEF CommandTypes
  <2>2. /\ commands' \in Seq(SUBSET Bridges)
        /\ Len(commands') = Len(commands) - 1
        /\ \A i \in DOMAIN commands' :
             i + 1 \in DOMAIN commands /\ commands'[i] = commands[i + 1]
    BY <1>3, <2>1, TailOf
  <2>3. CommandTypes'
    BY <2>1, <2>2 DEF CommandTypes
  <2> QED  BY <1>3, <2>2, <2>3 DEF StaleInv
<1>4. ASSUME UNCHANGED commands,
             NEW to \in {"got", "off", "blind", "drain", "refused",
                         "closing", "leaving"},
             doing' = [doing EXCEPT ![b] = to]
      PROVE  CommandTypes' /\ StaleInv'
  <2>1. \A a \in Bridges :
          doing'[a] = doing[a] \/ doing'[a] \notin {"check", "bind", "run"}
    BY <1>4 DEF BridgeTypes
  <2> QED  BY <1>4, <2>1 DEF CommandTypes, StaleInv
<1>5. CASE (Drain(b) /\ commands # <<>>) \/ PassOn(b)
  BY <1>3, <1>5 DEF Drain, PassOn
<1>6. CASE CheckPid(b) \/ Bind(b)
  <2>1. /\ doing[b] \in {"check", "bind"} /\ UNCHANGED commands
        /\ \E to \in {"bind", "run", "refused"} :
             doing' = [doing EXCEPT ![b] = to]
    BY <1>6 DEF CheckPid, Bind, BridgeGoes
  <2> QED  BY <2>1 DEF CommandTypes, StaleInv, BridgeTypes
<1>7. CASE Create(b) \/ Fails(b) \/ bta_data_init(b) \/ ExitBridge(b)
  <2>1. UNCHANGED commands
    BY <1>7 DEF Create, Fails, bta_data_init, ExitBridge, shm_block
  <2>2. \E to \in {"got", "off", "blind", "drain"} :
          doing' = [doing EXCEPT ![b] = to]
    BY <1>7 DEF Create, Fails, bta_data_init, ExitBridge, BridgeGoes
  <2> QED  BY <1>4, <2>1, <2>2
<1>8. CASE Receive(b)
  BY <1>8 DEF Receive, CommandTypes, StaleInv
<1>9. CASE bta_data_close(b) \/ RemoveSegment(b) \/ KilledBridge(b)
  <2>1. UNCHANGED commands
    BY <1>9 DEF bta_data_close, RemoveSegment, KilledBridge, shm_block
  <2>2. \E to \in {"off", "closing", "leaving"} :
          doing' = [doing EXCEPT ![b] = to]
    BY <1>9 DEF bta_data_close, RemoveSegment, KilledBridge, BridgeGoes
  <2> QED  BY <1>4, <2>1, <2>2
<1> QED  BY <1>1, <1>2, <1>5, <1>6, <1>7, <1>8, <1>9 DEF Start

LEMMA ReadersKept ==
  ASSUME ReaderTypes, BlockTypes, [ShmNext]_shm_vars
  PROVE  ReaderTypes'
<1>1. ASSUME UNCHANGED reads PROVE ReaderTypes'
  BY <1>1 DEF ReaderTypes
<1>2. ASSUME NEW r \in Readers, Attach(r) \/ Detach(r)
      PROVE  ReaderTypes'
  BY <1>2 DEF Attach, Detach, ReaderTypes, BlockTypes
<1>3. ASSUME NEW b \in Bridges, Start(b)
      PROVE  UNCHANGED reads
  BY <1>3
     DEF Start, Look, Create, Fails, bta_data_init, Drain, CheckPid, Bind,
         ExitBridge
<1>4. ASSUME NEW b \in Bridges,
             \/ Receive(b) \/ PassOn(b) \/ bta_data_close(b)
             \/ RemoveSegment(b) \/ KilledBridge(b)
      PROVE  UNCHANGED reads
  BY <1>4
     DEF Receive, PassOn, bta_data_close, RemoveSegment, KilledBridge
<1> QED
  BY <1>1, <1>2, <1>3, <1>4 DEF ShmNext, GiveCommand, shm_vars

LEMMA CrossedType == crossed \in BOOLEAN /\ [ShmNext]_shm_vars
                       => crossed' \in BOOLEAN
  BY Zenon
     DEF ShmNext, Start, Look, Create, Fails, bta_data_init, Drain, CheckPid,
         Bind, ExitBridge, Receive, PassOn, bta_data_close, RemoveSegment,
         KilledBridge, Attach, Detach, GiveCommand, shm_vars

LEMMA ShmInductive == ShmIInv /\ [ShmNext]_shm_vars => ShmIInv'
<1> SUFFICES ASSUME ShmIInv, [ShmNext]_shm_vars
             PROVE  ShmIInv'
  OBVIOUS
<1>0. /\ BridgeTypes /\ BlockTypes /\ SegmentInv /\ CommandTypes /\ StaleInv
      /\ ReaderTypes /\ crossed \in BOOLEAN
  BY ShmTypeParts DEF ShmIInv
<1>1. ASSUME NEW b \in Bridges, Start(b)
      PROVE  BridgeTypes' /\ BlockTypes' /\ SegmentInv'
  BY <1>0, <1>1, StartKeepsBlock
<1>2. ASSUME NEW b \in Bridges,
             \/ Receive(b) \/ PassOn(b) \/ bta_data_close(b)
             \/ RemoveSegment(b) \/ KilledBridge(b)
      PROVE  BridgeTypes' /\ BlockTypes' /\ SegmentInv'
  BY <1>0, <1>2, RunKeepsBlock
<1>3. ASSUME UNCHANGED <<doing, seg, shm_block, crossed>>
      PROVE  BridgeTypes' /\ BlockTypes' /\ SegmentInv'
  BY <1>0, <1>3
     DEF BridgeTypes, BlockTypes, SegmentInv, OnePort, HasPort, HasBlock,
         StopsAlone, SameSegment, OnlyKeyIsRight, shm_block
<1>4. ASSUME UNCHANGED <<doing, commands>>
      PROVE  CommandTypes' /\ StaleInv'
  BY <1>0, <1>4 DEF CommandTypes, StaleInv
<1>5. ASSUME GiveCommand
      PROVE  /\ BridgeTypes' /\ BlockTypes' /\ SegmentInv'
             /\ CommandTypes' /\ StaleInv'
  <2>1. CommandTypes' /\ StaleInv'
    BY <1>0, <1>5, AppendTo, ShmAssumption
       DEF GiveCommand, CommandTypes, StaleInv
  <2> QED  BY <1>3, <1>5, <2>1 DEF GiveCommand
<1>6. ASSUME NEW r \in Readers, Attach(r) \/ Detach(r)
      PROVE  UNCHANGED <<doing, seg, shm_block, commands, crossed>>
  BY <1>6 DEF Attach, Detach
<1>7. ASSUME UNCHANGED shm_vars
      PROVE  /\ BridgeTypes' /\ BlockTypes' /\ SegmentInv'
             /\ CommandTypes' /\ StaleInv'
  BY <1>3, <1>4, <1>7 DEF shm_vars
<1>8. /\ BridgeTypes' /\ BlockTypes' /\ SegmentInv'
      /\ CommandTypes' /\ StaleInv'
  BY <1>0, <1>1, <1>2, <1>3, <1>4, <1>5, <1>6, <1>7, QueueKept DEF ShmNext
<1>9. ReaderTypes' /\ crossed' \in BOOLEAN
  BY <1>0, ReadersKept, CrossedType
<1> QED
  BY <1>8, <1>9
     DEF ShmIInv, ShmTypeOK, BridgeTypes, BlockTypes, CommandTypes,
         ReaderTypes, States

LEMMA SpecShm == ShmSpec => []ShmIInv
  BY InitShm, ShmInductive, PTL DEF ShmSpec

(* The block that a reader is told is right is the running bridge's, and   *)
(* the key leads there, as long as no bridge was stopped while another     *)
(* began (bta_shdata.c:50-160, bta_control_net.c:232-247).                 *)
THEOREM RightBlockIsLive == ShmSpec => []ReadersSeeBridge
<1>1. ShmIInv => ReadersSeeBridge
  BY DEF ShmIInv, SegmentInv, SameSegment, OnlyKeyIsRight, HasPort, HasBlock,
         ReadersSeeBridge
<1> QED  BY <1>1, SpecShm, PTL

(* Commands that waited from before a bridge's time are not passed on by   *)
(* it (bta_shdata.c:165-189, bta_control_net.c:236-238).                   *)
THEOREM OldCommandsDropped == ShmSpec => []NoOldCommands
<1>1. ShmIInv => NoOldCommands
  BY DEF ShmIInv, StaleInv, NoOldCommands
<1> QED  BY <1>1, SpecShm, PTL

-----------------------------------------------------------------------------
(* Rain (Precip).  A frame without the bit, or the first with it, begins   *)
(* the count anew; the next ones store Precip_time once the sensor has     *)
(* been on for long enough, or find it stored a short while ago.           *)

(* The inductive invariant: how the histories are tied to the times that   *)
(* the daemon compares.                                                    *)
TimesInv ==
  /\ ~o_rcode => streak = 0
  /\ off_time + streak <= M_time /\ Precip_time <= M_time
  /\ \/ since_precip = M_time - Precip_time
     \/ since_precip = Long /\ Precip_time = 0

RainIInv == RainTypeOK /\ TimesInv /\ ToldWhileItRains

LEMMA RainBounds ==
  /\ MaxTime \in Nat /\ Again \in Nat /\ Sure \in Nat /\ Pause \in Nat
  /\ Warn \in Nat /\ Long = MaxTime + 1 /\ Times = 0 .. MaxTime
  BY RainAssumption DEF Long, Times

RainFlags == o_rcode \in BOOLEAN /\ observing \in BOOLEAN /\ fresh \in BOOLEAN
             /\ alarm \in BOOLEAN
RainNumbers ==
  /\ M_time \in Times /\ Precip_time \in Times /\ off_time \in Times
  /\ last_msg_time \in Times /\ streak \in 0 .. Long
  /\ since_precip \in 0 .. Long /\ since_fault \in 0 .. Long

LEMMA RainTypes == RainTypeOK <=> RainFlags /\ RainNumbers
  BY DEF RainTypeOK, RainFlags, RainNumbers

LEMMA InitRain == RainInit => RainIInv
<1> SUFFICES ASSUME RainInit PROVE RainIInv
  OBVIOUS
<1>1. RainFlags
  BY Zenon DEF RainInit, RainFlags
<1>2. RainNumbers /\ TimesInv /\ ToldWhileItRains
  BY RainBounds DEF RainInit, RainNumbers, TimesInv, ToldWhileItRains
<1> QED  BY <1>1, <1>2, RainTypes DEF RainIInv

LEMMA FramesKeep ==
  ASSUME RainNumbers, TimesInv, Frame
  PROVE  RainNumbers' /\ TimesInv' /\ ToldWhileItRains'
<1> USE RainBounds
    DEF RainNumbers, TimesInv, ToldWhileItRains, MoreThanAgo
<1>1. CASE Off
  BY <1>1 DEF Off
<1>2. CASE JustOn
  BY <1>2 DEF JustOn
<1>3. CASE StillOn
  <2>1. streak > Again + Sure + 1 => Informs
    BY DEF Informs, fabs
  <2>2. \/ Precip_time' = M_time /\ since_precip' = 0
        \/ ~Informs /\ UNCHANGED <<Precip_time, since_precip>>
    BY <1>3, Zenon DEF StillOn, React
  <2>3. /\ since_fault' \in {0, since_fault}
        /\ last_msg_time' \in {M_time, last_msg_time}
        /\ UNCHANGED <<M_time, off_time, streak, o_rcode>>
    BY <1>3 DEF StillOn, React
  <2> QED  BY <2>1, <2>2, <2>3
<1>4. CASE StillOnKnown
  BY <1>4 DEF StillOnKnown
<1> QED  BY <1>1, <1>2, <1>3, <1>4 DEF Frame

LEMMA RainInductive == RainIInv /\ [RainNext]_rain_vars => RainIInv'
<1> SUFFICES ASSUME RainIInv, [RainNext]_rain_vars
             PROVE  /\ RainFlags' /\ RainNumbers'
                    /\ TimesInv' /\ ToldWhileItRains'
  BY DEF RainIInv, RainTypeOK, RainFlags, RainNumbers
<1>0. /\ RainFlags /\ RainNumbers /\ TimesInv /\ ToldWhileItRains
  BY RainTypes DEF RainIInv
<1>1. RainFlags'
  <2>1. Alarm \in BOOLEAN
    BY DEF Alarm
  <2>2. CASE Frame
    BY <1>0, <2>1, <2>2, Zenon
       DEF RainFlags, Frame, Off, JustOn, StillOn, React, StillOnKnown
  <2>3. CASE RainTick \/ Observe \/ UNCHANGED rain_vars
    BY <1>0, <2>3, Zenon
       DEF RainFlags, RainTick, Observe, rain_vars, rain_daemon, rain_history
  <2> QED  BY <2>2, <2>3 DEF RainNext
<1>2. CASE Frame
  BY <1>0, <1>1, <1>2, FramesKeep
<1>3. CASE RainTick
  BY <1>0, <1>1, <1>3, RainBounds
     DEF RainTick, RainNumbers, TimesInv, ToldWhileItRains, Longer,
         rain_daemon
<1>4. CASE Observe \/ UNCHANGED rain_vars
  BY <1>0, <1>1, <1>4
     DEF Observe, rain_vars, RainNumbers, TimesInv, ToldWhileItRains,
         rain_daemon, rain_history
<1> QED  BY <1>2, <1>3, <1>4 DEF RainNext

LEMMA SpecRain == RainSpec => []RainIInv
  BY InitRain, RainInductive, PTL DEF RainSpec

(* As long as the rain sensor stays on, Precip_time says so: it is never   *)
(* left to get old (bta_meteo_can.c:276-304).                              *)
THEOREM RainIsTold == RainSpec => []ToldWhileItRains
<1>1. RainIInv => ToldWhileItRains
  BY DEF RainIInv
<1> QED  BY <1>1, SpecRain, PTL

-----------------------------------------------------------------------------
(* T3 (MirTemp).                                                           *)

(* The inductive invariant.  The flag that is to go is there only with     *)
(* NET_T3, without which clear_flags would leave it, and in a segment that *)
(* the child has found by the time it looks at the silence.                *)
Trusted == "SENSOR_T3" \in MeteoMode
FlagsInv ==
  /\ gotsegm => shm_up
  /\ Trusted => shm_up /\ "NET_T3" \in MeteoMode
  /\ Trusted /\ child \in {"segm", "ask", "rest", "hung"} => gotsegm

(* tlast is set a pause later than the temperature came; each state of the *)
(* loop then adds its own delay; and a child begins with what those before *)
(* it have left, which is all but a Lapse of the grace.                    *)
AgeInv ==
  LET old == grace - Lapse
      allowed == SilenceT + PollT + ReplyT + old
  IN
  /\ grace \in Nat /\ grace >= Lapse
  /\ child = "hung" => stuck
  /\ "INPUT_T3" \in MeteoMode => T3_age = 0
  /\ Trusted /\ ~stuck =>
       /\ child \in {"none", "born"} => T3_age <= old
       /\ child \in {"top", "segm", "ask"} \/ (child = "rest" /\ ~news)
            => T3_age <= quiet + PollT + old
       /\ child \in {"top", "segm"} => T3_age <= allowed + RetryT
       /\ child = "ask" => nap <= ReplyT /\ T3_age + nap <= allowed
       /\ child = "rest" /\ news => T3_age + nap <= PollT + old
       /\ child = "rest" /\ ~news => T3_age + nap <= allowed + RetryT

TempIInv == TempTypeOK /\ FlagsInv /\ AgeInv

LEMMA TempBounds ==
  /\ SilenceT \in Nat /\ PollT \in Nat /\ RetryT \in Nat /\ ReplyT \in Nat
  /\ MaxFds \in Nat /\ MaxTwists \in Nat
  /\ Lapse = SilenceT + PollT + RetryT + ReplyT /\ Lapse \in Nat
  /\ LongestQuiet = Lapse + 2 /\ LongestAge \in Nat
<1>1. Lapse \in Nat /\ MaxTwists + 1 \in Nat
  BY TempAssumption DEF Lapse
<1>2. (MaxTwists + 1) * Lapse \in Nat
  BY <1>1
<1> QED
  BY <1>1, <1>2, TempAssumption DEF Lapse, LongestQuiet, LongestAge

TempFlags == news \in BOOLEAN /\ gotsegm \in BOOLEAN /\ shm_up \in BOOLEAN
             /\ orphan \in BOOLEAN /\ stuck \in BOOLEAN
TempOthers ==
  /\ guard \in {"up", "sleep", "dead"}
  /\ child \in {"none", "born", "top", "segm", "ask", "rest", "hung"}
  /\ nap \in 0 .. PollT + RetryT + ReplyT /\ MeteoMode \subseteq Flags
  /\ quiet \in 0 .. LongestQuiet /\ T3_age \in 0 .. LongestAge
  /\ grace \in Nat
  /\ lost \in 0 .. MaxFds /\ twists \in 0 .. MaxTwists

TempParts == TempOthers /\ FlagsInv /\ AgeInv

LEMMA InitTemp == TempInit => TempFlags /\ TempParts
<1> SUFFICES ASSUME TempInit PROVE TempFlags /\ TempParts
  OBVIOUS
<1>1. TempFlags
  BY Zenon DEF TempInit, TempFlags
<1>2. /\ "SENSOR_T3" \notin MeteoMode /\ MeteoMode \subseteq Flags
      /\ "INPUT_T3" \notin MeteoMode
  BY DEF TempInit, Flags
<1> QED
  BY <1>1, <1>2, TempBounds
     DEF TempInit, TempParts, TempOthers, FlagsInv, AgeInv, Trusted

LEMMA TempFlagsKept == TempFlags /\ [TempNext]_temp_vars => TempFlags'
<1> SUFFICES ASSUME TempFlags, [TempNext]_temp_vars
             PROVE  TempFlags'
  OBVIOUS
<1> USE DEF TempFlags, outside, ages
<1>1. CASE ForkChild \/ SetDeathSignal \/ GetBlock \/ CheckSilence
  BY <1>1, Zenon DEF ForkChild, SetDeathSignal, GetBlock, CheckSilence
<1>2. CASE Answer \/ Failure \/ Hang \/ Wake
  BY <1>2, Zenon DEF Answer, Failure, Hang, Wake
<1>3. CASE Crash \/ Stopped \/ KilledChild \/ GuardEnds \/ DeathSignal
  BY <1>3, Zenon
     DEF Crash, Stopped, KilledChild, GuardEnds, DeathSignal, temp_signals,
         Gone
<1>4. CASE GuardWakes \/ ByHand \/ TempTick \/ UNCHANGED temp_vars
  BY <1>4, Zenon DEF GuardWakes, ByHand, TempTick, temp_vars
<1> QED  BY <1>1, <1>2, <1>3, <1>4 DEF TempNext

(* Once the child is gone, with its flags or without, only what the flags  *)
(* say of the segment is left.                                             *)
LEMMA GoneKeeps ==
  ASSUME TempFlags, TempParts, Gone,
         MeteoMode' \in {MeteoMode, cleared(MeteoMode)},
         guard' \in {guard, "sleep"}, shm_up' = shm_up,
         twists' \in 0 .. MaxTwists
  PROVE  TempParts'
<1>1. /\ MeteoMode' \subseteq Flags
      /\ "INPUT_T3" \in MeteoMode' => "INPUT_T3" \in MeteoMode
      /\ "SENSOR_T3" \in MeteoMode'
           => "SENSOR_T3" \in MeteoMode /\ MeteoMode' = MeteoMode
  BY DEF TempParts, TempOthers, FlagsInv, Trusted, cleared, Flags
<1>2. ~gotsegm' /\ child' = "none" /\ T3_age' = T3_age /\ stuck' = stuck
  BY Zenon DEF Gone
<1>3. FlagsInv'
  BY <1>1, <1>2 DEF TempParts, FlagsInv, Trusted
<1>4. grace' = IF "SENSOR_T3" \in MeteoMode' THEN grace + Lapse ELSE grace
  BY DEF Gone
<1>5. TempOthers'
  BY <1>1, <1>4, TempBounds DEF TempParts, TempOthers, Gone
<1>6. Trusted /\ ~stuck => T3_age <= grace
  BY TempBounds DEF TempFlags, TempParts, TempOthers, AgeInv
<1>7. AgeInv'
  BY <1>1, <1>2, <1>4, <1>6, TempBounds
     DEF TempParts, TempOthers, AgeInv, Trusted
<1> QED  BY <1>3, <1>5, <1>7 DEF TempParts

LEMMA DyingKeeps ==
  ASSUME TempFlags, TempParts,
         Crash \/ Stopped \/ KilledChild \/ GuardEnds \/ DeathSignal
  PROVE  TempParts'
<1> USE TempBounds DEF outside
<1>0. twists \in 0 .. MaxTwists /\ guard \in {"up", "sleep", "dead"}
  BY DEF TempParts, TempOthers
<1>1. CASE Crash
  BY <1>0, <1>1, GoneKeeps DEF Crash, temp_signals, clear_flags, Bereave
<1>2. CASE Stopped
  BY <1>0, <1>2, GoneKeeps DEF Stopped, temp_signals, clear_flags, Bereave
<1>3. CASE KilledChild
  BY <1>0, <1>3, GoneKeeps DEF KilledChild, Bereave
<1>4. CASE GuardEnds
  BY <1>4
     DEF GuardEnds, TempParts, TempOthers, FlagsInv, AgeInv, Trusted, ages
<1>5. CASE DeathSignal
  BY <1>0, <1>5, GoneKeeps DEF DeathSignal, clear_flags
<1> QED  BY <1>1, <1>2, <1>3, <1>4, <1>5

LEMMA LoopKeeps ==
  ASSUME TempFlags, TempParts,
         \/ ForkChild \/ SetDeathSignal \/ GetBlock \/ CheckSilence
         \/ Answer \/ Failure \/ Hang \/ Wake
  PROVE  TempParts'
<1> USE TempBounds
    DEF TempParts, TempOthers, FlagsInv, AgeInv, Trusted, outside, ages
<1>1. CASE ForkChild
  BY <1>1 DEF ForkChild
<1>2. CASE SetDeathSignal
  BY <1>2 DEF SetDeathSignal
<1>3. CASE GetBlock
  BY <1>3 DEF GetBlock
<1>4. CASE CheckSilence
  <2>1. CASE quiet > SilenceT
    <3>1. /\ MeteoMode' \subseteq Flags /\ "SENSOR_T3" \notin MeteoMode'
          /\ "INPUT_T3" \in MeteoMode' => "INPUT_T3" \in MeteoMode
      BY <1>4, <2>1 DEF CheckSilence, clear_flags, cleared, Flags
    <3> QED  BY <1>4, <2>1, <3>1 DEF CheckSilence
  <2>2. CASE ~(quiet > SilenceT)
    BY <1>4, <2>2 DEF CheckSilence
  <2> QED  BY <2>1, <2>2
<1>5. CASE Answer
  <2>1. CASE gotsegm /\ "INPUT_T3" \notin MeteoMode
    <3>1. /\ MeteoMode' \subseteq Flags
          /\ shm_up /\ "NET_T3" \in MeteoMode' /\ gotsegm
          /\ "INPUT_T3" \notin MeteoMode'
      BY <1>5, <2>1 DEF Answer, Connects, Flags
    <3> QED  BY <1>5, <2>1, <3>1 DEF Answer, Connects
  <2>2. CASE ~(gotsegm /\ "INPUT_T3" \notin MeteoMode)
    BY <1>5, <2>2 DEF Answer, Connects
  <2> QED  BY <2>1, <2>2
<1>6. CASE Failure
  BY <1>6 DEF Failure
<1>7. CASE Hang
  BY <1>7 DEF Hang, Connects
<1>8. CASE Wake
  BY <1>8 DEF Wake
<1> QED
  BY <1>1, <1>2, <1>3, <1>4, <1>5, <1>6, <1>7, <1>8

LEMMA OutsideKeeps ==
  ASSUME TempFlags, TempParts,
         GuardWakes \/ ByHand \/ TempTick \/ UNCHANGED temp_vars
  PROVE  TempParts'
<1> USE TempBounds
    DEF TempParts, TempOthers, FlagsInv, AgeInv, Trusted, outside, ages
<1>1. CASE GuardWakes
  BY <1>1 DEF GuardWakes
<1>2. CASE ByHand
  <2>1. /\ MeteoMode' \subseteq Flags
        /\ "SENSOR_T3" \in MeteoMode' <=> "SENSOR_T3" \in MeteoMode
        /\ "NET_T3" \in MeteoMode' <=> "NET_T3" \in MeteoMode
    <3>1. ASSUME NEW f \in {"INPUT_T3", "NET_HMD"},
                 MeteoMode' \in {MeteoMode \ {f}, MeteoMode \cup {f}}
          PROVE  /\ MeteoMode' \subseteq Flags
                 /\ "SENSOR_T3" \in MeteoMode' <=> "SENSOR_T3" \in MeteoMode
                 /\ "NET_T3" \in MeteoMode' <=> "NET_T3" \in MeteoMode
      BY <3>1 DEF Flags
    <3>2. \/ MeteoMode' = MeteoMode
          \/ \E f \in {"INPUT_T3", "NET_HMD"} :
               MeteoMode' \in {MeteoMode \ {f}, MeteoMode \cup {f}}
      BY <1>2, Zenon DEF ByHand
    <3> QED  BY <3>1, <3>2
  <2>2. twists' \in 0 .. MaxTwists
    BY <1>2 DEF ByHand
  <2>3. /\ UNCHANGED <<guard, child, news, nap, gotsegm, quiet, lost, orphan,
                      grace, stuck>>
        /\ T3_age' \in {T3_age, 0}
        /\ "INPUT_T3" \in MeteoMode' => T3_age' = 0
    BY <1>2 DEF ByHand, TempFlags
  <2>4. shm_up => shm_up'
    BY <1>2, Zenon DEF ByHand
  <2>5. TempOthers' /\ FlagsInv'
    BY <2>1, <2>2, <2>3, <2>4
  <2>6. CASE T3_age' = T3_age
    BY <2>1, <2>3, <2>5, <2>6
  <2>7. CASE T3_age' = 0
    BY <2>1, <2>3, <2>5, <2>7
  <2> QED  BY <2>3, <2>6, <2>7
<1>3. CASE TempTick
  BY <1>3 DEF TempTick, Counted, TempFlags
<1>4. CASE UNCHANGED temp_vars
  BY <1>4 DEF temp_vars
<1> QED  BY <1>1, <1>2, <1>3, <1>4

LEMMA TempIInvParts == TempIInv <=> TempFlags /\ TempParts
  BY DEF TempIInv, TempTypeOK, TempFlags, TempParts, TempOthers

LEMMA SpecTemp == TempSpec => []TempIInv
<1>1. TempFlags /\ TempParts /\ [TempNext]_temp_vars
        => TempFlags' /\ TempParts'
  <2> SUFFICES ASSUME TempFlags, TempParts, [TempNext]_temp_vars
               PROVE  TempFlags' /\ TempParts'
    OBVIOUS
  <2>1. TempFlags'
    BY TempFlagsKept
  <2> QED  BY <2>1, DyingKeeps, LoopKeeps, OutsideKeeps DEF TempNext
<1> QED  BY <1>1, InitTemp, TempIInvParts, PTL DEF TempSpec

(* Whatever fails and whoever dies, the temperature that SENSOR_T3 says to *)
(* trust is not older than one silence, one pause of each kind and one     *)
(* attempt for each child it has had, unless one hung in read              *)
(* (main.c:97-179).                                                        *)
THEOREM TrustedIsRecent == TempSpec => []NoStaleTemperature
<1>1. TempIInv => NoStaleTemperature
  BY TempBounds, TempIInvParts
     DEF TempFlags, TempParts, TempOthers, AgeInv, Trusted,
         NoStaleTemperature
<1> QED  BY <1>1, SpecTemp, PTL
=============================================================================
