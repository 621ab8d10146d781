----------------------------- MODULE JsonServer -----------------------------
(***************************************************************************)
(* The server that tells the telescope's state in JSON (jsonbta/           *)
(* bta_json.c).  The parent accepts connections and forks a child for      *)
(* each; a child reads requests, names with a delimiter after each, and    *)
(* answers with what is named.  The buffer that requests are read into is  *)
(* neither cleared nor ended by a zero: what is behind the bytes received  *)
(* is parsed too, and strtok has put zeros in it before.  One connection   *)
(* is looked at; other children only begin and end.                        *)
(***************************************************************************)
EXTENDS Integers, Sequences

CONSTANTS
  Chars,    \* what a request is made of
  Names,    \* the parameters, as sequences of them
  Space, Amp,  \* delimiters; a blank also ends what is asked for by "GET"
  Nul,      \* the character zero
  Get,      \* stands for "GET" and the resource
  Query,    \* stands for "GET", the resource and "?"
  Wrong,    \* stands for "GET" and anything else
  BufLen,   \* bound: the buffer
  Pieces,   \* what recv may return, of what clients send
  Garbage,  \* what the buffer may hold at first
  MaxKids   \* bound: children at a time, ended ones included

Marks == {Get, Query, Wrong}

(* A "GET" begins what recv returns, as it begins a request.               *)
ASSUME JsonAssumption ==
  /\ BufLen \in Nat \ {0} /\ MaxKids \in Nat \ {0}
  /\ Get # Query /\ Wrong \notin {Get, Query}
  /\ {Space, Amp, Nul} \cap Marks = {}
  /\ {Space, Amp, Nul} \cup Marks \subseteq Chars
  /\ \A p \in Pieces :
       /\ p \in Seq(Chars) /\ Len(p) \in 1 .. BufLen
       /\ \A i \in 2 .. Len(p) : p[i] \notin Marks
  /\ \A g \in Garbage :
       /\ g \in [1 .. BufLen -> Chars]
       /\ \A i \in 2 .. BufLen : g[i] \notin Marks

VARIABLES
  parent,   \* "accept", "fork", or "dead"
  kids,     \* children that run
  zombies,  \* children that ended and were not waited for
  sigchld,  \* the signal is pending
  reaping,  \* wait_for_child runs
  conn,     \* the connection's child: "recv", or "closed"
  buffer,   \* its buffer
  got,      \* what recv returned last
  answered  \* what the last answer was about

family == <<parent, kids, zombies, sigchld, reaping>>
talk == <<conn, buffer, got, answered>>
json_vars == <<family, talk>>

JsonInit ==
  /\ parent = "accept" /\ kids = 0 /\ zombies = 0
  /\ sigchld = FALSE /\ reaping = FALSE
  /\ conn = "recv" /\ buffer \in Garbage
  /\ got = <<>> /\ answered = {}

-----------------------------------------------------------------------------
(* The parent.  When accept or fork fails it returns from main.            *)
AcceptConnection ==
  /\ parent = "accept" /\ ~reaping /\ parent' \in {"fork", "dead"}
  /\ UNCHANGED <<kids, zombies, sigchld, reaping, talk>>

ForkKid ==
  /\ parent = "fork" /\ ~reaping
  /\ \/ kids + zombies < MaxKids /\ kids' = kids + 1 /\ parent' = "accept"
     \/ parent' = "dead" /\ UNCHANGED kids
  /\ UNCHANGED <<zombies, sigchld, reaping, talk>>

(* A child returns from handle, or is killed by what it does.              *)
KidEnds ==
  /\ kids > 0 /\ kids' = kids - 1
  /\ IF parent = "dead" THEN UNCHANGED <<zombies, sigchld>>
     ELSE zombies' = zombies + 1 /\ sigchld' = TRUE
  /\ UNCHANGED <<parent, reaping, talk>>

ChildSignal ==
  /\ parent # "dead" /\ sigchld /\ ~reaping
  /\ sigchld' = FALSE /\ reaping' = TRUE
  /\ UNCHANGED <<parent, kids, zombies, talk>>

(* Mutant: one child is waited for.                                        *)
wait_for_one ==
  /\ reaping /\ reaping' = FALSE
  /\ zombies' = IF zombies > 0 THEN zombies - 1 ELSE 0
  /\ UNCHANGED <<parent, kids, sigchld, talk>>

(* A pass of the handler's loop.                                           *)
wait_for_child ==
  /\ reaping
  /\ IF zombies > 0 THEN zombies' = zombies - 1 /\ UNCHANGED reaping
     ELSE reaping' = FALSE /\ UNCHANGED zombies
  /\ UNCHANGED <<parent, kids, sigchld, talk>>

-----------------------------------------------------------------------------
(* What the string functions make of a buffer: it ends before the first    *)
(* zero, and its words are the longest runs without a delimiter.           *)
InString(b, i) == i \in DOMAIN b /\ \A j \in 1 .. i : b[j] # Nul
InWord(b, i) == InString(b, i) /\ b[i] \notin {Space, Amp}
WordAt(b, i, j) ==
  /\ i <= j /\ \A k \in i .. j : InWord(b, k)
  /\ ~InWord(b, i - 1) /\ ~InWord(b, j + 1)
Bounds(b) == {w \in (DOMAIN b) \X (DOMAIN b) : WordAt(b, w[1], w[2])}

Word(b, w) == SubSeq(b, w[1], w[2])
Has(b, c) == \E i \in DOMAIN b : InString(b, i) /\ b[i] = c

(* strtok ends every word with a zero in the place of its delimiter.       *)
Cut(b) == [i \in DOMAIN b |->
             IF \E w \in Bounds(b) : w[2] + 1 = i THEN Nul ELSE b[i]]

(* Mutant: strtok is not called again after the first word.                *)
NamedFirst(b) ==
  Names \cap {Word(b, w) : w \in {v \in Bounds(b) : v[1] = 1}}

Named(b) == Names \cap {Word(b, w) : w \in Bounds(b)}

Filled(m) == [i \in 1 .. BufLen |-> IF i <= Len(m) THEN m[i] ELSE buffer[i]]

(* recv, and an answer to what parce_incoming_buf finds in the buffer.     *)
AnswerNames(m) ==
  LET b == Filled(m)
  IN /\ ~\E c \in {Get, Query, Wrong} : Has(b, c)
     /\ answered' = Named(b)
     /\ buffer' = Cut(b)
     /\ got' = m
     /\ UNCHANGED conn

(* "GET" with the resource's name: everything, and the end; with another:  *)
(* the end.                                                                *)
AnswerGet(m) ==
  LET b == Filled(m)
  IN /\ Has(b, Get) \/ Has(b, Wrong)
     /\ answered' = IF Has(b, Get) THEN Names ELSE {}
     /\ buffer' = b
     /\ got' = m
     /\ conn' = "closed"

(* "GET" with the resource and names behind it: what is before them is not *)
(* looked at, and stringscan ends them at the next blank.                  *)
Asked(b) ==
  LET q == CHOOSE i \in DOMAIN b : b[i] = Query
  IN [i \in DOMAIN b |->
        IF i <= q THEN Amp
        ELSE IF b[i] = Space /\ \A j \in q .. i - 1 : b[j] # Space THEN Nul
        ELSE b[i]]

AnswerQuery(m) ==
  LET b == Filled(m)
      names == Asked(b)
  IN /\ Has(b, Query)
     /\ answered' = Named(names)
     /\ buffer' = [i \in DOMAIN b |->
                     IF b[i] = Query THEN Query ELSE Cut(names)[i]]
     /\ got' = m
     /\ UNCHANGED conn

handle ==
  /\ conn = "recv"
  /\ \E m \in Pieces : AnswerNames(m) \/ AnswerGet(m) \/ AnswerQuery(m)
  /\ UNCHANGED family

(* The client has closed its end.                                          *)
Close ==
  /\ conn = "recv" /\ conn' = "closed"
  /\ UNCHANGED <<family, buffer, got, answered>>

JsonNext ==
  \/ AcceptConnection \/ ForkKid \/ KidEnds \/ ChildSignal \/ wait_for_child
  \/ handle \/ Close

JsonSpec == JsonInit /\ [][JsonNext]_json_vars

-----------------------------------------------------------------------------
(* Properties.                                                             *)

JsonTypeOK ==
  /\ parent \in {"accept", "fork", "dead"}
  /\ {kids, zombies} \subseteq 0 .. MaxKids
  /\ {sigchld, reaping} \subseteq BOOLEAN
  /\ conn \in {"recv", "closed"} /\ buffer \in [1 .. BufLen -> Chars]
  /\ got \in Pieces \cup {<<>>} /\ answered \subseteq Names

(* No ended child is forgotten, although signals of several may come as    *)
(* one, while the parent runs.                                             *)
NoZombieForgotten ==
  parent # "dead" /\ zombies > 0 => sigchld \/ reaping

(* A name that came whole and with its delimiter is answered, whatever was *)
(* in the buffer from requests before: alone, or behind a "GET" of the     *)
(* right resource.  (More may be answered than that.)                      *)
AskedIsAnswered ==
  LET text == IF Has(got, Query) THEN Asked(got) ELSE got
      asked == {Word(text, w) : w \in {v \in Bounds(text) : v[2] < Len(got)}}
  IN ~Has(got, Wrong) => (Names \cap asked) \subseteq answered
=============================================================================
