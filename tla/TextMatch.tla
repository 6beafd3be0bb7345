----------------------------- MODULE TextMatch ------------------------------
(***************************************************************************)
(* The passages two texts share (Association::match of association.cc, and *)
(* UpperCaseRabinKarp of common.h).                                        *)
(*                                                                         *)
(* A text is a sequence of letters, blanks and marks: letters in upper     *)
(* case, everything up to '/' one blank, and other signs, which count as   *)
(* blanks when texts are compared but not when they are hashed.  Positions *)
(* count from 1 here and from 0 in the code.                               *)
(*                                                                         *)
(* The hashes only say where to look: windows are then compared as texts.  *)
(* A passage grows along one diagonal, from the first window on; at which  *)
(* of several positions it starts is the order of an unordered_set.        *)
(***************************************************************************)
EXTENDS SortedSets, SequencesExt

CONSTANTS
  Letters, Marks, Blank,
  WindowSize,        \* getWindowSize()
  BlankLimit,        \* getWhiteSpaceThreshold(): a window with so many is blank
  PostingThreshold,  \* getMaxPostingThreshold()
  Hash(_),           \* any function of a window
  WhiteSpaceHash     \* the hash of a blank window

ASSUME MatchAssumptions ==
  /\ Blank \notin Letters \cup Marks
  /\ Letters \cap Marks = {}
  /\ {WindowSize, BlankLimit} \subseteq Nat \ {0}
  /\ PostingThreshold \in Nat

VARIABLES
  from, to,  \* the texts, the shorter one first
  matches,   \* for windows of from, in order, the equal windows of to left
  results    \* the passages found so far

matching == <<from, to, matches, results>>

Flip(passages) ==
  {[left |-> p.right, right |-> p.left, length |-> p.length] : p \in passages}

Window(text, position, size) == SubSeq(text, position, position + size - 1)

(* getCleanText                                                            *)
Clean(text, position, length) ==
  [k \in 1..length |-> IF text[position + k - 1] \in Letters
                       THEN text[position + k - 1] ELSE Blank]

IsBlank(window) == Cardinality({k \in DOMAIN window : window[k] = Blank}) >= BlankLimit

(* A text shorter than a window has no hashes.                             *)
Hashes(text, size) ==
  [i \in 1..(IF Len(text) < WindowSize THEN 0 ELSE Len(text) - size + 1) |->
     LET window == Window(text, i, size)
     IN  IF IsBlank(window) THEN WhiteSpaceHash ELSE Hash(window)]

(* Where the windows of b are that have the hash of window i of a.  A hash *)
(* with more of them than the threshold is passed over.                    *)
Candidates(a, b, i) ==
  LET hash == Hashes(a, WindowSize)[i]
      found == {j \in 1..(Len(b) - WindowSize + 1) : Hashes(b, WindowSize)[j] = hash}
  IN  IF hash = WhiteSpaceHash \/ Cardinality(found) > PostingThreshold THEN {} ELSE found

UncomparedMatches(a, b, i) == Candidates(a, b, i)

EqualWindows(a, b, i) ==
  {j \in Candidates(a, b, i) : Clean(a, i, WindowSize) = Clean(b, j, WindowSize)}

(* The windows of a that have an equal one in b, in order.                 *)
BuildMatches(a, b) ==
  LET found == {i \in DOMAIN Hashes(a, WindowSize) : EqualWindows(a, b, i) # {}}
      lefts == Sorted(found, [i \in found |-> i])
  IN  [k \in DOMAIN lefts |-> [left |-> lefts[k], right |-> EqualWindows(a, b, lefts[k])]]

NeverInverted(a, b) == FALSE

Inverted(a, b) == Len(b) < Len(a)

StartMatch(a, b) ==
  /\ from' = (IF Inverted(a, b) THEN b ELSE a)
  /\ to' = (IF Inverted(a, b) THEN a ELSE b)
  /\ matches' = BuildMatches(from', to')
  /\ results' = {}

(* Blanks at both ends are cut off, and what is then too short is dropped. *)
Trimmed(text, left, right, length) ==
  LET letters == {k \in 0..(length - 1) : text[left + k] \in Letters}
      shift   == Min(letters)
      trimmed == Max(letters) - shift + 1
  IN  IF letters = {} \/ trimmed < WindowSize THEN {}
      ELSE {[left |-> left + shift, right |-> right + shift, length |-> trimmed]}

(* The next n - 1 windows continue on both sides.                          *)
Continues(right, n) ==
  \A k \in 1..(n - 1) :
    /\ matches[k + 1].left = matches[1].left + k
    /\ right + k \in matches[k + 1].right

TakeFirst(right) ==
  LET n == Max({m \in DOMAIN matches : Continues(right, m)})
  IN  /\ matches' = [matches EXCEPT ![1].right = @ \ {right}]
      /\ results' = results \cup Trimmed(from, matches[1].left, right, n - 1 + WindowSize)

TakeRun(right) ==
  LET n == Max({m \in DOMAIN matches : Continues(right, m)})
  IN  /\ matches' = [k \in DOMAIN matches |->
                       IF k > n THEN matches[k]
                       ELSE [matches[k] EXCEPT !.right = @ \ {right + k - 1}]]
      /\ results' = results \cup Trimmed(from, matches[1].left, right, n - 1 + WindowSize)

TakePassage ==
  /\ matches # <<>>
  /\ \E right \in matches[1].right : TakeRun(right)
  /\ UNCHANGED <<from, to>>

DropMatch ==
  /\ matches # <<>>
  /\ matches[1].right = {}
  /\ matches' = Tail(matches)
  /\ UNCHANGED <<from, to, results>>

-----------------------------------------------------------------------------
Common(p) ==
  /\ p.left + p.length - 1 <= Len(from) /\ p.right + p.length - 1 <= Len(to)
  /\ Clean(from, p.left, p.length) = Clean(to, p.right, p.length)
  /\ p.length >= WindowSize
  /\ {from[p.left], from[p.left + p.length - 1]} \subseteq Letters

EqualPairs(a, b) == UNION {{i} \X EqualWindows(a, b, i) : i \in DOMAIN Hashes(a, WindowSize)}

IsLongest(equal, i, j, n) ==
  /\ \A k \in 0..(n - 1) : <<i + k, j + k>> \in equal
  /\ <<i - 1, j - 1>> \notin equal
  /\ <<i + n, j + n>> \notin equal

(* The passages of the longest runs along the diagonals from some starts.  *)
PassagesFrom(a, equal, starts) ==
  UNION {Trimmed(a, r[1][1], r[1][2], r[2] - 1 + WindowSize) :
           r \in {x \in starts \X DOMAIN a : IsLongest(equal, x[1][1], x[1][2], x[2])}}

(* All of them, by definition.                                             *)
SharedPassages(a, b) == PassagesFrom(a, EqualPairs(a, b), EqualPairs(a, b))

(* What is found is in both texts, as long as a window at least, and       *)
(* begins and ends with a letter (association-unittest.cc WhitespaceTest,  *)
(* EndingTest).  In whatever order the positions come from the sets, the   *)
(* passages are in the end the longest ones: none is cut in two, none      *)
(* found again inside another (ConstructorTest).                           *)
PassagesAreLongestCommon ==
  /\ \A p \in results : Common(p)
  /\ matches = <<>> => results = SharedPassages(from, to)
=============================================================================
