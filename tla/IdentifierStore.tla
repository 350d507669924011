---------------------------- MODULE IdentifierStore ----------------------------
(***************************************************************************)
(* What the identifier database promises to the threads that use it: every *)
(* update is atomic, and a query answers with the best of what was stored  *)
(* at one moment between its call and its return.  The second promise is   *)
(* kept only for queries that no update overlaps with: an update may spoil *)
(* those that have not returned yet (see QueryReadsLiveCandidates in       *)
(* IdentifierDatabase), whose answer is Garbage then.                      *)
(***************************************************************************)
EXTENDS Naturals, Sequences, BestIdentifiers

CONSTANTS
  Threads,
  Places,         \* pairs of a filetype and a file path
  Texts,          \* the identifiers
  Queries,
  Ranking,        \* the identifiers that match each query, best first
  MaxCandidates,  \* how many a query answers with, 0 for all
  Deliveries,     \* what a file may be said to contain, for sets of places
  NoCall,
  Pending,
  Garbage

VARIABLES
  texts,   \* what is stored for each place
  calls,   \* the query each thread has asked
  spoiled  \* the threads whose query overlaps with an update

vars == <<texts, calls, spoiled>>

Stored(filetype) == UNION {texts[p] : p \in {x \in Places : x[1] = filetype}}

Asked == {t \in Threads : calls[t] # NoCall}

Update(new) ==
  /\ texts' = [p \in Places |-> IF p \in DOMAIN new THEN new[p] ELSE texts[p]]
  /\ \E s \in SUBSET Asked :
       /\ spoiled' = spoiled \cup s
       /\ calls' = [t \in Threads |->
            IF t \in s /\ calls[t].answer # Pending
            THEN [calls[t] EXCEPT !.answer = Garbage] ELSE calls[t]]

Add(p, x) == Update([q \in {p} |-> texts[p] \cup {x}])

Ask(t, filetype, query) ==
  /\ calls[t] = NoCall
  /\ calls' = [calls EXCEPT ![t] = [filetype |-> filetype, query |-> query,
                                    answer |-> Pending]]
  /\ UNCHANGED <<texts, spoiled>>

Look(t) ==
  /\ t \in Asked /\ calls[t].answer = Pending
  /\ calls' = [calls EXCEPT ![t].answer =
       IF t \in spoiled THEN Garbage
       ELSE Best(Ranking[calls[t].query], Stored(calls[t].filetype),
                MaxCandidates)]
  /\ UNCHANGED <<texts, spoiled>>

Reply(t) ==
  /\ t \in Asked /\ calls[t].answer # Pending
  /\ calls' = [calls EXCEPT ![t] = NoCall]
  /\ spoiled' = spoiled \ {t}
  /\ UNCHANGED texts

Init ==
  /\ texts = [p \in Places |-> {}]
  /\ calls = [t \in Threads |-> NoCall]
  /\ spoiled = {}

Next ==
  \/ \E p \in Places, x \in Texts : Add(p, x)
  \/ \E d \in Deliveries : Update(d)
  \/ \E t \in Threads :
       \/ \E p \in Places, query \in Queries : Ask(t, p[1], query)
       \/ Look(t) \/ Reply(t)

Spec == Init /\ [][Next]_vars
=============================================================================
