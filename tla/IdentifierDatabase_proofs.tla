----------------------- MODULE IdentifierDatabase_proofs -----------------------
(***************************************************************************)
(* Proofs about IdentifierDatabase, for any threads, files, identifiers    *)
(* and queries, and any history of the tag file.                           *)
(*                                                                         *)
(* The argument for TagsAreCurrent: the time of the tag file is remembered *)
(* before it is read, so what a thread has read is at least as new as the  *)
(* time remembered; it is that version unless the file has changed since,  *)
(* and then the times differ (TagsInv).  Only the thread that reads the    *)
(* tag file writes to its places: no buffer and no keywords have them.     *)
(*                                                                         *)
(* The argument for ImplementsStore: an update tears every query that has  *)
(* pointers into what it changes, so behind the pointers of the others are *)
(* the texts they were collected for, one pointer to each (PointersInv).   *)
(* A query looks at the store when it collects; sorting only spells out    *)
(* which of the texts found are the best, and reading returns them.        *)
(***************************************************************************)
EXTENDS IdentifierDatabase, SequenceTheorems, FiniteSetTheorems, TLAPS

(* Interning gives identifiers that are not too long.                      *)
LEMMA Interned ==
  ASSUME NEW identifiers \in Seq(Texts)
  PROVE  /\ Intern(identifiers) \in Seq(Texts \ LongTexts)
         /\ DOMAIN Intern(identifiers) = 1 .. Len(identifiers)
<1>1. /\ DOMAIN identifiers = 1 .. Len(identifiers)
      /\ Len(identifiers) \in Nat
      /\ \A i \in 1 .. Len(identifiers) : identifiers[i] \in Texts
  BY LenProperties, ElementOfSeq
<1>2. Empty \in Texts \ LongTexts
  BY IdentifierDatabaseAssumption
<1>3. Intern(identifiers) \in [1 .. Len(identifiers) -> Texts \ LongTexts]
  BY <1>1, <1>2 DEF Intern
<1> QED BY <1>1, <1>3, IsASeq

(* What an update of some places does, whatever it brings: a query that it *)
(* does not tear finds the same texts behind its pointers.                 *)
Updates(places, s) ==
  /\ db' \in [Places -> Seq(Texts \ LongTexts)]
  /\ \A p \in Places \ places : db'[p] = db[p]
  /\ filetypes' = filetypes \cup {p[1] : p \in places}
  /\ torn' = torn \cup s
  /\ s \subseteq {t \in Threads : pc[t] = "collect" \/ results[t] # <<>>}
  /\ \A t \in Threads \ torn' : \A i \in DOMAIN results[t] :
       /\ results[t][i][2] \in DOMAIN db'[results[t][i][1]]
       /\ TextAt(results[t][i])' = TextAt(results[t][i])

(* A pointer is a place and an index.                                      *)
LEMMA Pointer ==
  ASSUME TypeOK, NEW t \in Threads, NEW i \in DOMAIN results[t]
  PROVE  results[t][i] \in Places \X (Nat \ {0})
<1>1. results[t] \in Seq(Places \X (Nat \ {0}))
  BY DEF TypeOK
<1> QED BY <1>1, LenProperties, ElementOfSeq

(* The candidates of some places are replaced.                             *)
LEMMA Recreates ==
  ASSUME TypeOK, PointersInv, NEW new, DOMAIN new \subseteq Places,
         new \in [DOMAIN new -> Seq(Texts)], RecreateIdentifiers(new),
         UNCHANGED results
  PROVE  /\ \E s \in SUBSET Threads : Updates(DOMAIN new, s)
         /\ \A p \in DOMAIN new : db'[p] = Intern(new[p])
<1>1. /\ DOMAIN db = Places /\ db \in [Places -> Seq(Texts \ LongTexts)]
  BY DEF TypeOK
<1>2. db' = [p \in Places |-> IF p \in DOMAIN new THEN Intern(new[p])
                                                  ELSE db[p]]
  BY <1>1 DEF RecreateIdentifiers
<1>3. \A p \in DOMAIN new : Intern(new[p]) \in Seq(Texts \ LongTexts)
  BY Interned
<1>4. db' \in [Places -> Seq(Texts \ LongTexts)]
  BY <1>1, <1>2, <1>3
<1>5. PICK rehashed \in {FALSE, filetypes' # filetypes} :
        torn' = torn \cup Readers(DOMAIN new) \cup
                  {t \in Threads : rehashed /\ pc[t] = "collect"}
  BY DEF RecreateIdentifiers, GetCandidateSets
<1> DEFINE s == Readers(DOMAIN new) \cup
                  {t \in Threads : rehashed /\ pc[t] = "collect"}
<1>6. /\ torn' = torn \cup s
      /\ s \subseteq {t \in Threads : pc[t] = "collect" \/ results[t] # <<>>}
  BY <1>5 DEF Readers
<1>7. ASSUME NEW t \in Threads \ torn', NEW i \in DOMAIN results[t]
      PROVE  /\ results[t][i][2] \in DOMAIN db'[results[t][i][1]]
             /\ TextAt(results[t][i])' = TextAt(results[t][i])
  <2>1. results[t][i][1] \in Places
    BY Pointer
  <2>2. results[t][i][1] \notin DOMAIN new
    BY <1>5 DEF Readers
  <2>3. db'[results[t][i][1]] = db[results[t][i][1]]
    BY <1>2, <2>1, <2>2
  <2>4. t \in Threads \ torn
    BY <1>5
  <2> QED BY <2>3, <2>4 DEF PointersInv, TextAt
<1>8. filetypes' = filetypes \cup {p[1] : p \in DOMAIN new}
  BY DEF RecreateIdentifiers, GetCandidateSets
<1>9. Updates(DOMAIN new, s)
  BY <1>2, <1>4, <1>6, <1>7, <1>8 DEF Updates
<1>10. s \in SUBSET Threads
  BY <1>6
<1> HIDE DEF s
<1> QED BY <1>2, <1>9, <1>10

(* One identifier of a place is added, if it was not known.                *)
LEMMA Adds ==
  ASSUME TypeOK, PointersInv, NEW p \in Places, NEW identifier \in Texts,
         AddSingleIdentifier(p, identifier), UNCHANGED results
  PROVE  /\ \E s \in SUBSET Threads : Updates({p}, s)
         /\ \E text \in Texts : Range(db'[p]) = Range(db[p]) \cup {text}
<1> DEFINE text == Intern(<<identifier>>)[1]
           known == text \in Range(db[p])
<1>1. text \in Texts \ LongTexts
  BY IdentifierDatabaseAssumption DEF Intern
<1>2. /\ DOMAIN db = Places /\ db \in [Places -> Seq(Texts \ LongTexts)]
      /\ db[p] \in Seq(Texts \ LongTexts)
  BY DEF TypeOK
<1>3. /\ db' = IF known THEN db ELSE [db EXCEPT ![p] = Append(@, text)]
      /\ \E moved \in {FALSE, ~ known} :
           GetCandidateSets({p}, IF moved THEN Readers({p}) ELSE {})
  BY DEF AddSingleIdentifier
<1> HIDE DEF text
<1>4. /\ Append(db[p], text) \in Seq(Texts \ LongTexts)
      /\ DOMAIN db[p] \subseteq DOMAIN Append(db[p], text)
      /\ \A i \in DOMAIN db[p] : Append(db[p], text)[i] = db[p][i]
      /\ Range(Append(db[p], text)) = Range(db[p]) \cup {text}
  <2>1. /\ Append(db[p], text) \in Seq(Texts \ LongTexts)
        /\ Len(Append(db[p], text)) = Len(db[p]) + 1
        /\ \A i \in 1 .. Len(db[p]) : Append(db[p], text)[i] = db[p][i]
        /\ Append(db[p], text)[Len(db[p]) + 1] = text
        /\ Len(db[p]) \in Nat
    BY <1>1, <1>2, AppendProperties, LenProperties
  <2>2. /\ DOMAIN db[p] = 1 .. Len(db[p])
        /\ DOMAIN Append(db[p], text) = 1 .. Len(db[p]) + 1
    BY <1>2, <2>1, LenProperties
  <2>3. 1 .. Len(db[p]) + 1 = (1 .. Len(db[p])) \cup {Len(db[p]) + 1}
    BY <2>1
  <2>4. Range(Append(db[p], text)) = Range(db[p]) \cup {text}
    BY <2>1, <2>2, <2>3 DEF Range
  <2> QED BY <2>1, <2>2, <2>3, <2>4
<1>5. PICK moved \in {FALSE, ~ known} :
        GetCandidateSets({p}, IF moved THEN Readers({p}) ELSE {})
  BY <1>3
<1>6. PICK rehashed \in {FALSE, filetypes' # filetypes} :
        torn' = torn \cup (IF moved THEN Readers({p}) ELSE {}) \cup
                  {t \in Threads : rehashed /\ pc[t] = "collect"}
  BY <1>5 DEF GetCandidateSets
<1> DEFINE s == (IF moved THEN Readers({p}) ELSE {}) \cup
                  {t \in Threads : rehashed /\ pc[t] = "collect"}
<1>7. /\ torn' = torn \cup s /\ s \in SUBSET Threads
      /\ s \subseteq {t \in Threads : pc[t] = "collect" \/ results[t] # <<>>}
  BY <1>6 DEF Readers
<1>8. db' \in [Places -> Seq(Texts \ LongTexts)]
  BY <1>2, <1>3, <1>4
<1>9. \A q \in Places \ {p} : db'[q] = db[q]
  BY <1>2, <1>3
<1>10. \A q \in Places : \A i \in DOMAIN db[q] :
         i \in DOMAIN db'[q] /\ db'[q][i] = db[q][i]
  BY <1>2, <1>3, <1>4
<1>11. ASSUME NEW t \in Threads \ torn', NEW i \in DOMAIN results[t]
       PROVE  /\ results[t][i][2] \in DOMAIN db'[results[t][i][1]]
              /\ TextAt(results[t][i])' = TextAt(results[t][i])
  <2>1. results[t][i][1] \in Places
    BY Pointer
  <2>2. t \in Threads \ torn
    BY <1>7
  <2>3. results[t][i][2] \in DOMAIN db[results[t][i][1]]
    BY <2>2 DEF PointersInv
  <2> QED BY <1>10, <2>1, <2>3 DEF TextAt
<1>12. filetypes' = filetypes \cup {q[1] : q \in {p}}
  BY <1>5 DEF GetCandidateSets
<1> HIDE DEF s
<1>13. Updates({p}, s)
  BY <1>7, <1>8, <1>9, <1>11, <1>12 DEF Updates
<1>14. Range(db'[p]) = Range(db[p]) \cup {text}
  BY <1>2, <1>3, <1>4
<1> QED BY <1>1, <1>7, <1>13, <1>14

-----------------------------------------------------------------------------
(* Queries.                                                                *)

(* A finite set in some order.                                             *)
LEMMA InOrder ==
  ASSUME NEW S, IsFiniteSet(S)
  PROVE  /\ SetToSeq(S) \in Seq(S) /\ Range(SetToSeq(S)) = S
         /\ \A i, j \in DOMAIN SetToSeq(S) :
              SetToSeq(S)[i] = SetToSeq(S)[j] => i = j
         /\ Len(SetToSeq(S)) = Cardinality(S)
         /\ DOMAIN SetToSeq(S) = 1 .. Cardinality(S)
<1>1. Cardinality(S) \in Nat /\ ExistsBijection(1 .. Cardinality(S), S)
  BY FS_CardinalityType
<1>2. PICK g \in Bijection(1 .. Cardinality(S), S) : TRUE
  BY <1>1 DEF ExistsBijection
<1>3. g \in [1 .. Cardinality(S) -> S] /\ IsInjective(g)
  BY <1>2 DEF Bijection, Injection
<1> DEFINE f == SetToSeq(S)
<1>4. f \in [1 .. Cardinality(S) -> S] /\ IsInjective(f)
  BY <1>3 DEF SetToSeq
<1> HIDE DEF f
<1>5. f \in Injection(1 .. Cardinality(S), S)
  BY <1>4 DEF Injection
<1>6. IsFiniteSet(1 .. Cardinality(S)) /\
      Cardinality(1 .. Cardinality(S)) = Cardinality(S)
  <2>1. Cardinality(1 .. Cardinality(S)) =
          IF 1 > Cardinality(S) THEN 0 ELSE Cardinality(S) - 1 + 1
    BY <1>1, FS_Interval
  <2>2. IsFiniteSet(1 .. Cardinality(S))
    BY <1>1, FS_Interval
  <2> QED BY <1>1, <2>1, <2>2
<1>7. f \in Surjection(1 .. Cardinality(S), S)
  BY <1>5, <1>6, FS_Injection
<1>8. \A x \in S : \E i \in 1 .. Cardinality(S) : f[i] = x
  BY <1>7 DEF Surjection
<1>9. f \in Seq(S) /\ Len(f) = Cardinality(S)
  BY <1>1, <1>4, IsASeq, LenProperties
<1>10. Range(f) = S
  BY <1>4, <1>8 DEF Range
<1> QED BY <1>4, <1>9, <1>10 DEF f, IsInjective

(* A text that matches a query has one rank.                               *)
LEMMA Ranked ==
  ASSUME NEW query \in Queries, NEW text, IsMatch(query, text)
  PROVE  /\ Rank(query, text) \in DOMAIN Ranking[query]
         /\ Ranking[query][Rank(query, text)] = text
         /\ \A i \in DOMAIN Ranking[query] :
              Ranking[query][i] = text => i = Rank(query, text)
<1>1. \E i \in DOMAIN Ranking[query] : Ranking[query][i] = text
  BY DEF IsMatch, Range
<1>2. \A i, j \in DOMAIN Ranking[query] :
        Ranking[query][i] = Ranking[query][j] => i = j
  BY IdentifierDatabaseAssumption
<1> QED BY <1>1, <1>2 DEF Rank

(* A ranking is finite.                                                    *)
LEMMA RankingFinite ==
  ASSUME NEW query \in Queries
  PROVE  /\ IsFiniteSet(DOMAIN Ranking[query])
         /\ DOMAIN Ranking[query] = 1 .. Len(Ranking[query])
         /\ Len(Ranking[query]) \in Nat
         /\ \A i \in DOMAIN Ranking[query] : Ranking[query][i] \in Texts
<1>1. Ranking[query] \in Seq(Texts \ {Empty})
  BY IdentifierDatabaseAssumption
<1>2. /\ DOMAIN Ranking[query] = 1 .. Len(Ranking[query])
      /\ Len(Ranking[query]) \in Nat
  BY <1>1, LenProperties
<1>3. \A i \in 1 .. Len(Ranking[query]) : Ranking[query][i] \in Texts
  BY <1>1, ElementOfSeq
<1>4. IsFiniteSet(1 .. Len(Ranking[query]))
  BY <1>2, FS_Interval
<1> QED BY <1>2, <1>3, <1>4

(* What a query sees first of each text: finitely many pointers to         *)
(* different texts, and the texts of all candidates.                       *)
LEMMA Seen ==
  ASSUME TypeOK, NEW query \in Queries, NEW filetype,
         NEW seen \in FirstSeen(Candidates(filetype, query))
  PROVE  /\ seen \subseteq Candidates(filetype, query)
         /\ IsFiniteSet(seen)
         /\ \A a, b \in seen : TextAt(a) = TextAt(b) => a = b
         /\ {TextAt(a) : a \in seen} =
              {TextAt(a) : a \in Candidates(filetype, query)}
<1> DEFINE C == Candidates(filetype, query)
<1>1. /\ seen \subseteq C
      /\ \A pointer \in C : \E one \in seen : \A other \in seen :
           (TextAt(other) = TextAt(pointer)) <=> (other = one)
  BY DEF FirstSeen
<1>2. \A a \in C : IsMatch(query, TextAt(a))
  BY DEF Candidates
<1> HIDE DEF C
<1>3. \A a, b \in seen : TextAt(a) = TextAt(b) => a = b
  BY <1>1
<1>4. {TextAt(a) : a \in seen} = {TextAt(a) : a \in C}
  BY <1>1
<1> DEFINE f == [a \in seen |-> Rank(query, TextAt(a))]
<1>5. f \in Injection(seen, DOMAIN Ranking[query])
  <2>1. \A a \in seen : /\ Rank(query, TextAt(a)) \in DOMAIN Ranking[query]
                        /\ Ranking[query][Rank(query, TextAt(a))] = TextAt(a)
    BY <1>1, <1>2, Ranked
  <2>2. f \in [seen -> DOMAIN Ranking[query]]
    BY <2>1
  <2>3. IsInjective(f)
    BY <1>3, <2>1 DEF IsInjective
  <2> QED BY <2>2, <2>3 DEF Injection
<1> HIDE DEF f
<1>6. IsFiniteSet(seen)
  BY <1>5, RankingFinite, FS_Injection
<1> QED BY <1>1, <1>3, <1>4, <1>6 DEF C

(* What is collected are pointers to candidates, one to each text.         *)
LEMMA Collected ==
  ASSUME TypeOK, NEW query \in Queries, NEW filetype,
         NEW seen \in FirstSeen(Candidates(filetype, query))
  PROVE  /\ SetToSeq(seen) \in Seq(Places \X (Nat \ {0}))
         /\ \A i \in DOMAIN SetToSeq(seen) :
              /\ SetToSeq(seen)[i][2] \in DOMAIN db[SetToSeq(seen)[i][1]]
              /\ IsMatch(query, TextAt(SetToSeq(seen)[i]))
         /\ \A i, j \in DOMAIN SetToSeq(seen) :
              TextAt(SetToSeq(seen)[i]) = TextAt(SetToSeq(seen)[j]) => i = j
<1>1. /\ seen \subseteq Candidates(filetype, query) /\ IsFiniteSet(seen)
      /\ \A a, b \in seen : TextAt(a) = TextAt(b) => a = b
  BY Seen
<1> DEFINE order == SetToSeq(seen)
<1>2. /\ order \in Seq(seen) /\ Range(order) = seen
      /\ \A i, j \in DOMAIN order : order[i] = order[j] => i = j
  BY <1>1, InOrder
<1> HIDE DEF order
<1>3. ASSUME NEW a \in seen
      PROVE  /\ a \in Places \X (Nat \ {0}) /\ a[2] \in DOMAIN db[a[1]]
             /\ IsMatch(query, TextAt(a))
  <2>1. /\ a \in UNION {{p} \X DOMAIN db[p] : p \in Places}
        /\ IsMatch(query, TextAt(a))
    BY <1>1 DEF Candidates
  <2>2. PICK p \in Places : a \in {p} \X DOMAIN db[p]
    BY <2>1
  <2>3. DOMAIN db[p] = 1 .. Len(db[p]) /\ Len(db[p]) \in Nat
    BY LenProperties DEF TypeOK
  <2> QED BY <2>1, <2>2, <2>3
<1>4. \A i \in DOMAIN order : order[i] \in seen
  BY <1>2 DEF Range
<1>5. order \in Seq(Places \X (Nat \ {0}))
  BY <1>2, <1>3, SeqMonotonic
<1> QED BY <1>1, <1>2, <1>3, <1>4, <1>5 DEF order

-----------------------------------------------------------------------------
(* The requests that update the database, as updates.                      *)

(* What a tag file says of some places, or nothing.                        *)
LEMMA Extracted ==
  ASSUME NEW new \in {<<>>} \cup Range(TagContents)
  PROVE  /\ DOMAIN new \subseteq Places \ SyntaxPlaces
         /\ new \in [DOMAIN new -> Seq(Texts)]
<1>1. CASE new = <<>>
  BY <1>1
<1>2. CASE new \in Range(TagContents)
  BY <1>2, IdentifierDatabaseAssumption
<1> QED BY <1>1, <1>2

(* An identifier is added to the place of a buffer.                        *)
LEMMA AddIdentifierUpdates ==
  ASSUME IInv, NEW t \in Threads, AddIdentifier(t)
  PROVE  \E p \in BufferPlaces, s \in SUBSET Threads, text \in Texts :
           Updates({p}, s) /\ Range(db'[p]) = Range(db[p]) \cup {text}
<1>1. PICK p \in BufferPlaces : place[t] = <<p>>
  BY DEF IInv, RequestInv, AddIdentifier
<1>2. PICK identifier \in Texts : AddSingleIdentifier(p, identifier)
  BY <1>1 DEF AddIdentifier
<1>3. p \in Places
  BY IdentifierDatabaseAssumption
<1>4. UNCHANGED results
  BY DEF AddIdentifier
<1>5. /\ \E s \in SUBSET Threads : Updates({p}, s)
      /\ \E text \in Texts : Range(db'[p]) = Range(db[p]) \cup {text}
  BY <1>2, <1>3, <1>4, Adds DEF IInv
<1> QED BY <1>5

(* The identifiers of a buffer are replaced.                               *)
LEMMA AddBufferIdentifiersUpdates ==
  ASSUME IInv, NEW t \in Threads, AddBufferIdentifiers(t)
  PROVE  \E p \in BufferPlaces, contents \in BufferContents :
           /\ \E s \in SUBSET Threads : Updates({p}, s)
           /\ db'[p] = Intern(contents)
<1>1. PICK p \in BufferPlaces : place[t] = <<p>>
  BY DEF IInv, RequestInv, AddBufferIdentifiers
<1>2. PICK contents \in BufferContents : RecreateIdentifiers(Only(p, contents))
  BY <1>1 DEF AddBufferIdentifiers
<1> DEFINE new == Only(p, contents)
<1>3. /\ DOMAIN new = {p} /\ new \in [{p} -> Seq(Texts)] /\ new[p] = contents
      /\ p \in Places
  BY IdentifierDatabaseAssumption DEF Only
<1>4. UNCHANGED results
  BY DEF AddBufferIdentifiers, threadVars
<1> HIDE DEF new
<1>5. /\ \E s \in SUBSET Threads : Updates({p}, s)
      /\ db'[p] = Intern(contents)
  BY <1>2, <1>3, <1>4, Recreates DEF IInv, new
<1> QED BY <1>5

(* The identifiers of the files in the tag file are replaced.              *)
LEMMA AddIdentifiersFromTagFilesUpdates ==
  ASSUME IInv, NEW t \in Threads, AddIdentifiersFromTagFiles(t)
  PROVE  /\ \E s \in SUBSET Threads : Updates(DOMAIN extracted[t], s)
         /\ \A p \in DOMAIN extracted[t] : db'[p] = Intern(extracted[t][p])
         /\ DOMAIN extracted[t] \subseteq Places
<1>1. extracted[t] \in {<<>>} \cup Range(TagContents)
  BY DEF IInv, TypeOK
<1>2. UNCHANGED results /\ RecreateIdentifiers(extracted[t])
  BY DEF AddIdentifiersFromTagFiles
<1>3. /\ DOMAIN extracted[t] \subseteq Places
      /\ extracted[t] \in [DOMAIN extracted[t] -> Seq(Texts)]
  BY <1>1, Extracted
<1> QED BY <1>2, <1>3, Recreates DEF IInv

(* The keywords of a filetype are replaced.                                *)
LEMMA AddIdentifiersFromSyntaxUpdates ==
  ASSUME IInv, NEW t \in Threads, AddIdentifiersFromSyntax(t)
  PROVE  \E p \in SyntaxPlaces :
           /\ \E s \in SUBSET Threads : Updates({p}, s)
           /\ db'[p] = Intern(Keywords)
<1>1. PICK p \in SyntaxPlaces : RecreateIdentifiers(Only(p, Keywords))
  BY DEF AddIdentifiersFromSyntax
<1> DEFINE new == Only(p, Keywords)
<1>2. /\ DOMAIN new = {p} /\ new \in [{p} -> Seq(Texts)] /\ new[p] = Keywords
      /\ p \in Places
  BY IdentifierDatabaseAssumption DEF Only
<1>3. UNCHANGED results
  BY DEF AddIdentifiersFromSyntax
<1> HIDE DEF new
<1>4. /\ \E s \in SUBSET Threads : Updates({p}, s)
      /\ db'[p] = Intern(Keywords)
  BY <1>1, <1>2, <1>3, Recreates DEF IInv, new
<1> QED BY <1>4

(* A request that updates.                                                 *)
Updating(t) ==
  \/ AddIdentifier(t) \/ AddBufferIdentifiers(t)
  \/ AddIdentifiersFromTagFiles(t) \/ AddIdentifiersFromSyntax(t)

(* Each of them updates some places.                                       *)
LEMMA UpdatingUpdates ==
  ASSUME IInv, NEW t \in Threads, Updating(t)
  PROVE  \E places \in SUBSET Places, s \in SUBSET Threads : Updates(places, s)
<1>1. BufferPlaces \cup SyntaxPlaces \subseteq Places
  BY IdentifierDatabaseAssumption
<1>2. CASE AddIdentifier(t)
  BY <1>1, <1>2, AddIdentifierUpdates
<1>3. CASE AddBufferIdentifiers(t)
  BY <1>1, <1>3, AddBufferIdentifiersUpdates
<1>4. CASE AddIdentifiersFromTagFiles(t)
  BY <1>4, AddIdentifiersFromTagFilesUpdates
<1>5. CASE AddIdentifiersFromSyntax(t)
  BY <1>1, <1>5, AddIdentifiersFromSyntaxUpdates
<1> QED BY <1>2, <1>3, <1>4, <1>5 DEF Updating

(* What they leave alone, and where they go on.                            *)
LEMMA UpdatingFrame ==
  ASSUME IInv, NEW t \in Threads, Updating(t)
  PROVE  /\ UNCHANGED <<call, results, tagVars, requests>>
         /\ pc[t] \in {"add", "buffer", "tags", "syntax"}
         /\ \/ /\ \E step \in {"filter", "syntax"} :
                    pc' = [pc EXCEPT ![t] = step]
               /\ place' = place
            \/ /\ pc' = [pc EXCEPT ![t] = "idle"]
               /\ place' = [place EXCEPT ![t] = <<>>]
         /\ extracted' \in {extracted, [extracted EXCEPT ![t] = <<>>]}
  BY DEF Updating, AddIdentifier, AddBufferIdentifiers,
         AddIdentifiersFromTagFiles, AddIdentifiersFromSyntax, Return, Goto,
         threadVars, tagVars

-----------------------------------------------------------------------------
(* The invariant.                                                          *)

(* Nothing has been done, and there is no tag file.                        *)
LEMMA Initially == Init => IInv
<1> SUFFICES ASSUME Init PROVE IInv
  OBVIOUS
<1>1. TypeOK
  <2>1. <<>> \in Seq(Texts \ LongTexts) /\ <<>> \in Seq(Places \X (Nat \ {0}))
    BY EmptySeq
  <2>2. requests \in 0 .. MaxRequests /\ lastMtime \in 0 .. tagsClock
    BY IdentifierDatabaseAssumption DEF Init
  <2> QED BY <2>1, <2>2 DEF Init, TypeOK
<1>2. RequestInv
  BY DEF Init, RequestInv
<1>3. PointersInv
  BY DEF Init, PointersInv
<1>4. TagsInv
  BY DEF Init, TagsInv, TagsAreCurrent, TagsProcessed
<1> QED BY <1>1, <1>2, <1>3, <1>4 DEF IInv

(* A step of a request that updates keeps the types.                       *)
LEMMA UpdatingTyped ==
  ASSUME IInv, NEW t \in Threads, Updating(t)
  PROVE  TypeOK'
<1>1. PICK places \in SUBSET Places, s \in SUBSET Threads : Updates(places, s)
  BY UpdatingUpdates
<1>2. /\ db' \in [Places -> Seq(Texts \ LongTexts)]
      /\ filetypes' \subseteq {p[1] : p \in Places}
      /\ torn' \subseteq Threads
  BY <1>1 DEF Updates, IInv, TypeOK
<1>3. \A p \in Places : p[1] \notin filetypes' => db'[p] = <<>>
  BY <1>1 DEF Updates, IInv, TypeOK
<1>4. /\ pc' \in [Threads -> {"idle", "add", "buffer", "filter", "extract",
                              "tags", "syntax", "find", "collect", "sort",
                              "read"}]
      /\ place' \in [Threads -> {<<>>} \cup {<<p>> : p \in BufferPlaces}]
      /\ extracted' \in [Threads -> {<<>>} \cup Range(TagContents)]
  BY UpdatingFrame DEF IInv, TypeOK
<1>5. UNCHANGED <<call, results, tagVars, requests>>
  BY UpdatingFrame
<1> QED BY <1>2, <1>3, <1>4, <1>5 DEF IInv, TypeOK, tagVars

(* A step of a request that does not update the store keeps the types.     *)
LEMMA RequestTyped ==
  ASSUME IInv, NEW t \in Threads,
         \/ Begin(t) \/ FilterUnchangedTagFiles(t)
         \/ ExtractIdentifiersFromTagsFile(t) \/ TagsFileIsUnreadable(t)
         \/ PathIsUnresolvable(t) \/ NoSyntaxKeywords(t) \/ FindFiletype(t)
  PROVE  TypeOK'
<1> USE DEF IInv, TypeOK, Goto, Return, storeVars, threadVars, tagVars
<1>1. CASE Begin(t)
  <2>1. requests' \in 0 .. MaxRequests
    BY <1>1, IdentifierDatabaseAssumption DEF Begin
  <2>2. call' \in [Threads -> Calls \cup {NoCall}]
    <3>1. call \in [Threads -> Calls \cup {NoCall}]
      OBVIOUS
    <3>2. \A p \in Places, query \in Queries :
            [filetype |-> p[1], query |-> query] \in Calls
      BY DEF Calls
    <3> QED BY <1>1, <3>1, <3>2 DEF Begin
  <2>3. place' \in [Threads -> {<<>>} \cup {<<p>> : p \in BufferPlaces}]
    <3>1. \/ place' = place
          \/ \E p \in BufferPlaces : place' = [place EXCEPT ![t] = <<p>>]
      BY <1>1 DEF Begin
    <3>2. place \in [Threads -> {<<>>} \cup {<<p>> : p \in BufferPlaces}]
      OBVIOUS
    <3> QED BY ONLY <3>1, <3>2
  <2>4. pc' \in [Threads -> {"idle", "add", "buffer", "filter", "extract",
                            "tags", "syntax", "find", "collect", "sort",
                            "read"}]
    BY <1>1 DEF Begin
  <2>5. UNCHANGED <<filetypes, db, torn, results, extracted, tagsFile,
                    tagsClock, lastMtime, tagsRaced, tagsUnread>>
    BY <1>1 DEF Begin
  <2> QED BY <2>1, <2>2, <2>3, <2>4, <2>5
<1>2. CASE FilterUnchangedTagFiles(t)
  <2>1. lastMtime' \in 0 .. tagsClock
    <3>1. tagsClock \in Nat /\ tagsFile \in 0 .. tagsClock
      BY IdentifierDatabaseAssumption, LenProperties
    <3> QED BY <1>2, <3>1 DEF FilterUnchangedTagFiles
  <2> QED BY <1>2, <2>1 DEF FilterUnchangedTagFiles
<1>3. CASE ExtractIdentifiersFromTagsFile(t)
  <2>1. tagsFile # 0 => TagContents[tagsFile] \in Range(TagContents)
    BY DEF Range
  <2> QED BY <1>3, <2>1 DEF ExtractIdentifiersFromTagsFile
<1>4. CASE NoSyntaxKeywords(t)
  BY <1>4 DEF NoSyntaxKeywords
<1>5. CASE FindFiletype(t)
  BY <1>5 DEF FindFiletype
<1>6. CASE TagsFileIsUnreadable(t)
  BY <1>6 DEF TagsFileIsUnreadable
<1>7. CASE PathIsUnresolvable(t)
  BY <1>7 DEF PathIsUnresolvable
<1> QED BY <1>1, <1>2, <1>3, <1>4, <1>5, <1>6, <1>7

(* The call of a query.                                                    *)
LEMMA Called ==
  ASSUME IInv, NEW t \in Threads,
         pc[t] \in {"find", "collect", "sort", "read"}
  PROVE  /\ call[t] \in Calls /\ call[t].query \in Queries
         /\ call[t].filetype \in {p[1] : p \in Places}
<1>1. call[t] \in Calls
  BY DEF IInv, TypeOK, RequestInv
<1> QED BY <1>1 DEF Calls

(* What is sorted is a sequence of the pointers that were collected.       *)
LEMMA SortedPointers ==
  ASSUME IInv, NEW t \in Threads, NEW query,
         NEW order \in Sorted(query, results[t])
  PROVE  /\ order \in Seq(Places \X (Nat \ {0}))
         /\ DOMAIN order = 1 .. Kept(Len(results[t]), MaxCandidates)
         /\ Kept(Len(results[t]), MaxCandidates) \in Nat
         /\ \A i \in DOMAIN order : order[i] \in Range(results[t])
         /\ \A i, j \in DOMAIN order : i < j =>
              /\ order[i] # order[j]
              /\ Rank(query, TextAt(order[i])) <= Rank(query, TextAt(order[j]))
         /\ \A pointer \in Range(results[t]) \ Range(order) :
              \A i \in DOMAIN order :
                Rank(query, TextAt(order[i])) <= Rank(query, TextAt(pointer))
<1> DEFINE n == Kept(Len(results[t]), MaxCandidates)
<1>1. results[t] \in Seq(Places \X (Nat \ {0}))
  BY DEF IInv, TypeOK
<1>2. n \in Nat
  BY <1>1, LenProperties, IdentifierDatabaseAssumption DEF Kept
<1>3. /\ order \in [1 .. n -> Range(results[t])]
      /\ \A i, j \in DOMAIN order : i < j =>
           /\ order[i] # order[j]
           /\ Rank(query, TextAt(order[i])) <= Rank(query, TextAt(order[j]))
      /\ \A pointer \in Range(results[t]) \ Range(order) :
           \A i \in DOMAIN order :
             Rank(query, TextAt(order[i])) <= Rank(query, TextAt(pointer))
  BY DEF Sorted
<1> HIDE DEF n
<1>4. \A i \in DOMAIN order :
        \E j \in DOMAIN results[t] : order[i] = results[t][j]
  BY <1>3 DEF Range
<1>5. \A i \in DOMAIN order : order[i] \in Places \X (Nat \ {0})
  BY <1>4, Pointer DEF IInv
<1>6. order \in [1 .. n -> Places \X (Nat \ {0})]
  BY <1>3, <1>5
<1>7. order \in Seq(Places \X (Nat \ {0}))
  BY <1>2, <1>6, IsASeq
<1>8. \A i \in DOMAIN order : order[i] \in Range(results[t])
  BY <1>3
<1> QED BY <1>2, <1>3, <1>7, <1>8 DEF n

(* A step of a query keeps the types.                                      *)
LEMMA QueryTyped ==
  ASSUME IInv, NEW t \in Threads,
         CollectResults(t) \/ PartialSort(t) \/ ReadTexts(t)
  PROVE  TypeOK'
<1> USE DEF IInv, TypeOK, Goto, storeVars, tagVars
<1>1. CASE CollectResults(t)
  <2>1. PICK seen \in FirstSeen(Candidates(call[t].filetype, call[t].query)) :
          results' = [results EXCEPT ![t] = SetToSeq(seen)]
    BY <1>1 DEF CollectResults
  <2>2. call[t].query \in Queries
    BY <1>1, Called DEF CollectResults
  <2>3. SetToSeq(seen) \in Seq(Places \X (Nat \ {0}))
    BY <2>2, Collected
  <2>4. results' \in [Threads -> Seq(Places \X (Nat \ {0}))]
    BY <2>1, <2>3
  <2> QED BY <1>1, <2>4 DEF CollectResults
<1>2. CASE PartialSort(t)
  <2>1. results' \in [Threads -> Seq(Places \X (Nat \ {0}))]
    <3>1. \A query, order : order \in Sorted(query, results[t]) =>
            order \in Seq(Places \X (Nat \ {0}))
      BY SortedPointers
    <3>2. \/ results' = results
          \/ \E order \in Sorted(call[t].query, results[t]) :
               results' = [results EXCEPT ![t] = order]
      BY <1>2 DEF PartialSort
    <3>3. results \in [Threads -> Seq(Places \X (Nat \ {0}))]
      OBVIOUS
    <3> HIDE DEF IInv, TypeOK
    <3> QED BY <3>1, <3>2, <3>3
  <2> QED BY <1>2, <2>1 DEF PartialSort
<1>3. CASE ReadTexts(t)
  <2>1. <<>> \in Seq(Places \X (Nat \ {0}))
    BY EmptySeq
  <2> QED BY <1>3, <2>1 DEF ReadTexts
<1> QED BY <1>1, <1>2, <1>3

(* The tag file is changed.                                                *)
LEMMA ChangeTyped ==
  ASSUME IInv, ChangeTagsFile
  PROVE  /\ TypeOK'
         /\ tagsFile' # 0 => tagsFile' > lastMtime'
<1> USE DEF IInv, TypeOK, ChangeTagsFile, storeVars, threadVars
<1>1. tagsClock \in Nat /\ lastMtime \in 0 .. tagsClock
  BY IdentifierDatabaseAssumption, LenProperties
<1>2. tagsClock' \in Nat /\ lastMtime' \in 0 .. tagsClock'
  BY <1>1
<1>3. tagsFile' # 0 => tagsFile' > lastMtime'
  BY <1>1
<1> QED BY <1>2, <1>3

(* Requests keep what they bring or ask for.                               *)
LEMMA RequestStep ==
  ASSUME IInv, Next
  PROVE  RequestInv'
<1> USE DEF IInv, TypeOK, Goto, Return, storeVars, threadVars, tagVars
<1>1. ASSUME NEW t \in Threads, Updating(t) PROVE RequestInv'
  <2>1. PICK places \in SUBSET Places, s \in SUBSET Threads :
          Updates(places, s)
    BY <1>1, UpdatingUpdates
  <2>2. \A u \in torn' : u \in torn \/ pc[u] = "collect" \/ results[u] # <<>>
    BY <2>1 DEF Updates
  <2>3. /\ UNCHANGED <<call, results>>
        /\ pc[t] \in {"add", "buffer", "tags", "syntax"}
        /\ \/ /\ \E step \in {"filter", "syntax"} :
                   pc' = [pc EXCEPT ![t] = step]
              /\ place' = place
           \/ /\ pc' = [pc EXCEPT ![t] = "idle"]
              /\ place' = [place EXCEPT ![t] = <<>>]
    BY <1>1, UpdatingFrame
  <2>4. ASSUME NEW u \in Threads
        PROVE  /\ pc'[u] \in {"add", "buffer", "filter", "extract", "tags",
                              "syntax"} =>
                    \E p \in BufferPlaces : place'[u] = <<p>>
               /\ pc'[u] \in {"find", "collect", "sort", "read"}
                    <=> call'[u] # NoCall
               /\ u \in torn' => pc'[u] \in {"collect", "sort", "read"}
               /\ results'[u] # <<>> => pc'[u] \in {"sort", "read"}
    <3>1. CASE u = t
      BY <2>2, <2>3, <3>1 DEF RequestInv
    <3>2. CASE u # t
      <4>1. pc'[u] = pc[u] /\ place'[u] = place[u]
        BY <2>3, <3>2
      <4> QED BY <2>2, <2>3, <4>1 DEF RequestInv
    <3> QED BY <3>1, <3>2
  <2> QED BY <2>4 DEF RequestInv
<1>2. ASSUME NEW t \in Threads, Begin(t) PROVE RequestInv'
  <2>1. NoCall \notin Calls
    BY MarksAssumption
  <2>2. /\ pc[t] = "idle" /\ UNCHANGED <<torn, results>>
        /\ \/ /\ \E step \in {"add", "buffer"} : pc' = [pc EXCEPT ![t] = step]
              /\ \E p \in BufferPlaces : place' = [place EXCEPT ![t] = <<p>>]
              /\ UNCHANGED call
           \/ /\ pc' = [pc EXCEPT ![t] = "find"]
              /\ \E c \in Calls : call' = [call EXCEPT ![t] = c]
              /\ UNCHANGED place
    BY <1>2 DEF Begin, Calls
  <2>3. call \in [Threads -> Calls \cup {NoCall}]
    OBVIOUS
  <2>4. \A u \in Threads \ {t} :
          pc'[u] = pc[u] /\ place'[u] = place[u] /\ call'[u] = call[u]
    BY <2>2, <2>3
  <2>5. /\ results[t] = <<>> /\ t \notin torn
        /\ \/ /\ pc'[t] \in {"add", "buffer"} /\ call'[t] = NoCall
              /\ \E p \in BufferPlaces : place'[t] = <<p>>
           \/ pc'[t] = "find" /\ call'[t] # NoCall
    <3>1. results[t] = <<>> /\ t \notin torn /\ call[t] = NoCall
      BY <2>2 DEF RequestInv
    <3> QED BY <2>1, <2>2, <2>3, <3>1
  <2>6. ASSUME NEW u \in Threads
        PROVE  /\ pc'[u] \in {"add", "buffer", "filter", "extract", "tags",
                              "syntax"} =>
                    \E p \in BufferPlaces : place'[u] = <<p>>
               /\ pc'[u] \in {"find", "collect", "sort", "read"}
                    <=> call'[u] # NoCall
               /\ u \in torn' => pc'[u] \in {"collect", "sort", "read"}
               /\ results'[u] # <<>> => pc'[u] \in {"sort", "read"}
    <3>1. CASE u = t
      BY <2>2, <2>5, <3>1
    <3>2. CASE u # t
      BY <2>2, <2>4, <3>2 DEF RequestInv
    <3> QED BY <3>1, <3>2
  <2> QED BY <2>6 DEF RequestInv
<1>3. ASSUME NEW t \in Threads, FilterUnchangedTagFiles(t) PROVE RequestInv'
  BY <1>3 DEF FilterUnchangedTagFiles, RequestInv
<1>4. ASSUME NEW t \in Threads, ExtractIdentifiersFromTagsFile(t)
      PROVE  RequestInv'
  BY <1>4 DEF ExtractIdentifiersFromTagsFile, RequestInv
<1>5. ASSUME NEW t \in Threads, NoSyntaxKeywords(t) PROVE RequestInv'
  BY <1>5 DEF NoSyntaxKeywords, RequestInv
<1>6. ASSUME NEW t \in Threads, FindFiletype(t) PROVE RequestInv'
  BY <1>6 DEF FindFiletype, RequestInv
<1>7. ASSUME NEW t \in Threads, CollectResults(t) PROVE RequestInv'
  <2>1. /\ pc[t] = "collect" /\ pc' = [pc EXCEPT ![t] = "sort"]
        /\ UNCHANGED <<torn, call, place>>
        /\ \A u \in Threads \ {t} : results'[u] = results[u]
    BY <1>7 DEF CollectResults
  <2> QED BY <2>1 DEF RequestInv
<1>8. ASSUME NEW t \in Threads, PartialSort(t) PROVE RequestInv'
  <2>1. /\ pc[t] = "sort" /\ pc' = [pc EXCEPT ![t] = "read"]
        /\ UNCHANGED <<torn, call, place>>
        /\ \A u \in Threads \ {t} : results'[u] = results[u]
    BY <1>8 DEF PartialSort
  <2> QED BY <2>1 DEF RequestInv
<1>9. ASSUME NEW t \in Threads, ReadTexts(t) PROVE RequestInv'
  BY <1>9 DEF ReadTexts, RequestInv
<1>10. ASSUME ChangeTagsFile PROVE RequestInv'
  BY <1>10 DEF ChangeTagsFile, RequestInv
<1>11. ASSUME NEW t \in Threads, TagsFileIsUnreadable(t) PROVE RequestInv'
  BY <1>11 DEF TagsFileIsUnreadable, RequestInv
<1>12. ASSUME NEW t \in Threads, PathIsUnresolvable(t) PROVE RequestInv'
  BY <1>12 DEF PathIsUnresolvable, RequestInv
<1> QED BY <1>1, <1>2, <1>3, <1>4, <1>5, <1>6, <1>7, <1>8, <1>9, <1>10, <1>11,
           <1>12
        DEF Next, Updating

(* Nothing that a query points to is changed.                              *)
LEMMA PointersKept ==
  ASSUME PointersInv, UNCHANGED <<db, results>>, Threads \ torn' \subseteq
                                                 Threads \ torn,
         \A t \in Threads : results[t] # <<>> => call'[t] = call[t]
  PROVE  PointersInv'
<1>1. \A pointer : TextAt(pointer)' = TextAt(pointer)
  BY DEF TextAt
<1> QED BY <1>1 DEF PointersInv

(* Queries that are not torn keep live pointers.                           *)
LEMMA PointersStep ==
  ASSUME IInv, Next
  PROVE  PointersInv'
<1> USE DEF Goto, Return, storeVars, threadVars, tagVars
<1>1. ASSUME NEW t \in Threads, Updating(t) PROVE PointersInv'
  <2>1. PICK places \in SUBSET Places, s \in SUBSET Threads :
          Updates(places, s)
    BY <1>1, UpdatingUpdates
  <2>2. UNCHANGED <<call, results>>
    BY <1>1, UpdatingFrame
  <2>3. \A u \in Threads \ torn' : \A i \in DOMAIN results[u] :
          /\ results[u][i][2] \in DOMAIN db'[results[u][i][1]]
          /\ TextAt(results[u][i])' = TextAt(results[u][i])
    BY <2>1 DEF Updates
  <2>4. \A u \in Threads \ torn' : u \in Threads \ torn
    BY <2>1 DEF Updates
  <2> QED BY <2>2, <2>3, <2>4 DEF IInv, PointersInv
<1>2. ASSUME NEW t \in Threads,
             \/ FilterUnchangedTagFiles(t) \/ ExtractIdentifiersFromTagsFile(t)
             \/ TagsFileIsUnreadable(t) \/ PathIsUnresolvable(t)
             \/ NoSyntaxKeywords(t) \/ FindFiletype(t)
      PROVE  PointersInv'
  <2>1. UNCHANGED <<db, torn, call, results>>
    BY <1>2 DEF FilterUnchangedTagFiles, ExtractIdentifiersFromTagsFile,
                TagsFileIsUnreadable, PathIsUnresolvable, NoSyntaxKeywords,
                FindFiletype, Return
  <2> QED BY <2>1, PointersKept DEF IInv
<1>3. ASSUME NEW t \in Threads, Begin(t) PROVE PointersInv'
  <2>1. /\ pc[t] = "idle" /\ UNCHANGED <<db, torn, results>>
        /\ \A u \in Threads \ {t} : call'[u] = call[u]
    BY <1>3 DEF Begin, IInv, TypeOK
  <2>2. results[t] = <<>>
    BY <2>1 DEF IInv, RequestInv
  <2> QED BY <2>1, <2>2, PointersKept DEF IInv
<1>4. ASSUME NEW t \in Threads, CollectResults(t) PROVE PointersInv'
  <2>1. PICK seen \in FirstSeen(Candidates(call[t].filetype, call[t].query)) :
          results' = [results EXCEPT ![t] = SetToSeq(seen)]
    BY <1>4 DEF CollectResults
  <2>2. call[t].query \in Queries
    BY <1>4, Called DEF CollectResults
  <2>3. UNCHANGED <<db, torn, call>>
    BY <1>4 DEF CollectResults
  <2>4. /\ results'[t] = SetToSeq(seen)
        /\ \A u \in Threads \ {t} : results'[u] = results[u]
    BY <2>1 DEF IInv, TypeOK
  <2>5. \A pointer : TextAt(pointer)' = TextAt(pointer)
    BY <2>3 DEF TextAt
  <2>6. /\ \A i \in DOMAIN SetToSeq(seen) :
             /\ SetToSeq(seen)[i][2] \in DOMAIN db[SetToSeq(seen)[i][1]]
             /\ IsMatch(call[t].query, TextAt(SetToSeq(seen)[i]))
        /\ \A i, j \in DOMAIN SetToSeq(seen) :
             TextAt(SetToSeq(seen)[i]) = TextAt(SetToSeq(seen)[j]) => i = j
    BY <2>2, Collected DEF IInv
  <2> QED BY <2>3, <2>4, <2>5, <2>6 DEF IInv, PointersInv
<1>5. ASSUME NEW t \in Threads, PartialSort(t) PROVE PointersInv'
  <2>1. UNCHANGED <<db, torn, call>>
    BY <1>5 DEF PartialSort
  <2>2. CASE t \in torn
    BY <1>5, <2>1, <2>2, PointersKept DEF PartialSort, IInv
  <2>3. CASE t \notin torn
    <3>1. PICK order \in Sorted(call[t].query, results[t]) :
            results' = [results EXCEPT ![t] = order]
      BY <1>5, <2>3 DEF PartialSort
    <3>2. /\ results'[t] = order
          /\ \A u \in Threads \ {t} : results'[u] = results[u]
      BY <3>1 DEF IInv, TypeOK
    <3>3. call[t].query \in Queries
      BY <1>5, Called DEF PartialSort
    <3>4. /\ \A i \in DOMAIN order :
               \E j \in DOMAIN results[t] : order[i] = results[t][j]
          /\ \A i, j \in DOMAIN order : i < j => order[i] # order[j]
          /\ DOMAIN order \subseteq Nat
      <4>1. \A query, o : o \in Sorted(query, results[t]) =>
              \A i \in DOMAIN o : o[i] \in Range(results[t])
        BY SortedPointers
      <4>2. \A query, o : o \in Sorted(query, results[t]) =>
              \A i, j \in DOMAIN o : i < j => o[i] # o[j]
        BY SortedPointers
      <4>3. \A query, o : o \in Sorted(query, results[t]) =>
              /\ DOMAIN o = 1 .. Kept(Len(results[t]), MaxCandidates)
              /\ Kept(Len(results[t]), MaxCandidates) \in Nat
        BY SortedPointers
      <4>4. DOMAIN order \subseteq Nat
        BY <4>3
      <4>5. \A i \in DOMAIN order : order[i] \in Range(results[t])
        BY <4>1
      <4> QED BY <4>2, <4>4, <4>5 DEF Range
    <3>5. \A i \in DOMAIN order :
            /\ order[i][2] \in DOMAIN db[order[i][1]]
            /\ IsMatch(call[t].query, TextAt(order[i]))
      BY <2>3, <3>4 DEF IInv, PointersInv
    <3>7. \A i, j \in DOMAIN order :
            TextAt(order[i]) = TextAt(order[j]) => i = j
      <4>1. \A i, j \in DOMAIN order : i < j \/ j < i \/ i = j
        BY <3>4
      <4>2. \A i, j \in DOMAIN order : TextAt(order[i]) = TextAt(order[j]) =>
              order[i] = order[j]
        BY <2>3, <3>4 DEF IInv, PointersInv
      <4> QED BY <3>4, <4>1, <4>2
    <3>8. \A pointer : TextAt(pointer)' = TextAt(pointer)
      BY <2>1 DEF TextAt
    <3> QED BY <2>1, <3>2, <3>5, <3>7, <3>8 DEF IInv, PointersInv
  <2> QED BY <2>2, <2>3
<1>6. ASSUME NEW t \in Threads, ReadTexts(t) PROVE PointersInv'
  <2>1. /\ db' = db /\ torn' = torn \ {t} /\ results'[t] = <<>>
        /\ \A u \in Threads \ {t} :
             call'[u] = call[u] /\ results'[u] = results[u]
    BY <1>6 DEF ReadTexts, IInv, TypeOK
  <2>2. \A pointer : TextAt(pointer)' = TextAt(pointer)
    BY <2>1 DEF TextAt
  <2> QED BY <2>1, <2>2 DEF IInv, PointersInv
<1>7. ASSUME ChangeTagsFile PROVE PointersInv'
  <2>1. UNCHANGED <<db, torn, call, results>>
    BY <1>7 DEF ChangeTagsFile
  <2> QED BY <2>1, PointersKept DEF IInv
<1> QED BY <1>1, <1>2, <1>3, <1>4, <1>5, <1>6, <1>7 DEF Next, Updating

(* What the tag file says is not changed, and nobody begins to read it.    *)
LEMMA TagsKept ==
  ASSUME TagsInv, UNCHANGED <<tagVars, extracted>>,
         \A t \in Threads : pc'[t] \in {"extract", "tags"} => pc'[t] = pc[t],
         \A t \in Threads : pc[t] \in {"extract", "tags"} => pc'[t] = pc[t],
         tagsFile # 0 => \A p \in DOMAIN TagContents[tagsFile] \ BufferPlaces :
                           db'[p] = db[p]
  PROVE  TagsInv'
<1> USE DEF tagVars
<1>1. TagsAreCurrent => TagsAreCurrent'
  BY DEF TagsAreCurrent, TagsProcessed
<1> QED BY <1>1 DEF TagsInv

(* The tag file that there is has places that are no keywords'.            *)
LEMMA TagPlaces ==
  ASSUME TypeOK, tagsFile # 0
  PROVE  /\ TagContents[tagsFile] \in Range(TagContents)
         /\ DOMAIN TagContents[tagsFile] \subseteq Places \ SyntaxPlaces
         /\ tagsFile \in Nat /\ lastMtime \in Nat
<1>1. tagsFile \in DOMAIN TagContents
  BY DEF TypeOK
<1>2. TagContents[tagsFile] \in Range(TagContents)
  BY <1>1 DEF Range
<1>3. DOMAIN TagContents \subseteq Nat
  BY IdentifierDatabaseAssumption, LenProperties
<1> QED BY <1>1, <1>2, <1>3, IdentifierDatabaseAssumption DEF TypeOK

(* The identifiers of the tag file reach the database.                     *)
LEMMA TagsStep ==
  ASSUME IInv, Next
  PROVE  TagsInv'
<1> USE DEF Goto, Return, storeVars, threadVars, tagVars
<1>1. ASSUME NEW t \in Threads, Begin(t) PROVE TagsInv'
  <2>1. /\ UNCHANGED <<db, tagVars, extracted>> /\ pc[t] = "idle"
        /\ \E step \in {"add", "buffer", "find"} :
             pc' = [pc EXCEPT ![t] = step]
    BY <1>1 DEF Begin
  <2> QED BY <2>1, TagsKept DEF IInv, TypeOK
<1>2. ASSUME NEW t \in Threads, AddIdentifier(t) PROVE TagsInv'
  <2>1. PICK p \in BufferPlaces, s \in SUBSET Threads : Updates({p}, s)
    BY <1>2, AddIdentifierUpdates
  <2>2. /\ UNCHANGED <<tagVars, extracted>> /\ pc[t] = "add"
        /\ pc' = [pc EXCEPT ![t] = "idle"]
    BY <1>2 DEF AddIdentifier
  <2>3. tagsFile # 0 => \A q \in DOMAIN TagContents[tagsFile] \ BufferPlaces :
                          db'[q] = db[q]
    BY <2>1, TagPlaces DEF Updates, IInv
  <2> QED BY <2>2, <2>3, TagsKept DEF IInv, TypeOK
<1>3. ASSUME NEW t \in Threads, AddBufferIdentifiers(t) PROVE TagsInv'
  <2>1. PICK p \in BufferPlaces, s \in SUBSET Threads : Updates({p}, s)
    BY <1>3, AddBufferIdentifiersUpdates
  <2>2. /\ UNCHANGED <<tagVars, extracted>> /\ pc[t] = "buffer"
        /\ \E step \in {"filter", "syntax"} : pc' = [pc EXCEPT ![t] = step]
    BY <1>3 DEF AddBufferIdentifiers
  <2>3. tagsFile # 0 => \A q \in DOMAIN TagContents[tagsFile] \ BufferPlaces :
                          db'[q] = db[q]
    BY <2>1, TagPlaces DEF Updates, IInv
  <2> QED BY <2>2, <2>3, TagsKept DEF IInv, TypeOK
<1>4. ASSUME NEW t \in Threads, FilterUnchangedTagFiles(t) PROVE TagsInv'
  <2>1. CASE tagsFile > lastMtime
    <3>1. /\ lastMtime' = tagsFile
          /\ tagsRaced' = (tagsRaced \/ \E u \in Threads :
                                          pc[u] \in {"extract", "tags"})
          /\ pc' = [pc EXCEPT ![t] = "extract"]
          /\ UNCHANGED <<db, tagsFile, tagsClock, extracted>>
      BY <1>4, <2>1 DEF FilterUnchangedTagFiles
    <3>2. CASE tagsRaced'
      BY <3>2 DEF TagsInv
    <3>3. CASE ~ tagsRaced'
      <4>1. /\ pc'[t] = "extract"
            /\ \A u \in Threads \ {t} : pc'[u] \notin {"extract", "tags"}
        BY <3>1, <3>3 DEF IInv, TypeOK
      <4> QED BY <4>1 DEF TagsInv, TagsAreCurrent, TagsProcessed
    <3> QED BY <3>2, <3>3
  <2>2. CASE ~ (tagsFile > lastMtime)
    <3>1. /\ pc' = [pc EXCEPT ![t] = "syntax"] /\ pc[t] = "filter"
          /\ UNCHANGED <<db, tagVars, extracted>>
      BY <1>4, <2>2 DEF FilterUnchangedTagFiles
    <3> QED BY <3>1, TagsKept DEF IInv, TypeOK
  <2> QED BY <2>1, <2>2
<1>5. ASSUME NEW t \in Threads, ExtractIdentifiersFromTagsFile(t)
      PROVE  TagsInv'
  <2>1. /\ pc[t] = "extract" /\ pc'[t] = "tags"
        /\ tagsFile # 0 => extracted'[t] = TagContents[tagsFile]
        /\ \A u \in Threads \ {t} :
             pc'[u] = pc[u] /\ extracted'[u] = extracted[u]
        /\ UNCHANGED <<db, tagVars>>
    BY <1>5 DEF ExtractIdentifiersFromTagsFile, IInv, TypeOK
  <2>2. TagsAreCurrent'
    BY <2>1 DEF TagsAreCurrent, TagsProcessed
  <2> QED BY <2>1, <2>2 DEF IInv, TagsInv
<1>6. ASSUME NEW t \in Threads, AddIdentifiersFromTagFiles(t) PROVE TagsInv'
  <2>1. /\ pc[t] = "tags" /\ pc'[t] = "syntax"
        /\ \A u \in Threads \ {t} :
             pc'[u] = pc[u] /\ extracted'[u] = extracted[u]
        /\ UNCHANGED tagVars
    BY <1>6 DEF AddIdentifiersFromTagFiles, IInv, TypeOK
  <2>2. \A p \in DOMAIN extracted[t] : db'[p] = Intern(extracted[t][p])
    BY <1>6, AddIdentifiersFromTagFilesUpdates
  <2>3. ~ tagsRaced /\ ~ tagsUnread /\ tagsFile # 0 /\ tagsFile = lastMtime =>
          \A p \in DOMAIN TagContents[tagsFile] \ BufferPlaces :
            db'[p] = Intern(TagContents[tagsFile][p])
    BY <2>1, <2>2 DEF IInv, TagsInv
  <2>4. ~ tagsRaced => TagsAreCurrent'
    BY <2>1, <2>3 DEF TagsAreCurrent, TagsProcessed
  <2> QED BY <2>1, <2>4 DEF IInv, TagsInv
<1>7. ASSUME NEW t \in Threads, AddIdentifiersFromSyntax(t) PROVE TagsInv'
  <2>1. PICK p \in SyntaxPlaces, s \in SUBSET Threads : Updates({p}, s)
    BY <1>7, AddIdentifiersFromSyntaxUpdates
  <2>2. /\ UNCHANGED <<tagVars, extracted>> /\ pc[t] = "syntax"
        /\ pc' = [pc EXCEPT ![t] = "idle"]
    BY <1>7 DEF AddIdentifiersFromSyntax
  <2>3. tagsFile # 0 => \A q \in DOMAIN TagContents[tagsFile] \ BufferPlaces :
                          db'[q] = db[q]
    BY <2>1, TagPlaces DEF Updates, IInv
  <2> QED BY <2>2, <2>3, TagsKept DEF IInv, TypeOK
<1>8. ASSUME NEW t \in Threads,
             \/ NoSyntaxKeywords(t) \/ FindFiletype(t) \/ CollectResults(t)
             \/ PartialSort(t) \/ ReadTexts(t)
      PROVE  TagsInv'
  <2>1. /\ UNCHANGED <<db, tagVars, extracted>>
        /\ pc[t] \in {"syntax", "find", "collect", "sort", "read"}
        /\ \E step \in {"idle", "collect", "sort", "read"} :
             pc' = [pc EXCEPT ![t] = step]
    BY <1>8 DEF NoSyntaxKeywords, FindFiletype, CollectResults, PartialSort,
                ReadTexts
  <2> QED BY <2>1, TagsKept DEF IInv, TypeOK
<1>9. ASSUME ChangeTagsFile PROVE TagsInv'
  <2>1. UNCHANGED <<pc, tagsRaced, tagsUnread>>
    BY <1>9 DEF ChangeTagsFile
  <2>2. ~ (tagsFile' # 0 /\ tagsFile' = lastMtime')
    <3>1. tagsFile' # 0 => tagsFile' > lastMtime'
      BY <1>9, ChangeTyped
    <3>2. ~ (lastMtime > lastMtime)
      BY IdentifierDatabaseAssumption, LenProperties DEF IInv, TypeOK
    <3>3. lastMtime' = lastMtime
      BY <1>9 DEF ChangeTagsFile
    <3> QED BY <3>1, <3>2, <3>3
  <2> QED BY <2>1, <2>2 DEF IInv, TagsInv, TagsAreCurrent, TagsProcessed
<1>10. ASSUME NEW t \in Threads,
              TagsFileIsUnreadable(t) \/ PathIsUnresolvable(t)
       PROVE  TagsInv'
  <2>1. /\ tagsUnread' = TRUE /\ pc[t] = "extract"
        /\ pc'[t] \in {"tags", "idle"}
        /\ \A u \in Threads \ {t} : pc'[u] = pc[u]
        /\ UNCHANGED <<tagsRaced, lastMtime, tagsFile>>
    BY <1>10 DEF TagsFileIsUnreadable, PathIsUnresolvable, IInv, TypeOK
  <2>2. TagsAreCurrent'
    BY <2>1 DEF TagsAreCurrent
  <2> QED BY <2>1, <2>2 DEF IInv, TagsInv
<1> QED BY <1>1, <1>2, <1>3, <1>4, <1>5, <1>6, <1>7, <1>8, <1>9, <1>10 DEF Next

(* The invariant is inductive.                                             *)
LEMMA Inductive == IInv /\ [Next]_vars => IInv'
<1>1. ASSUME IInv, Next PROVE IInv'
  <2>1. TypeOK'
    BY <1>1, UpdatingTyped, RequestTyped, QueryTyped, ChangeTyped
       DEF Next, Updating
  <2> QED BY <1>1, <2>1, RequestStep, PointersStep, TagsStep DEF IInv
<1>2. ASSUME IInv, UNCHANGED vars PROVE IInv'
  BY <1>2 DEF IInv, TypeOK, RequestInv, PointersInv, TagsInv, TagsAreCurrent,
              TagsProcessed, TextAt, vars, storeVars, threadVars, tagVars
<1> QED BY <1>1, <1>2

(* The invariant holds in every state.                                     *)
THEOREM Invariant == Spec => []IInv
<1>1. IInv /\ [Next]_vars => IInv'
  BY Inductive
<1> QED BY <1>1, Initially, PTL DEF Spec

(* "We only process if it's changed since the last time we looked at it":  *)
(* for any threads, files and history of the tag file, its identifiers are *)
(* in the database while its time is the one remembered, unless reading it *)
(* failed, or two threads have read it at once.                            *)
THEOREM TagsStayCurrent == Spec => []TagsAreCurrent
<1>1. ASSUME IInv PROVE TagsAreCurrent
  BY <1>1 DEF IInv, TagsInv, TagsAreCurrent, TagsProcessed
<1> QED BY <1>1, Invariant, PTL

-----------------------------------------------------------------------------
(* The best of what was found, by rank.                                    *)

(* Of two ranks, the worse one has more ranks that are not worse.          *)
LEMMA NotWorseIncreases ==
  ASSUME NEW ranks, ranks \subseteq Nat, IsFiniteSet(ranks),
         NEW i \in ranks, NEW j \in ranks, i < j
  PROVE  NotWorse(ranks, i) < NotWorse(ranks, j)
<1> DEFINE S(n) == {m \in ranks : m <= n}
<1>1. IsFiniteSet(S(i)) /\ IsFiniteSet(S(j))
  BY FS_Subset
<1>2. S(i) \subseteq S(j) /\ j \in S(j) /\ j \notin S(i)
  <2>1. i \in Nat /\ j \in Nat /\ \A m \in ranks : m \in Nat
    OBVIOUS
  <2>2. \A m \in ranks : m <= i => m <= j
    BY <2>1
  <2>3. j <= j /\ ~ (j <= i)
    BY <2>1
  <2> QED BY <2>2, <2>3
<1>3. Cardinality(S(i)) <= Cardinality(S(j)) /\
      (Cardinality(S(i)) = Cardinality(S(j)) => S(i) = S(j))
  BY <1>1, <1>2, FS_Subset
<1>4. Cardinality(S(i)) \in Nat /\ Cardinality(S(j)) \in Nat
  BY <1>1, FS_CardinalityType
<1>5. Cardinality(S(i)) < Cardinality(S(j))
  BY <1>2, <1>3, <1>4
<1> QED BY <1>5 DEF NotWorse

(* For each k up to their number, exactly one of the ranks has k that are  *)
(* not worse.                                                              *)
LEMMA KthRank ==
  ASSUME NEW ranks, ranks \subseteq Nat, IsFiniteSet(ranks)
  PROVE  /\ \A i, j \in ranks : NotWorse(ranks, i) = NotWorse(ranks, j) => i = j
         /\ \A k \in 1 .. Cardinality(ranks) :
              \E i \in ranks : NotWorse(ranks, i) = k
<1> DEFINE f == [i \in ranks |-> NotWorse(ranks, i)]
           n == Cardinality(ranks)
<1>1. n \in Nat
  BY FS_CardinalityType
<1>2. ASSUME NEW i \in ranks PROVE NotWorse(ranks, i) \in 1 .. n
  <2> DEFINE S == {m \in ranks : m <= i}
  <2>1. IsFiniteSet(S) /\ Cardinality(S) <= n /\ i \in S
    BY FS_Subset
  <2>2. Cardinality(S) \in Nat /\ Cardinality(S) # 0
    BY <2>1, FS_CardinalityType, FS_EmptySet
  <2>3. Cardinality(S) \in 1 .. n
    BY <1>1, <2>1, <2>2
  <2> QED BY <2>3 DEF NotWorse
<1>3. \A i, j \in ranks : NotWorse(ranks, i) = NotWorse(ranks, j) => i = j
  <2>1. \A i, j \in ranks : i < j \/ j < i \/ i = j
    OBVIOUS
  <2>2. \A i \in ranks : NotWorse(ranks, i) \in Nat
    BY <1>2
  <2>3. \A i, j \in ranks : i < j => NotWorse(ranks, i) < NotWorse(ranks, j)
    BY NotWorseIncreases
  <2> QED BY <2>1, <2>2, <2>3
<1>4. f \in Injection(ranks, 1 .. n)
  BY <1>2, <1>3 DEF Injection, IsInjective
<1>5. IsFiniteSet(1 .. n) /\ Cardinality(1 .. n) = n
  <2>1. Cardinality(1 .. n) = IF 1 > n THEN 0 ELSE n - 1 + 1
    BY <1>1, FS_Interval
  <2>2. IsFiniteSet(1 .. n)
    BY <1>1, FS_Interval
  <2> QED BY <1>1, <2>1, <2>2
<1> HIDE DEF f
<1>6. f \in Surjection(ranks, 1 .. n)
  BY <1>4, <1>5, FS_Injection
<1>7. \A k \in 1 .. n : \E i \in ranks : f[i] = k
  BY <1>6 DEF Surjection
<1> QED BY <1>3, <1>7 DEF f

(* The ranks of what was found are finitely many.                          *)
LEMMA RanksFinite ==
  ASSUME NEW query \in Queries, NEW found
  PROVE  /\ Ranks(Ranking[query], found) \subseteq Nat
         /\ IsFiniteSet(Ranks(Ranking[query], found))
         /\ Cardinality(Ranks(Ranking[query], found)) \in Nat
         /\ Ranks(Ranking[query], found) \subseteq DOMAIN Ranking[query]
<1>1. Ranks(Ranking[query], found) \subseteq DOMAIN Ranking[query]
  BY DEF Ranks
<1>2. IsFiniteSet(Ranks(Ranking[query], found))
  BY <1>1, RankingFinite, FS_Subset
<1>3. DOMAIN Ranking[query] \subseteq Nat
  BY RankingFinite
<1> QED BY <1>1, <1>2, <1>3, FS_CardinalityType

(* The best are identifiers.                                               *)
LEMMA BestTyped ==
  ASSUME NEW query \in Queries, NEW found
  PROVE  Best(Ranking[query], found, MaxCandidates) \in Seq(Texts)
<1> DEFINE R == Ranks(Ranking[query], found)
           n == Kept(Cardinality(R), MaxCandidates)
<1>1. /\ R \subseteq Nat /\ IsFiniteSet(R) /\ Cardinality(R) \in Nat
      /\ R \subseteq DOMAIN Ranking[query]
  BY RanksFinite
<1>2. n \in Nat /\ n <= Cardinality(R)
  BY <1>1, IdentifierDatabaseAssumption DEF Kept
<1> HIDE DEF R, n
<1>3. \A k \in 1 .. n : \E i \in R : NotWorse(R, i) = k
  <2>1. \A k \in 1 .. n : k \in 1 .. Cardinality(R)
    BY <1>1, <1>2
  <2> QED BY <1>1, <2>1, KthRank
<1>4. \A k \in 1 .. n :
        Ranking[query][CHOOSE i \in R : NotWorse(R, i) = k] \in Texts
  BY <1>1, <1>3, RankingFinite
<1>5. Best(Ranking[query], found, MaxCandidates) \in [1 .. n -> Texts]
  BY <1>4 DEF Best, R, n
<1> QED BY <1>2, <1>5, IsASeq

(* As many ranks, in ascending order and all others behind them, as are to *)
(* be kept, lead to the best.                                              *)
LEMMA BestIsSorted ==
  ASSUME NEW query \in Queries, NEW found, NEW r,
         r \in [1 .. Kept(Cardinality(Ranks(Ranking[query], found)),
                          MaxCandidates) -> Ranks(Ranking[query], found)],
         \A i, j \in DOMAIN r : i < j => r[i] < r[j],
         \A m \in Ranks(Ranking[query], found) \ Range(r) :
           \A i \in DOMAIN r : r[i] < m
  PROVE  Best(Ranking[query], found, MaxCandidates)
           = [i \in DOMAIN r |-> Ranking[query][r[i]]]
<1> DEFINE R == Ranks(Ranking[query], found)
           n == Kept(Cardinality(R), MaxCandidates)
<1>1. R \subseteq Nat /\ IsFiniteSet(R) /\ Cardinality(R) \in Nat
  BY RanksFinite
<1>2. n \in Nat
  BY <1>1, IdentifierDatabaseAssumption DEF Kept
<1>3. /\ r \in [1 .. n -> R]
      /\ \A m \in R \ Range(r) : \A i \in 1 .. n : r[i] < m
      /\ \A i, j \in 1 .. n : i < j => r[i] < r[j]
  OBVIOUS
<1> HIDE DEF R, n
<1>4. \A i \in 1 .. n : r[i] \in Nat
  BY <1>1, <1>3
<1>5. \A i, j \in 1 .. n : i < j => r[i] < r[j]
  BY <1>3
<1>6. ASSUME NEW k \in 1 .. n PROVE NotWorse(R, r[k]) = k
  <2> DEFINE S == {m \in R : m <= r[k]}
             f == [i \in 1 .. k |-> r[i]]
  <2>1. \A i \in 1 .. k : i \in 1 .. n
    BY <1>2
  <2>2. \A i, j \in 1 .. n : r[i] <= r[j] => i <= j
    <3>1. \A i, j \in 1 .. n : i <= j \/ j < i
      BY <1>2
    <3> QED BY <1>4, <1>5, <3>1
  <2>3. f \in [1 .. k -> S]
    <3>1. \A i \in 1 .. k : r[i] \in R /\ r[i] <= r[k]
      <4>1. \A i \in 1 .. k : i = k \/ i < k
        BY <1>2
      <4>2. \A i \in 1 .. k : r[i] = r[k] \/ r[i] < r[k]
        BY <1>5, <2>1, <4>1
      <4>3. \A i \in 1 .. k : r[i] <= r[k]
        BY <1>4, <2>1, <4>2
      <4> QED BY <1>3, <2>1, <4>3
    <3> QED BY <3>1
  <2>4. IsInjective(f)
    <3>1. \A i, j \in 1 .. n : r[i] = r[j] => i = j
      <4>1. \A i, j \in 1 .. n : r[i] = r[j] => i <= j /\ j <= i
        BY <1>4, <2>2
      <4> QED BY <1>2, <4>1
    <3> QED BY <2>1, <3>1 DEF IsInjective
  <2>5. \A m \in S : \E i \in 1 .. k : f[i] = m
    <3>1. SUFFICES ASSUME NEW m \in S PROVE \E i \in 1 .. k : r[i] = m
      OBVIOUS
    <3>2. m \in Range(r)
      <4>1. m \in Nat /\ m \in R /\ m <= r[k] /\ r[k] \in Nat
        BY <1>1, <1>4
      <4>2. ~ (r[k] < m)
        BY <4>1
      <4> QED BY <1>3, <4>1, <4>2
    <3>3. PICK i \in 1 .. n : r[i] = m
      BY <1>3, <3>2 DEF Range
    <3>4. i \in 1 .. k
      BY <1>2, <2>2, <3>3
    <3> QED BY <3>3, <3>4
  <2>6. f \in Bijection(1 .. k, S)
    BY <2>3, <2>4, <2>5 DEF Bijection, Injection, Surjection
  <2>7. Cardinality(S) = k
    BY <1>2, <2>6, FS_CountingElements DEF ExistsBijection
  <2> QED BY <2>7 DEF NotWorse
<1> DEFINE kth(k) == CHOOSE i \in R : NotWorse(R, i) = k
<1>7. ASSUME NEW k \in 1 .. n PROVE kth(k) = r[k]
  <2>1. r[k] \in R /\ NotWorse(R, r[k]) = k
    BY <1>3, <1>6
  <2>2. \A i \in R : NotWorse(R, i) = k => i = r[k]
    BY <1>1, <2>1, KthRank
  <2> QED BY <2>1, <2>2
<1>8. Best(Ranking[query], found, MaxCandidates)
        = [k \in 1 .. n |-> Ranking[query][kth(k)]]
  BY DEF Best, R, n
<1> HIDE DEF kth
<1>9. [k \in 1 .. n |-> Ranking[query][kth(k)]]
        = [k \in 1 .. n |-> Ranking[query][r[k]]]
  BY <1>7
<1>10. DOMAIN r = 1 .. n
  BY <1>3
<1> QED BY <1>8, <1>9, <1>10

(* The store's notion of the best is the database's.                       *)
LEMMA StoreBest ==
  ASSUME NEW ranking, NEW found, NEW limit
  PROVE  Store!Best(ranking, found, limit) = Best(ranking, found, limit)
<1>1. Store!Ranks(ranking, found) = Ranks(ranking, found)
  BY DEF Store!Ranks, Ranks
<1> DEFINE R == Ranks(ranking, found)
           kth(k) == CHOOSE i \in R : NotWorse(R, i) = k
<1>2. ASSUME NEW S PROVE Store!Cardinality(S) = Cardinality(S)
  BY DEF Store!Cardinality, Cardinality
<1>3. ASSUME NEW i PROVE Store!NotWorse(R, i) = NotWorse(R, i)
  BY <1>2 DEF Store!NotWorse, NotWorse
<1>4. Store!Kept(Cardinality(R), limit) = Kept(Cardinality(R), limit)
  BY DEF Store!Kept, Kept
<1>5. ASSUME NEW k
      PROVE  (CHOOSE i \in R : Store!NotWorse(R, i) = k) = kth(k)
  BY <1>3
<1>6. Store!Best(ranking, found, limit)
        = [k \in 1 .. Kept(Cardinality(R), limit) |->
             ranking[CHOOSE i \in R : Store!NotWorse(R, i) = k]]
  BY <1>2, <1>1, <1>4 DEF Store!Best
<1>7. Best(ranking, found, limit)
        = [k \in 1 .. Kept(Cardinality(R), limit) |-> ranking[kth(k)]]
  BY DEF Best
<1> HIDE DEF R, kth
<1> QED BY <1>5, <1>6, <1>7

(* Only the ranks of what was found matter.                                *)
LEMMA BestOfSame ==
  ASSUME NEW query, NEW found, NEW other,
         \A text : IsMatch(query, text) => (text \in found <=> text \in other)
  PROVE  /\ Ranks(Ranking[query], found) = Ranks(Ranking[query], other)
         /\ Best(Ranking[query], found, MaxCandidates)
              = Best(Ranking[query], other, MaxCandidates)
<1>1. \A i \in DOMAIN Ranking[query] : IsMatch(query, Ranking[query][i])
  BY DEF IsMatch, Range
<1>2. Ranks(Ranking[query], found) = Ranks(Ranking[query], other)
  BY <1>1 DEF Ranks
<1> QED BY <1>2 DEF Best

-----------------------------------------------------------------------------
(* The database implements the store.                                      *)

(* What a call is to the store.                                            *)
LEMMA Asking ==
  ASSUME IInv, NEW t \in Threads, call[t] # NoCall
  PROVE  /\ AbstractCall(t) = [filetype |-> call[t].filetype,
                               query |-> call[t].query, answer |-> AnswerOf(t)]
         /\ AbstractCall(t) # NoCall
         /\ pc[t] \in {"find", "collect", "sort", "read"}
         /\ AnswerOf(t) = Pending <=> pc[t] \in {"find", "collect"}
<1>1. pc[t] \in {"find", "collect", "sort", "read"}
  BY DEF IInv, RequestInv
<1>2. /\ call[t].query \in Queries
      /\ call[t].filetype \in {p[1] : p \in Places}
  BY <1>1, Called
<1>3. pc[t] \notin {"find", "collect"} =>
        AnswerOf(t) \in Seq(Texts) \cup {Garbage}
  <2>1. CASE t \in torn
    BY <2>1 DEF AnswerOf
  <2>2. CASE t \notin torn /\ pc[t] = "sort"
    BY <1>2, <2>2, BestTyped DEF AnswerOf
  <2>3. CASE t \notin torn /\ pc[t] = "read"
    <3>1. /\ results[t] \in Seq(Places \X (Nat \ {0}))
          /\ db \in [Places -> Seq(Texts \ LongTexts)]
      BY DEF IInv, TypeOK
    <3>2. \A i \in DOMAIN results[t] : TextAt(results[t][i]) \in Texts
      <4>1. SUFFICES ASSUME NEW i \in DOMAIN results[t]
                     PROVE  TextAt(results[t][i]) \in Texts
        OBVIOUS
      <4>2. /\ results[t][i][1] \in Places
            /\ results[t][i][2] \in DOMAIN db[results[t][i][1]]
        BY <2>3, Pointer DEF IInv, PointersInv
      <4>3. db[results[t][i][1]] \in Seq(Texts \ LongTexts)
        BY <3>1, <4>2
      <4> QED BY <4>2, <4>3, LenProperties, ElementOfSeq DEF TextAt
    <3>3. Len(results[t]) \in Nat /\ DOMAIN results[t] = 1 .. Len(results[t])
      BY <3>1, LenProperties
    <3>4. [i \in DOMAIN results[t] |-> TextAt(results[t][i])] \in Seq(Texts)
      BY <3>2, <3>3, IsASeq
    <3> QED BY <2>3, <3>4 DEF AnswerOf
  <2> QED BY <1>1, <2>1, <2>2, <2>3
<1>4. pc[t] \in {"find", "collect"} => AnswerOf(t) = Pending
  BY DEF AnswerOf
<1>5. AbstractCall(t) = [filetype |-> call[t].filetype,
                         query |-> call[t].query, answer |-> AnswerOf(t)]
  BY DEF AbstractCall
<1>6. AnswerOf(t) \in Seq(Texts) \cup {Pending, Garbage}
  BY <1>3, <1>4
<1>7. AbstractCall(t) # NoCall
  BY <1>2, <1>5, <1>6, MarksAssumption
<1> QED BY <1>1, <1>3, <1>4, <1>5, <1>7, MarksAssumption

(* A call whose query goes on as it was stays what it is.                  *)
LEMMA CallKept ==
  ASSUME NEW u, call'[u] = call[u], results'[u] = results[u],
         u \in torn' <=> u \in torn, call[u] = NoCall \/ pc'[u] = pc[u],
         u \notin torn => \A i \in DOMAIN results[u] :
           TextAt(results[u][i])' = TextAt(results[u][i])
  PROVE  AbstractCall(u)' = AbstractCall(u)
<1>1. CASE call[u] = NoCall
  BY <1>1 DEF AbstractCall
<1>2. CASE call[u] # NoCall
  <2>1. u \notin torn =>
          /\ Found(u)' = Found(u)
          /\ [i \in DOMAIN results[u] |-> TextAt(results[u][i])]'
               = [i \in DOMAIN results[u] |-> TextAt(results[u][i])]
    BY DEF Found
  <2>2. AnswerOf(u)' = AnswerOf(u)
    BY <1>2, <2>1 DEF AnswerOf
  <2> QED BY <1>2, <2>2 DEF AbstractCall
<1> QED BY <1>1, <1>2

(* An update is one of the store: the queries it tears are spoiled.        *)
LEMMA UpdateRefines ==
  ASSUME IInv, NEW t \in Threads, Updating(t), NEW new,
         NEW s \in SUBSET Threads, Updates(DOMAIN new, s),
         DOMAIN new \subseteq Places,
         \A p \in DOMAIN new : new[p] = Range(db'[p])
  PROVE  Store!Update(new)
<1>1. /\ UNCHANGED <<call, results>>
      /\ pc[t] \in {"add", "buffer", "tags", "syntax"}
      /\ \A u \in Threads \ {t} : pc'[u] = pc[u]
  <2>1. /\ UNCHANGED <<call, results>>
        /\ pc[t] \in {"add", "buffer", "tags", "syntax"}
        /\ \E step : pc' = [pc EXCEPT ![t] = step]
    BY UpdatingFrame
  <2> QED BY <2>1 DEF IInv, TypeOK
<1>2. /\ torn' = torn \cup s
      /\ s \subseteq {u \in Threads : pc[u] = "collect" \/ results[u] # <<>>}
      /\ \A u \in Threads \ torn' : \A i \in DOMAIN results[u] :
           TextAt(results[u][i])' = TextAt(results[u][i])
      /\ \A p \in Places \ DOMAIN new : db'[p] = db[p]
  BY DEF Updates
<1>3. call[t] = NoCall
  BY <1>1 DEF IInv, RequestInv
<1>4. \A u \in s : call[u] # NoCall /\ pc[u] \in {"collect", "sort", "read"}
  BY <1>2 DEF IInv, RequestInv
<1>5. AbstractTexts' = [p \in Places |-> IF p \in DOMAIN new THEN new[p]
                                         ELSE AbstractTexts[p]]
  BY <1>2 DEF AbstractTexts
<1>6. s \in SUBSET Store!Asked
  <2>1. \A u \in s : AbstractCall(u) # NoCall
    BY <1>4, Asking
  <2> QED BY <2>1 DEF Store!Asked, AbstractCalls
<1>7. ASSUME NEW u \in Threads
      PROVE  AbstractCall(u)' =
               IF u \in s /\ AbstractCall(u).answer # Pending
               THEN [AbstractCall(u) EXCEPT !.answer = Garbage]
               ELSE AbstractCall(u)
  <2>1. CASE u \notin s
    <3>1. u \in torn' <=> u \in torn
      BY <1>2, <2>1
    <3>2. call[u] = NoCall \/ pc'[u] = pc[u]
      BY <1>1, <1>3
    <3>3. u \notin torn => \A i \in DOMAIN results[u] :
            TextAt(results[u][i])' = TextAt(results[u][i])
      BY <1>2, <3>1
    <3> QED BY <1>1, <2>1, <3>1, <3>2, <3>3, CallKept
  <2>2. CASE u \in s
    <3>1. /\ call'[u] = call[u] /\ call[u] # NoCall /\ pc'[u] = pc[u]
          /\ u \in torn'
      BY <1>1, <1>2, <1>3, <1>4, <2>2
    <3>2. /\ AbstractCall(u) = [filetype |-> call[u].filetype,
                                query |-> call[u].query,
                                answer |-> AnswerOf(u)]
          /\ pc[u] \in {"find", "collect", "sort", "read"}
          /\ AnswerOf(u) = Pending <=> pc[u] \in {"find", "collect"}
      BY <3>1, Asking
    <3>3. AbstractCall(u)' = [filetype |-> call[u].filetype,
                              query |-> call[u].query,
                              answer |-> AnswerOf(u)']
      BY <3>1 DEF AbstractCall
    <3>4. AnswerOf(u)' = IF pc[u] \in {"find", "collect"} THEN Pending
                                                          ELSE Garbage
      BY <3>1 DEF AnswerOf
    <3>5. AbstractCall(u).answer = AnswerOf(u)
      BY <3>2
    <3> QED BY <2>2, <3>2, <3>3, <3>4, <3>5
  <2> QED BY <2>1, <2>2
<1>8. AbstractCalls' = [u \in Threads |->
        IF u \in s /\ AbstractCalls[u].answer # Pending
        THEN [AbstractCalls[u] EXCEPT !.answer = Garbage]
        ELSE AbstractCalls[u]]
  BY <1>7 DEF AbstractCalls
<1> QED BY <1>2, <1>5, <1>6, <1>8 DEF Store!Update

(* What is sorted of a query that is not torn are the best of its texts.   *)
LEMMA SortedAreBest ==
  ASSUME IInv, NEW t \in Threads \ torn, pc[t] = "sort",
         NEW order \in Sorted(call[t].query, results[t])
  PROVE  [i \in DOMAIN order |-> TextAt(order[i])]
           = Best(Ranking[call[t].query], Found(t), MaxCandidates)
<1> DEFINE q == call[t].query
           R == Ranks(Ranking[q], Found(t))
           rank(pointer) == Rank(q, TextAt(pointer))
           rk == [i \in DOMAIN results[t] |-> rank(results[t][i])]
           r == [i \in DOMAIN order |-> rank(order[i])]
<1>1. q \in Queries
  BY Called
<1>2. /\ \A i \in DOMAIN results[t] : IsMatch(q, TextAt(results[t][i]))
      /\ \A i, j \in DOMAIN results[t] :
           TextAt(results[t][i]) = TextAt(results[t][j]) => i = j
  BY DEF IInv, PointersInv
<1>3. /\ DOMAIN order = 1 .. Kept(Len(results[t]), MaxCandidates)
      /\ \A i \in DOMAIN order : order[i] \in Range(results[t])
      /\ \A i, j \in DOMAIN order : i < j =>
           order[i] # order[j] /\ rank(order[i]) <= rank(order[j])
      /\ \A pointer \in Range(results[t]) \ Range(order) :
           \A i \in DOMAIN order : rank(order[i]) <= rank(pointer)
  <2>1. \A query, o : o \in Sorted(query, results[t]) =>
          /\ DOMAIN o = 1 .. Kept(Len(results[t]), MaxCandidates)
          /\ \A i \in DOMAIN o : o[i] \in Range(results[t])
    BY SortedPointers
  <2>2. \A query, o : o \in Sorted(query, results[t]) =>
          /\ \A i, j \in DOMAIN o : i < j =>
               /\ o[i] # o[j]
               /\ Rank(query, TextAt(o[i])) <= Rank(query, TextAt(o[j]))
          /\ \A pointer \in Range(results[t]) \ Range(o) :
               \A i \in DOMAIN o :
                 Rank(query, TextAt(o[i])) <= Rank(query, TextAt(pointer))
    BY SortedPointers
  <2> QED BY <2>1, <2>2
<1>4. \A pointer \in Range(results[t]) :
        /\ rank(pointer) \in DOMAIN Ranking[q]
        /\ Ranking[q][rank(pointer)] = TextAt(pointer)
        /\ \A i \in DOMAIN Ranking[q] :
             Ranking[q][i] = TextAt(pointer) => i = rank(pointer)
        /\ TextAt(pointer) \in Found(t)
  <2>1. \A pointer \in Range(results[t]) :
          IsMatch(q, TextAt(pointer)) /\ TextAt(pointer) \in Found(t)
    BY <1>2 DEF Range, Found
  <2> QED BY <1>1, <2>1, Ranked
<1>5. \A i \in DOMAIN results[t] : results[t][i] \in Range(results[t])
  BY DEF Range
<1>6. \A pointer \in Range(results[t]) :
        \E i \in DOMAIN results[t] : results[t][i] = pointer
  BY DEF Range
<1>7. \A pointer \in Range(results[t]) : rank(pointer) \in R
  BY <1>4 DEF Ranks
<1>8. \A a, b \in Range(results[t]) : rank(a) = rank(b) => a = b
  BY <1>2, <1>4, <1>6
<1>9. \A m \in R : \E pointer \in Range(results[t]) : rank(pointer) = m
  <2>1. SUFFICES ASSUME NEW m \in R
                 PROVE  \E pointer \in Range(results[t]) : rank(pointer) = m
    OBVIOUS
  <2>2. m \in DOMAIN Ranking[q] /\ Ranking[q][m] \in Found(t)
    BY DEF Ranks
  <2>3. PICK i \in DOMAIN results[t] : Ranking[q][m] = TextAt(results[t][i])
    BY <2>2 DEF Found
  <2> QED BY <1>4, <1>5, <2>2, <2>3
<1>10. R \subseteq Nat
  BY <1>1, RanksFinite
<1> HIDE DEF R, rank
<1>11. rk \in Bijection(DOMAIN results[t], R)
  <2>1. rk \in [DOMAIN results[t] -> R]
    BY <1>5, <1>7
  <2>2. IsInjective(rk)
    BY <1>2, <1>5, <1>8 DEF IsInjective
  <2>3. \A m \in R : \E i \in DOMAIN results[t] : rk[i] = m
    BY <1>6, <1>9
  <2> QED BY <2>1, <2>2, <2>3 DEF Bijection, Injection, Surjection
<1>12. Cardinality(R) = Len(results[t])
  <2>1. results[t] \in Seq(Places \X (Nat \ {0}))
    BY DEF IInv, TypeOK
  <2>2. Len(results[t]) \in Nat /\ DOMAIN results[t] = 1 .. Len(results[t])
    BY <2>1, LenProperties
  <2> HIDE DEF rk
  <2> QED BY <1>11, <2>2, FS_CountingElements DEF ExistsBijection
<1>13. r \in [1 .. Kept(Cardinality(R), MaxCandidates) -> R]
  BY <1>3, <1>7, <1>12
<1>14. \A i, j \in DOMAIN r : i < j => r[i] < r[j]
  <2>1. \A i \in DOMAIN r : r[i] \in Nat
    BY <1>10, <1>13
  <2>2. \A i, j \in DOMAIN r : i < j => r[i] <= r[j] /\ r[i] # r[j]
    BY <1>3, <1>8
  <2> QED BY <2>1, <2>2
<1>15. \A m \in R \ Range(r) : \A i \in DOMAIN r : r[i] < m
  <2>1. SUFFICES ASSUME NEW m \in R \ Range(r), NEW i \in DOMAIN r
                 PROVE  r[i] < m
    OBVIOUS
  <2>2. PICK pointer \in Range(results[t]) : rank(pointer) = m
    BY <1>9
  <2>3. \A j \in DOMAIN order : r[j] # m
    BY DEF Range
  <2>4. pointer \notin Range(order)
    BY <2>2, <2>3 DEF Range
  <2>5. r[i] <= m
    BY <1>3, <2>2, <2>4
  <2>6. r[i] # m /\ r[i] \in Nat /\ m \in Nat
    BY <1>10, <1>13, <2>3
  <2> QED BY <2>5, <2>6
<1>16. \A i \in DOMAIN order : Ranking[q][r[i]] = TextAt(order[i])
  BY <1>3, <1>4
<1>17. DOMAIN r = DOMAIN order
  OBVIOUS
<1> HIDE DEF q, r
<1>18. Best(Ranking[q], Found(t), MaxCandidates)
         = [i \in DOMAIN r |-> Ranking[q][r[i]]]
  BY <1>1, <1>13, <1>14, <1>15, BestIsSorted, ZenonT(60) DEF R
<1> QED BY <1>16, <1>17, <1>18 DEF q

(* The candidates of a filetype that match a query are the stored texts    *)
(* that match it.                                                          *)
LEMMA CandidatesAreStored ==
  ASSUME TypeOK, NEW filetype, NEW query, NEW text, IsMatch(query, text)
  PROVE  text \in Store!Stored(filetype)
           <=> text \in {TextAt(a) : a \in Candidates(filetype, query)}
<1>1. Store!Stored(filetype)
        = UNION {Range(db[p]) : p \in {x \in Places : x[1] = filetype}}
  BY DEF Store!Stored, AbstractTexts
<1>2. text \in Store!Stored(filetype) <=>
        \E p \in Places :
          p[1] = filetype /\ \E i \in DOMAIN db[p] : text = db[p][i]
  BY <1>1 DEF Range
<1>3. ASSUME NEW p \in Places, p[1] = filetype, NEW i \in DOMAIN db[p],
             text = db[p][i]
      PROVE  text \in {TextAt(a) : a \in Candidates(filetype, query)}
  <2>1. <<p, i>> \in UNION {{x} \X DOMAIN db[x] : x \in Places}
    OBVIOUS
  <2>2. TextAt(<<p, i>>) = text
    BY <1>3 DEF TextAt
  <2>3. <<p, i>> \in Candidates(filetype, query)
    BY <1>3, <2>1, <2>2 DEF Candidates
  <2> QED BY <2>2, <2>3
<1>4. ASSUME NEW a \in Candidates(filetype, query), text = TextAt(a)
      PROVE  \E p \in Places :
               p[1] = filetype /\ \E i \in DOMAIN db[p] : text = db[p][i]
  <2>1. /\ a \in UNION {{x} \X DOMAIN db[x] : x \in Places}
        /\ a[1][1] = filetype
    BY DEF Candidates
  <2>2. PICK p \in Places : a \in {p} \X DOMAIN db[p]
    BY <2>1
  <2> QED BY <1>4, <2>1, <2>2 DEF TextAt
<1> QED BY <1>2, <1>3, <1>4

(* A step that changes no text and no call but one.                        *)
LEMMA OneCall ==
  ASSUME IInv, NEW t \in Threads, UNCHANGED db,
         \A u \in Threads \ {t} :
           /\ call'[u] = call[u] /\ results'[u] = results[u] /\ pc'[u] = pc[u]
           /\ u \in torn' <=> u \in torn
  PROVE  /\ AbstractTexts' = AbstractTexts
         /\ AbstractCalls' = [AbstractCalls EXCEPT ![t] = AbstractCall(t)']
<1>1. \A pointer : TextAt(pointer)' = TextAt(pointer)
  BY DEF TextAt
<1>2. \A u \in Threads \ {t} : AbstractCall(u)' = AbstractCall(u)
  BY <1>1, CallKept
<1>3. AbstractCalls' = [AbstractCalls EXCEPT ![t] = AbstractCall(t)']
  BY <1>2 DEF AbstractCalls
<1> QED BY <1>3 DEF AbstractTexts

(* A step that changes nothing the store knows of.                         *)
LEMMA Stutters ==
  ASSUME UNCHANGED <<db, torn, call, results>>,
         \A u \in Threads : call[u] = NoCall \/ pc'[u] = pc[u]
  PROVE  UNCHANGED Store!vars
<1>1. \A pointer : TextAt(pointer)' = TextAt(pointer)
  BY DEF TextAt
<1>2. \A u \in Threads : AbstractCall(u)' = AbstractCall(u)
  BY <1>1, CallKept
<1>3. AbstractCalls' = AbstractCalls
  BY <1>2 DEF AbstractCalls
<1>4. AbstractTexts' = AbstractTexts
  BY DEF AbstractTexts
<1> QED BY <1>3, <1>4 DEF Store!vars

(* Every step of a request that updates is an update of the store.         *)
LEMMA UpdatingRefines ==
  ASSUME IInv, NEW t \in Threads, Updating(t)
  PROVE  Store!Next
<1>1. /\ BufferPlaces \cup SyntaxPlaces \subseteq Places
      /\ BufferContents \subseteq Seq(Texts) /\ Keywords \in Seq(Texts)
  BY IdentifierDatabaseAssumption
<1>2. CASE AddIdentifier(t)
  <2>1. PICK p \in BufferPlaces, s \in SUBSET Threads, text \in Texts :
          Updates({p}, s) /\ Range(db'[p]) = Range(db[p]) \cup {text}
    BY <1>2, AddIdentifierUpdates
  <2> DEFINE new == [q \in {p} |-> AbstractTexts[p] \cup {text}]
  <2>2. DOMAIN new = {p} /\ new[p] = Range(db'[p]) /\ p \in Places
    BY <1>1, <2>1 DEF AbstractTexts
  <2> HIDE DEF new
  <2>3. Store!Update(new)
    BY <2>1, <2>2, UpdateRefines
  <2>4. Store!Add(p, text)
    BY <2>3 DEF Store!Add, new
  <2> QED BY <2>2, <2>4 DEF Store!Next
<1>3. CASE AddBufferIdentifiers(t)
  <2>1. PICK p \in BufferPlaces, contents \in BufferContents,
             s \in SUBSET Threads :
          Updates({p}, s) /\ db'[p] = Intern(contents)
    BY <1>3, AddBufferIdentifiersUpdates
  <2> DEFINE new == AsSets(Only(p, contents))
  <2>2. DOMAIN new = {p} /\ new[p] = Range(db'[p]) /\ p \in Places
    BY <1>1, <2>1 DEF AsSets, Only
  <2>3. new \in Brought
    BY DEF Brought
  <2> HIDE DEF new
  <2>4. Store!Update(new)
    BY <2>1, <2>2, UpdateRefines
  <2> QED BY <2>3, <2>4 DEF Store!Next
<1>4. CASE AddIdentifiersFromTagFiles(t)
  <2>1. /\ \E s \in SUBSET Threads : Updates(DOMAIN extracted[t], s)
        /\ \A p \in DOMAIN extracted[t] : db'[p] = Intern(extracted[t][p])
        /\ DOMAIN extracted[t] \subseteq Places
    BY <1>4, AddIdentifiersFromTagFilesUpdates
  <2> DEFINE new == AsSets(extracted[t])
  <2>2. /\ DOMAIN new = DOMAIN extracted[t]
        /\ \A p \in DOMAIN new : new[p] = Range(db'[p])
    BY <2>1 DEF AsSets
  <2>3. new \in Brought
    <3>1. extracted[t] \in {<<>>} \cup Range(TagContents)
      BY DEF IInv, TypeOK
    <3> QED BY <3>1 DEF Brought
  <2> HIDE DEF new
  <2>4. PICK s \in SUBSET Threads : Updates(DOMAIN new, s)
    BY <2>1, <2>2
  <2>5. Store!Update(new)
    BY <2>1, <2>2, <2>4, UpdateRefines
  <2> QED BY <2>3, <2>5 DEF Store!Next
<1>5. CASE AddIdentifiersFromSyntax(t)
  <2>1. PICK p \in SyntaxPlaces, s \in SUBSET Threads :
          Updates({p}, s) /\ db'[p] = Intern(Keywords)
    BY <1>5, AddIdentifiersFromSyntaxUpdates
  <2> DEFINE new == AsSets(Only(p, Keywords))
  <2>2. DOMAIN new = {p} /\ new[p] = Range(db'[p]) /\ p \in Places
    BY <1>1, <2>1 DEF AsSets, Only
  <2>3. new \in Brought
    BY DEF Brought
  <2> HIDE DEF new
  <2>4. Store!Update(new)
    BY <2>1, <2>2, UpdateRefines
  <2> QED BY <2>3, <2>4 DEF Store!Next
<1> QED BY <1>2, <1>3, <1>4, <1>5 DEF Updating

(* A request begins: a query is asked.                                     *)
LEMMA BeginRefines ==
  ASSUME IInv, NEW t \in Threads, Begin(t)
  PROVE  [Store!Next]_Store!vars
<1> USE DEF Goto, storeVars
<1>1. /\ pc[t] = "idle" /\ call[t] = NoCall
      /\ UNCHANGED <<db, torn, results>>
  BY DEF Begin, IInv, RequestInv
<1>2. CASE call' = call
  <2>1. \A u \in Threads \ {t} : pc'[u] = pc[u]
    BY DEF Begin, IInv, TypeOK
  <2> QED BY <1>1, <1>2, <2>1, Stutters
<1>3. CASE \E p \in Places, query \in Queries :
             /\ call' = [call EXCEPT ![t] =
                           [filetype |-> p[1], query |-> query]]
             /\ pc' = [pc EXCEPT ![t] = "find"]
  <2>1. PICK p \in Places, query \in Queries :
          /\ call' = [call EXCEPT ![t] = [filetype |-> p[1], query |-> query]]
          /\ pc' = [pc EXCEPT ![t] = "find"]
    BY <1>3
  <2>2. [filetype |-> p[1], query |-> query] # NoCall
    BY MarksAssumption DEF Calls
  <2>3. /\ call'[t] = [filetype |-> p[1], query |-> query]
        /\ pc'[t] = "find"
        /\ \A u \in Threads \ {t} : call'[u] = call[u] /\ pc'[u] = pc[u]
    BY <2>1 DEF IInv, TypeOK
  <2>4. AbstractCall(t)' = [filetype |-> p[1], query |-> query,
                            answer |-> Pending]
    BY <2>2, <2>3 DEF AbstractCall, AnswerOf
  <2>5. /\ AbstractTexts' = AbstractTexts
        /\ AbstractCalls' = [AbstractCalls EXCEPT ![t] = AbstractCall(t)']
    BY <1>1, <2>3, OneCall
  <2>6. AbstractCalls[t] = NoCall
    BY <1>1 DEF AbstractCalls, AbstractCall
  <2>7. Store!Ask(t, p[1], query)
    BY <1>1, <2>4, <2>5, <2>6 DEF Store!Ask
  <2> QED BY <2>7 DEF Store!Next
<1> QED BY <1>2, <1>3 DEF Begin

(* A query looks at what is stored when it finds that there is nothing of  *)
(* the filetype, or when it collects.                                      *)
LEMMA LookRefines ==
  ASSUME IInv, NEW t \in Threads, pc[t] \in {"find", "collect"},
         UNCHANGED <<db, torn, call>>,
         \A u \in Threads \ {t} : results'[u] = results[u] /\ pc'[u] = pc[u],
         AnswerOf(t)' =
           IF t \in torn THEN Garbage
           ELSE Best(Ranking[call[t].query], Store!Stored(call[t].filetype),
                     MaxCandidates)
  PROVE  Store!Look(t)
<1>1. call[t] # NoCall
  BY DEF IInv, RequestInv
<1>2. /\ AbstractCall(t) = [filetype |-> call[t].filetype,
                            query |-> call[t].query, answer |-> AnswerOf(t)]
      /\ AbstractCall(t) # NoCall
      /\ AnswerOf(t) = Pending
  BY <1>1, Asking
<1>3. AbstractCall(t)' = [filetype |-> call[t].filetype,
                          query |-> call[t].query, answer |-> AnswerOf(t)']
  BY <1>1 DEF AbstractCall
<1>4. /\ AbstractTexts' = AbstractTexts
      /\ AbstractCalls' = [AbstractCalls EXCEPT ![t] = AbstractCall(t)']
  BY OneCall
<1>5. AbstractCalls[t] = AbstractCall(t)
  BY DEF AbstractCalls
<1>6. AbstractCall(t)' = [AbstractCall(t) EXCEPT !.answer = AnswerOf(t)']
  BY <1>2, <1>3
<1>7. AbstractCalls' = [AbstractCalls EXCEPT ![t].answer = AnswerOf(t)']
  BY <1>4, <1>5, <1>6
<1>8. AbstractCall(t).query = call[t].query /\
      AbstractCall(t).filetype = call[t].filetype /\
      AbstractCall(t).answer = Pending
  BY <1>2
<1>9. Store!Best(Ranking[call[t].query], Store!Stored(call[t].filetype),
                 MaxCandidates)
        = Best(Ranking[call[t].query], Store!Stored(call[t].filetype),
               MaxCandidates)
  BY StoreBest
<1>10. t \in Store!Asked
  BY <1>2, <1>5 DEF Store!Asked
<1> QED BY <1>4, <1>5, <1>7, <1>8, <1>9, <1>10 DEF Store!Look

(* A query finds the filetype, or that nothing of it is stored.            *)
LEMMA FindRefines ==
  ASSUME IInv, NEW t \in Threads, FindFiletype(t)
  PROVE  [Store!Next]_Store!vars
<1> USE DEF Goto, storeVars, threadVars
<1>1. /\ pc[t] = "find" /\ UNCHANGED <<db, torn, call, results>>
      /\ \A u \in Threads \ {t} : pc'[u] = pc[u]
      /\ call[t] # NoCall /\ results[t] = <<>> /\ t \notin torn
  BY DEF FindFiletype, IInv, TypeOK, RequestInv
<1>2. call[t].query \in Queries
  BY <1>1, Called
<1>3. CASE call[t].filetype \in filetypes
  <2>1. pc'[t] = "collect"
    BY <1>3 DEF FindFiletype, IInv, TypeOK
  <2>2. AnswerOf(t)' = AnswerOf(t)
    BY <1>1, <2>1 DEF AnswerOf
  <2>3. AbstractCall(t)' = AbstractCall(t)
    BY <1>1, <2>2 DEF AbstractCall
  <2>4. /\ AbstractTexts' = AbstractTexts
        /\ AbstractCalls' = [AbstractCalls EXCEPT ![t] = AbstractCall(t)']
    BY <1>1, OneCall
  <2>5. AbstractCalls' = AbstractCalls
    BY <2>3, <2>4 DEF AbstractCalls
  <2> QED BY <1>1, <2>4, <2>5 DEF Store!vars
<1>4. CASE call[t].filetype \notin filetypes
  <2>1. pc'[t] = "read"
    BY <1>4 DEF FindFiletype, IInv, TypeOK
  <2>2. AnswerOf(t)' = <<>>
    BY <1>1, <2>1 DEF AnswerOf
  <2>3. Store!Stored(call[t].filetype) = {}
    <3>1. \A p \in Places : p[1] = call[t].filetype => db[p] = <<>>
      BY <1>4 DEF IInv, TypeOK
    <3>2. \A p \in Places : p[1] = call[t].filetype => AbstractTexts[p] = {}
      BY <3>1 DEF AbstractTexts, Range
    <3> QED BY <3>2 DEF Store!Stored
  <2>4. Best(Ranking[call[t].query], {}, MaxCandidates) = <<>>
    <3>1. Ranks(Ranking[call[t].query], {}) = {}
      BY DEF Ranks
    <3>2. Cardinality({}) = 0
      BY FS_EmptySet
    <3>3. Kept(0, MaxCandidates) = 0
      BY IdentifierDatabaseAssumption DEF Kept
    <3> DEFINE best == Best(Ranking[call[t].query], {}, MaxCandidates)
    <3>4. DOMAIN best = 1 .. 0
      BY <3>1, <3>2, <3>3 DEF Best
    <3>5. best \in Seq(Texts)
      BY <1>2, BestTyped
    <3> HIDE DEF best
    <3>6. Len(best) = 0
      <4>1. Len(best) \in Nat /\ DOMAIN best = 1 .. Len(best)
        BY <3>5, LenProperties
      <4> QED BY <3>4, <4>1
    <3>7. best = <<>>
      BY <3>5, <3>6, EmptySeq
    <3> QED BY <3>7 DEF best
  <2>5. Store!Look(t)
    BY <1>1, <2>2, <2>3, <2>4, LookRefines
  <2> QED BY <2>5 DEF Store!Next
<1> QED BY <1>3, <1>4

(* A query collects: it looks at what is stored.                           *)
LEMMA CollectRefines ==
  ASSUME IInv, NEW t \in Threads, CollectResults(t)
  PROVE  Store!Look(t)
<1> USE DEF Goto, storeVars
<1>1. PICK seen \in FirstSeen(Candidates(call[t].filetype, call[t].query)) :
        results' = [results EXCEPT ![t] = SetToSeq(seen)]
  BY DEF CollectResults
<1>2. /\ pc[t] = "collect" /\ UNCHANGED <<db, torn, call>>
      /\ results'[t] = SetToSeq(seen) /\ pc'[t] = "sort"
      /\ \A u \in Threads \ {t} : results'[u] = results[u] /\ pc'[u] = pc[u]
  BY <1>1 DEF CollectResults, IInv, TypeOK
<1>3. call[t].query \in Queries
  BY <1>2, Called
<1> DEFINE C == Candidates(call[t].filetype, call[t].query)
<1>4. /\ IsFiniteSet(seen)
      /\ {TextAt(a) : a \in seen} = {TextAt(a) : a \in C}
  BY <1>3, Seen DEF IInv
<1>5. Range(SetToSeq(seen)) = seen
  BY <1>4, InOrder
<1>6. Found(t)' = {TextAt(a) : a \in C}
  <2>1. \A pointer : TextAt(pointer)' = TextAt(pointer)
    BY <1>2 DEF TextAt
  <2>2. Found(t)' = {TextAt(results'[t][i]) : i \in DOMAIN results'[t]}
    BY <2>1 DEF Found
  <2>3. Found(t)' = {TextAt(a) : a \in Range(results'[t])}
    BY <2>2 DEF Range
  <2> QED BY <1>2, <1>4, <1>5, <2>3
<1>7. Best(Ranking[call[t].query], Found(t)', MaxCandidates)
        = Best(Ranking[call[t].query], Store!Stored(call[t].filetype),
               MaxCandidates)
  <2>1. \A text : IsMatch(call[t].query, text) =>
          (text \in Store!Stored(call[t].filetype) <=> text \in Found(t)')
    BY <1>6, CandidatesAreStored DEF IInv
  <2> QED BY <2>1, BestOfSame
<1>8. AnswerOf(t)' =
        IF t \in torn THEN Garbage
        ELSE Best(Ranking[call[t].query], Store!Stored(call[t].filetype),
                  MaxCandidates)
  BY <1>2, <1>7 DEF AnswerOf
<1> QED BY <1>2, <1>8, LookRefines

(* Sorting changes nothing that is answered.                               *)
LEMMA SortRefines ==
  ASSUME IInv, NEW t \in Threads, PartialSort(t)
  PROVE  UNCHANGED Store!vars
<1> USE DEF Goto, storeVars
<1>1. /\ pc[t] = "sort" /\ UNCHANGED <<db, torn, call>> /\ pc'[t] = "read"
      /\ \A u \in Threads \ {t} : results'[u] = results[u] /\ pc'[u] = pc[u]
  BY DEF PartialSort, IInv, TypeOK
<1>2. AnswerOf(t)' = AnswerOf(t)
  <2>1. CASE t \in torn
    BY <1>1, <2>1 DEF AnswerOf
  <2>2. CASE t \notin torn
    <3>1. PICK order \in Sorted(call[t].query, results[t]) :
            results' = [results EXCEPT ![t] = order]
      BY <2>2 DEF PartialSort
    <3>2. results'[t] = order
      BY <3>1 DEF IInv, TypeOK
    <3>3. [i \in DOMAIN order |-> TextAt(order[i])]
            = Best(Ranking[call[t].query], Found(t), MaxCandidates)
      BY <1>1, <2>2, SortedAreBest
    <3>4. \A pointer : TextAt(pointer)' = TextAt(pointer)
      BY <1>1 DEF TextAt
    <3>5. AnswerOf(t)' = [i \in DOMAIN order |-> TextAt(order[i])]
      BY <1>1, <2>2, <3>2, <3>4 DEF AnswerOf
    <3>6. AnswerOf(t) = Best(Ranking[call[t].query], Found(t), MaxCandidates)
      BY <1>1, <2>2 DEF AnswerOf
    <3> QED BY <3>3, <3>5, <3>6
  <2> QED BY <2>1, <2>2
<1>3. AbstractCall(t)' = AbstractCall(t)
  BY <1>1, <1>2 DEF AbstractCall
<1>4. /\ AbstractTexts' = AbstractTexts
      /\ AbstractCalls' = [AbstractCalls EXCEPT ![t] = AbstractCall(t)']
  BY <1>1, OneCall
<1>5. AbstractCalls' = AbstractCalls
  BY <1>3, <1>4 DEF AbstractCalls
<1> QED BY <1>1, <1>4, <1>5 DEF Store!vars

(* A query returns: it replies.                                            *)
LEMMA ReadRefines ==
  ASSUME IInv, NEW t \in Threads, ReadTexts(t)
  PROVE  Store!Reply(t)
<1>1. /\ pc[t] = "read" /\ db' = db /\ torn' = torn \ {t}
      /\ call'[t] = NoCall
      /\ \A u \in Threads \ {t} :
           call'[u] = call[u] /\ results'[u] = results[u] /\ pc'[u] = pc[u]
  BY DEF ReadTexts, Goto, IInv, TypeOK
<1>2. call[t] # NoCall
  BY <1>1 DEF IInv, RequestInv
<1>3. /\ AbstractCall(t) # NoCall
      /\ AbstractCall(t).answer # Pending
  BY <1>1, <1>2, Asking
<1>4. AbstractCall(t)' = NoCall
  BY <1>1 DEF AbstractCall
<1>5. /\ AbstractTexts' = AbstractTexts
      /\ AbstractCalls' = [AbstractCalls EXCEPT ![t] = AbstractCall(t)']
  BY <1>1, OneCall
<1>6. AbstractCalls[t] = AbstractCall(t)
  BY DEF AbstractCalls
<1> QED BY <1>1, <1>3, <1>4, <1>5, <1>6 DEF Store!Reply, Store!Asked

(* Every step of the database is a step of the store, or a stutter.        *)
LEMMA Refines ==
  ASSUME IInv, Next
  PROVE  [Store!Next]_Store!vars
<1>1. ASSUME NEW t \in Threads,
             \/ FilterUnchangedTagFiles(t) \/ ExtractIdentifiersFromTagsFile(t)
             \/ TagsFileIsUnreadable(t) \/ PathIsUnresolvable(t)
             \/ NoSyntaxKeywords(t)
      PROVE  UNCHANGED Store!vars
  <2>1. /\ UNCHANGED <<db, torn, call, results>>
        /\ pc[t] \in {"filter", "extract", "syntax"}
        /\ \E step : pc' = [pc EXCEPT ![t] = step]
    BY <1>1 DEF FilterUnchangedTagFiles, ExtractIdentifiersFromTagsFile,
                TagsFileIsUnreadable, PathIsUnresolvable, NoSyntaxKeywords,
                Goto, Return, storeVars, threadVars
  <2>2. call[t] = NoCall
    BY <2>1 DEF IInv, RequestInv
  <2>3. \A u \in Threads : call[u] = NoCall \/ pc'[u] = pc[u]
    BY <2>1, <2>2 DEF IInv, TypeOK
  <2> QED BY <2>1, <2>3, Stutters
<1>2. ASSUME ChangeTagsFile PROVE UNCHANGED Store!vars
  <2>1. UNCHANGED <<db, torn, call, results, pc>>
    BY <1>2 DEF ChangeTagsFile, storeVars, threadVars
  <2> QED BY <2>1, Stutters
<1>3. ASSUME NEW t \in Threads, CollectResults(t) \/ ReadTexts(t)
      PROVE  Store!Next
  BY <1>3, CollectRefines, ReadRefines DEF Store!Next
<1> QED BY <1>1, <1>2, <1>3, UpdatingRefines, BeginRefines, FindRefines,
           SortRefines DEF Next, Updating

(* "This class is thread-safe" as far as it is: for any number of threads, *)
(* any files, identifiers, ranking and limit, the database behaves like    *)
(* the store, whose updates are atomic and whose queries answer with the   *)
(* best of what was stored at one moment unless an update spoils them.     *)
THEOREM ImplementsStore == Spec => StoreSpec
<1>1. Init => Store!Init
  <2> SUFFICES ASSUME Init PROVE Store!Init
    OBVIOUS
  <2>1. AbstractTexts = [p \in Places |-> {}]
    BY DEF Init, AbstractTexts, Range
  <2>2. AbstractCalls = [t \in Threads |-> NoCall]
    BY DEF Init, AbstractCalls, AbstractCall
  <2> QED BY <2>1, <2>2 DEF Init, Store!Init
<1>2. IInv /\ [Next]_vars => [Store!Next]_Store!vars
  <2>1. ASSUME UNCHANGED vars PROVE UNCHANGED Store!vars
    <3>1. UNCHANGED <<db, torn, call, results, pc>>
      BY <2>1 DEF vars, storeVars, threadVars
    <3> QED BY <3>1, Stutters
  <2> QED BY <2>1, Refines
<1> QED BY <1>1, <1>2, Invariant, PTL DEF Spec, StoreSpec, Store!Spec
=============================================================================
