-------------------------- MODULE IdentifierDatabase --------------------------
(***************************************************************************)
(* The identifier database (cpp/ycm/IdentifierDatabase.cpp) and the        *)
(* requests that fill and ask it, each in a thread of its own              *)
(* (completers/all/identifier_completer.py).  The GIL is released in every *)
(* call of the C++ part.                                                   *)
(*                                                                         *)
(* The candidates of a file are stored by value, in a vector per place (a  *)
(* filetype and a path).  A query collects pointers to candidates while it *)
(* holds the mutex, but sorts them and reads their texts after it was      *)
(* released; before, it keeps an iterator to the filetype from one hold of *)
(* the mutex to the next.  An update that destroys or moves the candidates *)
(* or the filetype meanwhile tears the query: what is read then is freed   *)
(* or reused memory, which stands here for one value, Garbage.             *)
(*                                                                         *)
(* Which identifiers match a query, and in which order they are ranked, is *)
(* given (Ranking); cpp/ycm/Candidate.cpp and Result.cpp decide it.        *)
(***************************************************************************)
EXTENDS Naturals, Sequences, SequencesExt, Functions, FiniteSets,
        BestIdentifiers

CONSTANTS
  Threads,
  Places,          \* pairs of a filetype and a file path
  BufferPlaces,    \* those of the buffers of the editor
  SyntaxPlaces,    \* those of the keywords of each filetype
  Texts,           \* the identifiers
  LongTexts,       \* those of more than 80 bytes
  Empty,           \* the identifier without characters
  Queries,
  Ranking,         \* the identifiers that match each query, best first
  MaxCandidates,   \* how many a query answers with, 0 for all
  BufferContents,  \* the lists of identifiers a buffer may have
  Keywords,        \* the keywords of every filetype
  TagContents,     \* what each version of the tag file says of some places
  NoCall, Pending, Garbage,
  MaxRequests      \* bound: requests in a behaviour

(* The keywords of a filetype are stored under a path that no file has.    *)
(* Several files of a tag file, and a tag file and a buffer, may be one.   *)
(* The ranking is total: cpp/ycm/Result.cpp compares the texts at the end. *)
ASSUME IdentifierDatabaseAssumption ==
  /\ BufferPlaces \cup SyntaxPlaces \subseteq Places
  /\ LongTexts \subseteq Texts \ {Empty} /\ Empty \in Texts
  /\ \A query \in Queries :
       /\ Ranking[query] \in Seq(Texts \ {Empty})
       /\ \A i, j \in DOMAIN Ranking[query] :
            Ranking[query][i] = Ranking[query][j] => i = j
  /\ MaxCandidates \in Nat /\ MaxRequests \in Nat
  /\ BufferContents \subseteq Seq(Texts) /\ Keywords \in Seq(Texts)
  /\ TagContents \in Seq(Range(TagContents))
  /\ \A contents \in Range(TagContents) :
       /\ DOMAIN contents \subseteq Places \ SyntaxPlaces
       /\ contents \in [DOMAIN contents -> Seq(Texts)]

(* What a thread asks for, and marks that are nothing of that kind.        *)
Calls == [filetype : {p[1] : p \in Places}, query : Queries]

ASSUME MarksAssumption ==
  /\ NoCall \notin Calls
  /\ Pending \notin Seq(Texts) \cup {Garbage}
  /\ NoCall \notin [filetype : {p[1] : p \in Places}, query : Queries,
                    answer : Seq(Texts) \cup {Pending, Garbage}]

VARIABLES
  filetypes,  \* the keys of filetype_candidate_map_
  db,         \* filetype_candidate_map_: the candidates of each place
  pc,         \* what each thread does next
  call,       \* the filetype and query it asks for
  place,      \* the place it brings identifiers for
  results,    \* the results of its query: a place and an index each
  torn,       \* the threads whose query keeps dangling pointers
  extracted,  \* what it has read from the tag file
  tagsFile,   \* the version (and time) of the tag file, 0: there is none
  tagsClock,  \* the last version of the tag file there was
  lastMtime,  \* _tags_file_last_mtime
  tagsRaced,  \* history: whether two threads have read the tag file at once
  tagsUnread, \* history: whether it could not be read since its time was
              \* stored
  requests    \* how many requests were started

storeVars == <<filetypes, db, torn>>
threadVars == <<call, place, results, extracted>>
tagVars == <<tagsFile, tagsClock, lastMtime, tagsRaced, tagsUnread>>
vars == <<storeVars, pc, threadVars, tagVars, requests>>

Goto(t, step) == pc' = [pc EXCEPT ![t] = step]

(* The text a pointer to a candidate leads to. *)
TextAt(pointer) == db[pointer[1]][pointer[2]]

-----------------------------------------------------------------------------
(* Updates: one critical section of filetype_candidate_map_mutex_ each.    *)

(* Repository::GetElements: what is too long is the empty candidate.       *)
Intern(identifiers) ==
  [i \in DOMAIN identifiers |->
     IF identifiers[i] \in LongTexts THEN Empty ELSE identifiers[i]]

(* The queries that keep pointers to the candidates of places. *)
Readers(places) ==
  {t \in Threads : \E i \in DOMAIN results[t] : results[t][i][1] \in places}

(* GetCandidateSet inserts the filetypes and paths that are missing.  The  *)
(* map may be rehashed then, which leaves no iterator valid.               *)
GetCandidateSets(places, destroyed) ==
  /\ filetypes' = filetypes \cup {p[1] : p \in places}
  /\ \E rehashed \in {FALSE, filetypes' # filetypes} :
       torn' = torn \cup destroyed \cup
                 {t \in Threads : rehashed /\ pc[t] = "collect"}

(* What is brought for one place only. *)
Only(p, identifiers) == [q \in {p} |-> identifiers]

(* The vectors of the places are cleared and filled again. *)
RecreateIdentifiers(new) ==
  /\ db' = [p \in Places |-> IF p \in DOMAIN new THEN Intern(new[p]) ELSE db[p]]
  /\ GetCandidateSets(DOMAIN new, Readers(DOMAIN new))

(* A candidate that is new is appended, which may move the whole vector.   *)
AddSingleIdentifier(p, identifier) ==
  LET text  == Intern(<<identifier>>)[1]
      known == text \in Range(db[p])
  IN  /\ db' = IF known THEN db ELSE [db EXCEPT ![p] = Append(@, text)]
      /\ \E moved \in {FALSE, ~ known} :
           GetCandidateSets({p}, IF moved THEN Readers({p}) ELSE {})

-----------------------------------------------------------------------------
(* Requests that fill the database.                                        *)

Begin(t) ==
  /\ pc[t] = "idle" /\ requests < MaxRequests
  /\ requests' = requests + 1
  /\ UNCHANGED <<storeVars, results, extracted, tagVars>>
  /\ \/ /\ \E step \in {"add", "buffer"} : Goto(t, step)
        /\ \E p \in BufferPlaces : place' = [place EXCEPT ![t] = <<p>>]
        /\ UNCHANGED call
     \/ /\ Goto(t, "find")
        /\ \E p \in Places, query \in Queries :
             call' = [call EXCEPT ![t] = [filetype |-> p[1], query |-> query]]
        /\ UNCHANGED place

Return(t) ==
  /\ Goto(t, "idle")
  /\ place' = [place EXCEPT ![t] = <<>>]

(* OnInsertLeave and OnCurrentIdentifierFinished. *)
AddIdentifier(t) ==
  /\ pc[t] = "add"
  /\ \E identifier \in Texts \ {Empty} :
       AddSingleIdentifier(place[t][1], identifier)
  /\ Return(t)
  /\ UNCHANGED <<call, results, extracted, tagVars, requests>>

(* OnFileReadyToParse: the buffer, then the tag file and the keywords of   *)
(* the filetype if the request comes with them.                            *)
AddBufferIdentifiers(t) ==
  /\ pc[t] = "buffer"
  /\ \E contents \in BufferContents :
       RecreateIdentifiers(Only(place[t][1], contents))
  /\ \E step \in {"filter", "syntax"} : Goto(t, step)
  /\ UNCHANGED <<threadVars, tagVars, requests>>

(* The time of the tag file is compared and stored before the file is read *)
(* and no lock is held.                                                    *)
FilterUnchangedTagFiles(t) ==
  /\ pc[t] = "filter"
  /\ IF tagsFile > lastMtime
     THEN /\ lastMtime' = tagsFile
          /\ tagsRaced' = (tagsRaced \/ \E u \in Threads :
                                         pc[u] \in {"extract", "tags"})
          /\ tagsUnread' = FALSE
          /\ Goto(t, "extract")
     ELSE /\ Goto(t, "syntax")
          /\ UNCHANGED <<lastMtime, tagsRaced, tagsUnread>>
  /\ UNCHANGED <<storeVars, threadVars, tagsFile, tagsClock, requests>>

ExtractIdentifiersFromTagsFile(t) ==
  /\ pc[t] = "extract" /\ tagsFile # 0
  /\ extracted' = [extracted EXCEPT ![t] = TagContents[tagsFile]]
  /\ Goto(t, "tags")
  /\ UNCHANGED <<storeVars, call, place, results, tagVars, requests>>

(* A file that is not there, or cannot be read, is taken to be empty.       *)
TagsFileIsUnreadable(t) ==
  /\ pc[t] = "extract"
  /\ extracted' = [extracted EXCEPT ![t] = <<>>]
  /\ tagsUnread' = TRUE
  /\ Goto(t, "tags")
  /\ UNCHANGED <<storeVars, call, place, results, tagsFile, tagsClock,
                 lastMtime, tagsRaced, requests>>

(* fs::weakly_canonical throws for a path in the file: the request fails.   *)
PathIsUnresolvable(t) ==
  /\ pc[t] = "extract" /\ tagsFile # 0
  /\ tagsUnread' = TRUE
  /\ Return(t)
  /\ UNCHANGED <<storeVars, call, results, extracted, tagsFile, tagsClock,
                 lastMtime, tagsRaced, requests>>

(* Mutant: the time is stored when the file has been read. *)
AddIdentifiersFromTagFiles_StoresTime(t) ==
  /\ pc[t] = "tags"
  /\ RecreateIdentifiers(extracted[t])
  /\ extracted' = [extracted EXCEPT ![t] = <<>>]
  /\ Goto(t, "syntax")
  /\ lastMtime' = tagsFile
  /\ UNCHANGED <<call, place, results, tagsFile, tagsClock, tagsRaced,
                 tagsUnread, requests>>

AddIdentifiersFromTagFiles(t) ==
  /\ pc[t] = "tags"
  /\ RecreateIdentifiers(extracted[t])
  /\ extracted' = [extracted EXCEPT ![t] = <<>>]
  /\ Goto(t, "syntax")
  /\ UNCHANGED <<call, place, results, tagVars, requests>>

AddIdentifiersFromSyntax(t) ==
  /\ pc[t] = "syntax"
  /\ \E p \in SyntaxPlaces :
       p[1] = place[t][1][1] /\ RecreateIdentifiers(Only(p, Keywords))
  /\ Return(t)
  /\ UNCHANGED <<call, results, extracted, tagVars, requests>>

NoSyntaxKeywords(t) ==
  /\ pc[t] = "syntax"
  /\ Return(t)
  /\ UNCHANGED <<storeVars, call, results, extracted, tagVars, requests>>

(* Somebody else writes the tag file, or removes it. *)
ChangeTagsFile ==
  /\ \/ /\ tagsClock + 1 \in DOMAIN TagContents
        /\ tagsClock' = tagsClock + 1 /\ tagsFile' = tagsClock'
     \/ /\ tagsFile # 0
        /\ tagsFile' = 0 /\ UNCHANGED tagsClock
  /\ UNCHANGED <<storeVars, pc, threadVars, lastMtime, tagsRaced, tagsUnread,
                 requests>>

-----------------------------------------------------------------------------
(* Queries: ResultsForQueryAndType and CandidatesForQueryAndType.          *)

FindFiletype(t) ==
  /\ pc[t] = "find"
  /\ Goto(t, IF call[t].filetype \in filetypes THEN "collect" ELSE "read")
  /\ UNCHANGED <<storeVars, threadVars, tagVars, requests>>

IsMatch(query, text) == text \in Range(Ranking[query])

(* All the candidates of the filetype that match the query: a text that    *)
(* is stored several times is taken from the first place it is met at.     *)
Candidates(filetype, query) ==
  {pointer \in UNION {{p} \X DOMAIN db[p] : p \in Places} :
     pointer[1][1] = filetype /\ IsMatch(query, TextAt(pointer))}

FirstSeen(pointers) ==
  {seen \in SUBSET pointers :
     \A pointer \in pointers :
       \E one \in seen : \A other \in seen :
         (TextAt(other) = TextAt(pointer)) <=> (other = one)}

(* Mutant: candidates of different files are not compared. *)
CollectResults_AllFiles(t) ==
  /\ pc[t] = "collect"
  /\ results' = [results EXCEPT ![t] =
       SetToSeq(Candidates(call[t].filetype, call[t].query))]
  /\ Goto(t, "sort")
  /\ UNCHANGED <<storeVars, call, place, extracted, tagVars, requests>>

CollectResults(t) ==
  /\ pc[t] = "collect"
  /\ \E seen \in FirstSeen(Candidates(call[t].filetype, call[t].query)) :
       results' = [results EXCEPT ![t] = SetToSeq(seen)]
  /\ Goto(t, "sort")
  /\ UNCHANGED <<storeVars, call, place, extracted, tagVars, requests>>

Rank(query, text) ==
  CHOOSE i \in DOMAIN Ranking[query] : Ranking[query][i] = text

(* Utils.h: as many of the results as are asked for, the best ones first.  *)
(* Pointers to the same text would be in any order.                        *)
Sorted(query, pointers) ==
  LET rank(pointer) == Rank(query, TextAt(pointer))
  IN  {order \in [1..Kept(Len(pointers), MaxCandidates) -> Range(pointers)] :
         /\ \A i, j \in DOMAIN order : i < j =>
              order[i] # order[j] /\ rank(order[i]) <= rank(order[j])
         /\ \A pointer \in Range(pointers) \ Range(order), i \in DOMAIN order :
              rank(order[i]) <= rank(pointer)}

(* A query that is torn leaves its results in any order. *)
PartialSort(t) ==
  /\ pc[t] = "sort"
  /\ IF t \in torn THEN UNCHANGED results
     ELSE \E order \in Sorted(call[t].query, results[t]) :
            results' = [results EXCEPT ![t] = order]
  /\ Goto(t, "read")
  /\ UNCHANGED <<storeVars, call, place, extracted, tagVars, requests>>

(* The texts are read through the pointers, and returned. *)
ReadTexts(t) ==
  /\ pc[t] = "read"
  /\ results' = [results EXCEPT ![t] = <<>>]
  /\ call' = [call EXCEPT ![t] = NoCall]
  /\ torn' = torn \ {t}
  /\ Goto(t, "idle")
  /\ UNCHANGED <<filetypes, db, place, extracted, tagVars, requests>>

-----------------------------------------------------------------------------
Next ==
  \/ \E t \in Threads :
       \/ Begin(t) \/ AddIdentifier(t) \/ AddBufferIdentifiers(t)
       \/ FilterUnchangedTagFiles(t) \/ ExtractIdentifiersFromTagsFile(t)
       \/ TagsFileIsUnreadable(t) \/ PathIsUnresolvable(t)
       \/ AddIdentifiersFromTagFiles(t)
       \/ AddIdentifiersFromSyntax(t) \/ NoSyntaxKeywords(t)
       \/ FindFiletype(t) \/ CollectResults(t) \/ PartialSort(t)
       \/ ReadTexts(t)
  \/ ChangeTagsFile

Init ==
  /\ filetypes = {} /\ db = [p \in Places |-> <<>>] /\ torn = {}
  /\ pc = [t \in Threads |-> "idle"]
  /\ call = [t \in Threads |-> NoCall]
  /\ place = [t \in Threads |-> <<>>]
  /\ results = [t \in Threads |-> <<>>]
  /\ extracted = [t \in Threads |-> <<>>]
  /\ tagsFile = 0 /\ tagsClock = 0 /\ lastMtime = 0
  /\ tagsRaced = FALSE /\ tagsUnread = FALSE
  /\ requests = 0

Spec == Init /\ [][Next]_vars

-----------------------------------------------------------------------------
(* Every variable has its type, and what is stored is interned.            *)
TypeOK ==
  /\ filetypes \subseteq {p[1] : p \in Places}
  /\ db \in [Places -> Seq(Texts \ LongTexts)]
  /\ \A p \in Places : p[1] \notin filetypes => db[p] = <<>>
  /\ torn \subseteq Threads /\ requests \in 0..MaxRequests
  /\ pc \in [Threads -> {"idle", "add", "buffer", "filter", "extract", "tags",
                         "syntax", "find", "collect", "sort", "read"}]
  /\ call \in [Threads -> Calls \cup {NoCall}]
  /\ place \in [Threads -> {<<>>} \cup {<<p>> : p \in BufferPlaces}]
  /\ results \in [Threads -> Seq(Places \X (Nat \ {0}))]
  /\ extracted \in [Threads -> {<<>>} \cup Range(TagContents)]
  /\ tagsClock \in {0} \cup DOMAIN TagContents
  /\ tagsFile \in {0, tagsClock} /\ lastMtime \in 0..tagsClock
  /\ tagsRaced \in BOOLEAN /\ tagsUnread \in BOOLEAN

(* The texts that a query has found. *)
Found(t) == {TextAt(results[t][i]) : i \in DOMAIN results[t]}

(* What a query answers, as far as it is decided. *)
AnswerOf(t) ==
  IF pc[t] \in {"find", "collect"} THEN Pending
  ELSE IF t \in torn THEN Garbage
  ELSE IF pc[t] = "sort"
       THEN Best(Ranking[call[t].query], Found(t), MaxCandidates)
       ELSE [i \in DOMAIN results[t] |-> TextAt(results[t][i])]

AbstractCall(t) ==
  IF call[t] = NoCall THEN NoCall
  ELSE [filetype |-> call[t].filetype, query |-> call[t].query,
        answer |-> AnswerOf(t)]

AsSets(new) == [p \in DOMAIN new |-> Range(Intern(new[p]))]

AbstractTexts == [p \in Places |-> Range(db[p])]

AbstractCalls == [t \in Threads |-> AbstractCall(t)]

Brought ==
  {AsSets(Only(p, c)) : p \in BufferPlaces, c \in BufferContents}
    \cup {AsSets(Only(p, Keywords)) : p \in SyntaxPlaces}
    \cup {AsSets(contents) : contents \in {<<>>} \cup Range(TagContents)}

Store == INSTANCE IdentifierStore WITH
  texts <- AbstractTexts, calls <- AbstractCalls, spoiled <- torn,
  Deliveries <- Brought

(* The database does what IdentifierStore promises: updates are atomic,    *)
(* an update replaces exactly what it brings, and a query that no update   *)
(* overlaps with answers with the best candidates stored when it looked,   *)
(* each once, whatever file they come from.                                *)
StoreSpec == Store!Spec

(* "We don't want to repeatedly process the same file [...]; we only      *)
(* process if it's changed since the last time we looked at it"            *)
(* (identifier_completer.py:120-121): what is not processed was processed. *)
(* When nobody reads the tag file, and its time is the one remembered, its *)
(* identifiers are those in the database, where no buffer has the same     *)
(* path, unless two threads have read it at once.                          *)
TagsProcessed ==
  /\ tagsFile # 0 /\ tagsFile = lastMtime /\ ~ tagsRaced
  /\ \A t \in Threads : pc[t] \notin {"extract", "tags"}
  => \A p \in DOMAIN TagContents[tagsFile] \ BufferPlaces :
       db[p] = Intern(TagContents[tagsFile][p])

(* What holds of it: a tag file that is not read, because its time is      *)
(* remembered, was read as it is now, or reading it has failed.            *)
TagsAreCurrent == ~ tagsUnread => TagsProcessed

(* "This class is thread-safe." (IdentifierDatabase.h:62): what a query    *)
(* sorts and returns are candidates of the database.                       *)
QueryReadsLiveCandidates ==
  \A t \in Threads : pc[t] \in {"collect", "sort", "read"} => t \notin torn
-----------------------------------------------------------------------------
(* The parts of an inductive invariant.                                    *)

(* A request has what it brings, or asks for, until it returns; only a     *)
(* query has pointers, or an iterator, that an update can spoil.           *)
RequestInv ==
  \A t \in Threads :
    /\ pc[t] \in {"add", "buffer", "filter", "extract", "tags", "syntax"} =>
         \E p \in BufferPlaces : place[t] = <<p>>
    /\ pc[t] \in {"find", "collect", "sort", "read"} <=> call[t] # NoCall
    /\ t \in torn => pc[t] \in {"collect", "sort", "read"}
    /\ results[t] # <<>> => pc[t] \in {"sort", "read"}

(* Pointers that do not dangle lead to candidates that match the query, no *)
(* two of them to the same text.                                           *)
PointersInv ==
  \A t \in Threads \ torn :
    /\ \A i \in DOMAIN results[t] :
         /\ results[t][i][2] \in DOMAIN db[results[t][i][1]]
         /\ IsMatch(call[t].query, TextAt(results[t][i]))
    /\ \A i, j \in DOMAIN results[t] :
         TextAt(results[t][i]) = TextAt(results[t][j]) => i = j

(* Unless two threads read the tag file at once, or it could not be read:  *)
(* the one that has read the version whose time is remembered brings its   *)
(* identifiers, or they are in the database.                               *)
TagsInv ==
  tagsRaced \/
    /\ \A t, u \in Threads :
         pc[t] \in {"extract", "tags"} /\ pc[u] \in {"extract", "tags"} => t = u
    /\ \A t \in Threads :
         pc[t] = "tags" /\ ~ tagsUnread /\ tagsFile # 0
           /\ tagsFile = lastMtime => extracted[t] = TagContents[tagsFile]
    /\ TagsAreCurrent

IInv == TypeOK /\ RequestInv /\ PointersInv /\ TagsInv
=============================================================================
