------------------------ MODULE BoardCollectionProofs ------------------------
(***************************************************************************)
(* Proofs about BoardCollection for any postings, page sizes, limits and   *)
(* search words.                                                           *)
(***************************************************************************)
EXTENDS BoardCollection, Integers, FiniteSetTheorems, TLAPS

\* What classify keeps has a verdict, no secret and no country abroad; a match is
\* clean and says that it is in the US.
LEMMA Kinds ==
  ASSUME NEW c \in Content, Eligible(c)
  PROVE  /\ Verdict(c) \in {"match", "review"}
         /\ "credential" \notin c.flags /\ Geography(c) # "outside_us"
         /\ Verdict(c) = "match" => c.flags = {} /\ Geography(c) = "us"
  <1>1. TitleVerdict(c.title) \in {"match", "review", "exclude"}
    BY DEF TitleVerdict
  <1>2. Geography(c) \in {"us", "outside_us", "unknown"}
    BY DEF Geography
  <1> QED
    BY <1>1, <1>2 DEF Eligible, Verdict

\* Places on the board, and how they are counted.
LEMMA Places ==
  ASSUME TypeOK, NEW w
  PROVE  /\ Len(board) \in Nat /\ Listing(w) \subseteq 1..Len(board)
         /\ Cardinality(Listing(w)) \in Nat
         /\ \A i \in Listing(w) : Rank(w, i) \in 1..Cardinality(Listing(w))
  <1>1. Len(board) \in Nat
    BY DEF TypeOK
  <1>2. Listing(w) \subseteq 1..Len(board)
    BY DEF Listing
  <1>3. IsFiniteSet(1..Len(board))
    BY <1>1, FS_Interval
  <1>4. IsFiniteSet(Listing(w))
    BY <1>2, <1>3, FS_Subset
  <1>5. Cardinality(Listing(w)) \in Nat
    BY <1>4, FS_CardinalityType
  <1>6. ASSUME NEW i \in Listing(w) PROVE Rank(w, i) \in 1..Cardinality(Listing(w))
    <2> DEFINE upto == {j \in Listing(w) : j <= i}
    <2>1. upto \subseteq Listing(w) /\ i \in upto
      BY <1>1, <1>2
    <2>2. IsFiniteSet(upto) /\ Cardinality(upto) <= Cardinality(Listing(w))
      BY <2>1, <1>4, FS_Subset
    <2>3. Cardinality(upto) \in Nat /\ Cardinality(upto) # 0
      BY <2>1, <2>2, FS_CardinalityType, FS_EmptySet
    <2>4. Rank(w, i) = Cardinality(upto)
      BY DEF Rank
    <2> HIDE DEF upto
    <2> QED
      BY <2>2, <2>3, <2>4, <1>5
  <1> QED
    BY <1>1, <1>2, <1>5, <1>6

\* A provider that lists everything counts the places themselves.
LEMMA RankIsPlace ==
  ASSUME TypeOK, provider # "dice", NEW w
  PROVE  /\ Listing(w) = 1..Len(board)
         /\ \A i \in 1..Len(board) : Rank(w, i) = i
  <1>1. Listing(w) = 1..Len(board)
    BY DEF Listing
  <1>2. ASSUME NEW i \in 1..Len(board) PROVE Rank(w, i) = i
    <2>1. Len(board) \in Nat
      BY DEF TypeOK
    <2>2. {j \in Listing(w) : j <= i} = 1..i
      BY <1>1, <2>1
    <2>3. Cardinality(1..i) = i
      BY <2>1, FS_Interval
    <2> QED
      BY <2>2, <2>3 DEF Rank
  <1> QED
    BY <1>1, <1>2

\* Page n of b postings ends b after page n - 1.
LEMMA Pages ==
  ASSUME NEW n \in Nat \ {0}, NEW b \in Nat
  PROVE  (n - 1) * b \in Nat /\ n * b \in Nat /\ n * b = (n - 1) * b + b
  OBVIOUS

LEMMA BatchType == Batch \in Nat \ {0}
  BY BoardAssumption DEF Batch

LEMMA InBefore ==
  ASSUME NEW v, NEW n, NEW mute, NEW i
  PROVE  i \in Before(v, n, mute) <=>
           \E w \in 1..v : i \in Listing(w) /\
              Rank(w, i) <= IF w < v THEN Span(w, mute) ELSE (n - 1) * Batch
  BY DEF Before

\* An answer is what lies between one page and the next.
LEMMA NextPage ==
  ASSUME TypeOK, NEW mute
  PROVE  Before(word, page, mute) \union Answer = Before(word, page + 1, mute)
  <1> USE BoardAssumption
  <1>1. page \in Nat \ {0} /\ word \in 1..Words /\ Words \in Nat
    BY DEF TypeOK
  <1>2. Batch \in Nat /\ Batch \in Int
    BY BatchType
  <1>3. /\ (page - 1) * Batch \in Nat /\ page * Batch \in Nat
        /\ page * Batch = (page - 1) * Batch + Batch
    BY <1>1, <1>2, Pages
  <1>4. (page + 1) - 1 = page
    BY <1>1
  <1>5. ~(word < word)
    BY <1>1
  <1>6. Before(word, page, mute) =
          UNION {{i \in Listing(w) :
            Rank(w, i) <= IF w < word THEN Span(w, mute) ELSE (page - 1) * Batch} : w \in 1..word}
    BY DEF Before
  <1>7. Before(word, page + 1, mute) =
          UNION {{i \in Listing(w) :
            Rank(w, i) <= IF w < word THEN Span(w, mute) ELSE page * Batch} : w \in 1..word}
    BY <1>4 DEF Before
  <1>8. \A w \in 1..word : w < word \/ w = word
    BY <1>1
  <1>9. \A w : \A i \in Listing(w) : Rank(w, i) \in Nat
    BY Places
  <1>10. ASSUME NEW i PROVE i \in Before(word, page, mute) \union Answer <=> i \in Before(word, page + 1, mute)
    <2> DEFINE lo == (page - 1) * Batch
               hi == page * Batch
    <2>1. i \in Before(word, page, mute) <=>
            \E w \in 1..word : i \in Listing(w) /\ Rank(w, i) <= IF w < word THEN Span(w, mute) ELSE lo
      BY <1>6
    <2>2. i \in Before(word, page + 1, mute) <=>
            \E w \in 1..word : i \in Listing(w) /\ Rank(w, i) <= IF w < word THEN Span(w, mute) ELSE hi
      BY <1>7
    <2>3. i \in Answer <=> i \in Listing(word) /\ lo < Rank(word, i) /\ Rank(word, i) <= hi
      BY DEF Answer
    <2>4. lo \in Nat /\ hi \in Nat /\ lo <= hi
      BY <1>2, <1>3
    <2> HIDE DEF lo, hi
    <2>5. word \in 1..word
      BY <1>1
    <2>6. i \in Listing(word) => Rank(word, i) \in Nat
      BY <1>9
    <2>7. i \in Before(word, page, mute) \union Answer => i \in Before(word, page + 1, mute)
      BY <2>1, <2>2, <2>3, <2>4, <2>5, <1>5, <1>8, <1>9
    <2>8. i \in Before(word, page + 1, mute) => i \in Before(word, page, mute) \union Answer
      BY <2>1, <2>2, <2>3, <2>4, <2>5, <1>5, <1>8, <1>9
    <2> QED
      BY <2>7, <2>8
  <1> QED
    BY <1>10

\* After the last page of a word Dice has reached what it can of it.
LEMMA WordEnds ==
  ASSUME TypeOK, provider = "dice", word \notin untold,
         NEW told \in BOOLEAN, told \/ page = 1, ~More(told),
         NEW mute, mute = IF told THEN untold ELSE untold \union {word}
  PROVE  /\ Before(word, page + 1, untold) = Before(word + 1, 1, mute)
         /\ word = Words =>
              Before(word, page + 1, untold) =
                UNION {{i \in Listing(w) : Rank(w, i) <= Span(w, mute)} : w \in 1..Words}
  <1> USE BoardAssumption
  <1>1. page \in 1..2 /\ word \in 1..Words /\ Words \in Nat /\ PageSize \in Nat \ {0}
    BY DEF TypeOK
  <1>2. Batch = PageSize
    BY DEF Batch
  <1>3. \A i \in Listing(word) : Rank(word, i) <= page * PageSize <=> Rank(word, i) <= Span(word, mute)
    <2>1. CASE page = 2
      <3>1. Span(word, mute) = 2 * PageSize
        BY <2>1 DEF Span
      <3> QED
        BY <2>1, <3>1
    <2>2. CASE page = 1 /\ told
      <3>1. ~(PageSize < Cardinality(Listing(word)))
        BY <2>2, <1>1 DEF More
      <3>2. /\ Cardinality(Listing(word)) \in Nat
            /\ \A i \in Listing(word) : Rank(word, i) \in 1..Cardinality(Listing(word))
        BY Places
      <3>3. Span(word, mute) = 2 * PageSize
        BY <2>2 DEF Span
      <3> QED
        BY <2>2, <3>1, <3>2, <3>3, <1>1
    <2>3. CASE page = 1 /\ ~told
      <3>1. Span(word, mute) = 1 * PageSize
        BY <2>3 DEF Span
      <3> QED
        BY <2>3, <3>1
    <2> QED
      BY <1>1, <2>1, <2>2, <2>3
  <1>4. \A w \in 1..word : w < word => Span(w, untold) = Span(w, mute)
    BY <1>1 DEF Span
  <1> DEFINE Done == {i \in 1..Len(board) :
                        \E w \in 1..word : i \in Listing(w) /\ Rank(w, i) <= Span(w, mute)}
  <1>5. \A w : Listing(w) \subseteq 1..Len(board)
    BY Places
  <1>6. Before(word, page + 1, untold) = Done
    <2>1. (page + 1) - 1 = page /\ \A w \in 1..word : w < word \/ (w = word /\ ~(w < word))
      BY <1>1
    <2>2. \A i : i \in Before(word, page + 1, untold) <=>
            \E w \in 1..word : i \in Listing(w) /\
               Rank(w, i) <= IF w < word THEN Span(w, untold) ELSE page * PageSize
      BY <1>2, <2>1 DEF Before
    <2>3. ASSUME NEW i PROVE i \in Before(word, page + 1, untold) <=> i \in Done
      <3>1. ASSUME NEW w \in 1..word, i \in Listing(w)
            PROVE  Rank(w, i) <= (IF w < word THEN Span(w, untold) ELSE page * PageSize)
                     <=> Rank(w, i) <= Span(w, mute)
        <4>1. CASE w < word
          BY <4>1, <1>4
        <4>2. CASE w = word /\ ~(w < word)
          BY <4>2, <3>1, <1>3
        <4> QED
          BY <4>1, <4>2, <2>1
      <3>2. i \in Done <=> \E w \in 1..word : i \in Listing(w) /\ Rank(w, i) <= Span(w, mute)
        BY <1>5
      <3> HIDE DEF Done
      <3> QED
        BY <2>2, <3>1, <3>2
    <2> QED
      BY <2>3
  <1>7. Before(word + 1, 1, mute) = Done
    <2>1. (1 - 1) * Batch = 0
      BY <1>1, <1>2
    <2>2. \A w : w \in 1..(word + 1) <=> w \in 1..word \/ w = word + 1
      BY <1>1
    <2>3. ~(word + 1 < word + 1) /\ \A w \in 1..word : w < word + 1
      BY <1>1
    <2>4. \A w : \A i \in Listing(w) : Rank(w, i) \in Nat \ {0}
      BY Places
    <2>5. \A i : i \in Before(word + 1, 1, mute) <=>
            \E w \in 1..(word + 1) : i \in Listing(w) /\
               Rank(w, i) <= IF w < word + 1 THEN Span(w, mute) ELSE 0
      <3> DEFINE zero == (1 - 1) * Batch
      <3>1. \A i : i \in Before(word + 1, 1, mute) <=>
              \E w \in 1..(word + 1) : i \in Listing(w) /\
                 Rank(w, i) <= IF w < word + 1 THEN Span(w, mute) ELSE zero
        BY InBefore
      <3>2. zero = 0
        BY <2>1
      <3> HIDE DEF zero
      <3> QED
        BY <3>1, <3>2
    <2>6. \A i \in Listing(word + 1) : ~(Rank(word + 1, i) <= 0)
      BY <2>4
    <2>7. ASSUME NEW i PROVE i \in Before(word + 1, 1, mute) <=> i \in Done
      <3>1. ASSUME NEW w \in 1..word
            PROVE  Rank(w, i) <= (IF w < word + 1 THEN Span(w, mute) ELSE 0)
                     <=> Rank(w, i) <= Span(w, mute)
        BY <2>3
      <3>2. i \in Listing(word + 1) =>
              ~(Rank(word + 1, i) <= IF word + 1 < word + 1 THEN Span(word + 1, mute) ELSE 0)
        BY <2>3, <2>6
      <3>3. i \in Done <=> \E w \in 1..word : i \in Listing(w) /\ Rank(w, i) <= Span(w, mute)
        BY <1>5
      <3> HIDE DEF Done
      <3> QED
        BY <2>2, <2>5, <3>1, <3>2, <3>3
    <2> QED
      BY <2>7
  <1>8. Done = UNION {{i \in Listing(w) : Rank(w, i) <= Span(w, mute)} : w \in 1..word}
    <2> DEFINE all == UNION {{j \in Listing(w) : Rank(w, j) <= Span(w, mute)} : w \in 1..word}
    <2>1. ASSUME NEW i PROVE i \in Done <=> i \in all
      <3>1. i \in all <=> \E w \in 1..word : i \in Listing(w) /\ Rank(w, i) <= Span(w, mute)
        OBVIOUS
      <3>2. i \in Done <=> \E w \in 1..word : i \in Listing(w) /\ Rank(w, i) <= Span(w, mute)
        BY <1>5
      <3> QED
        BY <3>1, <3>2
    <2> HIDE DEF Done, all
    <2>2. Done = all
      BY <2>1
    <2> QED
      BY <2>2 DEF all
  <1> HIDE DEF Done
  <1>9. Before(word, page + 1, untold) = Before(word + 1, 1, mute)
    BY <1>6, <1>7, Zenon
  <1>10. ASSUME word = Words
         PROVE  Before(word, page + 1, untold) =
                  UNION {{i \in Listing(w) : Rank(w, i) <= Span(w, mute)} : w \in 1..Words}
    BY <1>6, <1>8, <1>10, Zenon
  <1> QED
    BY <1>9, <1>10, Zenon

\* A list of one word has been reached when a page is its last.
LEMMA ListEnds ==
  ASSUME TypeOK, Asked, provider # "dice", NEW told, ~More(told), NEW mute
  PROVE  Before(word, page + 1, mute) = Reach
  <1> USE BoardAssumption
  <1>1. word = 1 /\ page \in Nat \ {0} /\ Len(board) \in Nat /\ Len(board) <= MaxListed
    BY DEF TypeOK, Asked
  <1>2. (page + 1) - 1 = page /\ 1..word = {1} /\ ~(1 < 1)
    BY <1>1
  <1>3. Before(word, page + 1, mute) = {i \in Listing(1) : Rank(1, i) <= page * Batch}
    <2>1. \A i : i \in Before(word, page + 1, mute) <=>
            \E w \in {1} : i \in Listing(w) /\
              Rank(w, i) <= IF w < 1 THEN Span(w, mute) ELSE page * Batch
      BY <1>1, <1>2 DEF Before
    <2> QED
      BY <2>1, <1>2
  <1>4. Listing(1) = 1..Len(board) /\ \A i \in 1..Len(board) : Rank(1, i) = i
    BY RankIsPlace
  <1>5. Before(word, page + 1, mute) = {i \in 1..Len(board) : i <= page * Batch}
    BY <1>3, <1>4
  <1>6. CASE provider = "jobicy"
    <2>1. page = 1 /\ Batch = FeedLimit /\ FeedLimit \in Nat
      BY <1>6 DEF Asked, Batch
    <2> QED
      BY <1>5, <1>6, <2>1 DEF Reach
  <1>7. CASE provider = "lever"
    <2> DEFINE lo == (page - 1) * PageSize
               hi == page * PageSize
    <2>1. Batch = PageSize /\ PageSize \in Nat \ {0}
      BY <1>7 DEF Batch
    <2>2. lo \in Nat /\ hi \in Nat /\ hi = lo + PageSize
      BY <1>1, <2>1, Pages
    <2>3. Answer = {i \in 1..Len(board) : lo < i /\ i <= hi}
      BY <1>1, <1>4, <2>1 DEF Answer
    <2> HIDE DEF lo, hi
    <2>4. Len(board) < hi
      <3> SUFFICES ASSUME hi <= Len(board) PROVE FALSE
        BY <2>2, <1>1
      <3>1. Answer = (lo + 1)..hi
        BY <2>2, <2>3, <1>1
      <3>2. Cardinality(Answer) = PageSize
        BY <3>1, <2>1, <2>2, FS_Interval
      <3> QED
        BY <3>2, <1>7 DEF More
    <2>5. Before(word, page + 1, mute) = {i \in 1..Len(board) : i <= hi}
      BY <2>1, <1>5 DEF hi
    <2>6. Before(word, page + 1, mute) = 1..Len(board)
      <3>1. \A i \in 1..Len(board) : i <= hi
        BY <2>2, <2>4, <1>1
      <3> QED
        BY <2>5, <3>1
    <2> QED
      BY <2>6, <1>7 DEF Reach
  <1>8. CASE provider \notin {"jobicy", "lever"}
    <2>1. page = 1 /\ Batch = MaxListed /\ MaxListed \in Nat
      BY <1>8 DEF Asked, Batch
    <2>2. page * Batch = MaxListed
      BY <2>1
    <2>3. Before(word, page + 1, mute) = 1..Len(board)
      <3>1. \A i \in 1..Len(board) : i <= page * Batch
        BY <2>1, <2>2, <1>1
      <3> QED
        BY <1>5, <3>1
    <2> QED
      BY <1>8, <2>3 DEF Reach
  <1> QED
    BY <1>6, <1>7, <1>8

------------------------------------------------------------------------------
\* The board is empty at first.
LEMMA InitIInv == Init => IInv
  <1> SUFFICES ASSUME Init PROVE IInv
    OBVIOUS
  <1> USE BoardAssumption DEF Init
  <1>1. TypeOK
    BY DEF TypeOK
  <1>2. StoredAdmissible
    BY DEF StoredAdmissible
  <1>3. OneOfEach /\ Asked /\ Collecting /\ WholeList /\ StillRows /\ FewPassedOver
    BY DEF OneOfEach, Asked, Collecting, WholeList, StillRows, FewPassedOver
  <1> QED
    BY <1>1, <1>2, <1>3 DEF IInv

\* One more of a few.
LEMMA OneMore ==
  ASSUME NEW S, IsFiniteSet(S), NEW n \in Nat, Cardinality(S) <= n, NEW x, NEW T
  PROVE  /\ T \subseteq S => IsFiniteSet(T) /\ Cardinality(T) <= n
         /\ T \subseteq S \union {x} => IsFiniteSet(T) /\ Cardinality(T) <= n + 1
  <1>1. Cardinality(S) \in Nat
    BY FS_CardinalityType
  <1>2. ASSUME T \subseteq S PROVE IsFiniteSet(T) /\ Cardinality(T) <= n
    <2>1. IsFiniteSet(T) /\ Cardinality(T) <= Cardinality(S)
      BY <1>2, FS_Subset
    <2>2. Cardinality(T) \in Nat
      BY <2>1, FS_CardinalityType
    <2> QED
      BY <1>1, <2>1, <2>2
  <1>3. ASSUME T \subseteq S \union {x} PROVE IsFiniteSet(T) /\ Cardinality(T) <= n + 1
    <2>1. IsFiniteSet(S \union {x}) /\ Cardinality(S \union {x}) \in {Cardinality(S), Cardinality(S) + 1}
      BY FS_AddElement
    <2>2. IsFiniteSet(T) /\ Cardinality(T) <= Cardinality(S \union {x})
      BY <1>3, <2>1, FS_Subset
    <2>3. Cardinality(T) \in Nat
      BY <2>2, FS_CardinalityType
    <2> QED
      BY <1>1, <2>1, <2>2, <2>3
  <1> QED
    BY <1>2, <1>3

\* A change of the board leaves the run where it is: what was listed throughout
\* gets less, what was listed at some moment gets more.  A posting at most slips past.
LEMMA ChangeStep ==
  ASSUME IInv, NEW listing \in Seq(Offer), Len(listing) <= MaxListed,
         \A i, j \in 1..Len(listing) : listing[i].key = listing[j].key => i = j,
         NEW gone \in {0, 1}, Change(listing, gone),
         NEW x,
         pc # "idle" /\ provider = "lever" =>
           \/ PassedOver' \subseteq PassedOver
           \/ gone = 1 /\ PassedOver' \subseteq PassedOver \union {x}
  PROVE  IInv'
  <1> USE BoardAssumption
  <1>1. /\ board' = listing /\ UNCHANGED <<provider, pc, word, page, attempt, rows, details, job>>
        /\ Listed' = {listing[i] : i \in 1..Len(listing)} /\ Listed' \subseteq Offer
    BY DEF Change, fetch, Listed
  <1>2. /\ TypeOK /\ StoredAdmissible /\ OneOfEach /\ Asked /\ Collecting /\ WholeList
        /\ FewPassedOver
    BY DEF IInv
  <1>3. CASE pc = "idle"
    <2>1. UNCHANGED history
      BY <1>3 DEF Change
    <2> QED
      BY <1>1, <1>2, <1>3, <2>1
         DEF history, IInv, TypeOK, StoredAdmissible, OneOfEach, Asked, Collecting,
             WholeList, StillRows, FewPassedOver
  <1>4. CASE pc # "idle"
    <2>1. /\ changes' = changes + 1 /\ changes' \in 1..MaxChanges
          /\ shown' = shown \union Listed' /\ steady' = steady \intersect Listed'
          /\ withdrawn' = withdrawn + gone /\ withdrawn' \in 0..changes' /\ untold' = untold
          /\ withdrawn \in Nat
      BY <1>1, <1>2, <1>4 DEF Change, TypeOK
    <2>2. TypeOK'
      BY <1>1, <1>2, <2>1 DEF TypeOK
    <2>3. (StoredAdmissible /\ OneOfEach /\ Asked)'
      BY <1>1, <1>2, <2>1 DEF StoredAdmissible, OneOfEach, Asked
    <2>4. Collecting'
      <3>1. (Listed \union rows \subseteq shown /\ steady \subseteq Listed)'
        BY <1>1, <1>2, <1>4, <2>1 DEF Collecting
      <3>2. ASSUME NEW r \in steady', NEW q \in shown', r.key = q.key PROVE r = q
        <4>1. r \in steady /\ r \in Listed' /\ (q \in shown \/ q \in Listed')
          BY <2>1
        <4>2. CASE q \in shown
          BY <1>2, <1>4, <3>2, <4>1, <4>2 DEF Collecting
        <4>3. CASE q \in Listed'
          BY <1>1, <3>2, <4>1, <4>3
        <4> QED
          BY <4>1, <4>2, <4>3
      <3> QED
        BY <3>1, <3>2 DEF Collecting
    <2>5. WholeList'
      BY <1>1, <1>2, <2>1 DEF WholeList
    <2>6. StillRows'
      BY <2>1 DEF StillRows
    <2>7. FewPassedOver'
      <3> SUFFICES ASSUME provider = "lever"
                   PROVE  IsFiniteSet(PassedOver') /\ Cardinality(PassedOver') <= withdrawn'
        BY <1>1 DEF FewPassedOver
      <3>1. IsFiniteSet(PassedOver) /\ Cardinality(PassedOver) <= withdrawn
        BY <1>2, <1>4 DEF FewPassedOver
      <3>2. CASE PassedOver' \subseteq PassedOver
        <4>1. IsFiniteSet(PassedOver') /\ Cardinality(PassedOver') <= withdrawn
          BY <2>1, <3>1, <3>2, OneMore
        <4>2. Cardinality(PassedOver') \in Nat
          BY <4>1, FS_CardinalityType
        <4> QED
          BY <2>1, <4>1, <4>2
      <3>3. CASE gone = 1 /\ PassedOver' \subseteq PassedOver \union {x}
        BY <2>1, <3>1, <3>3, OneMore
      <3> QED
        BY <1>4, <3>2, <3>3
    <2> QED
      BY <2>2, <2>3, <2>4, <2>5, <2>6, <2>7 DEF IInv
  <1> QED
    BY <1>3, <1>4

\* Where a posting that has been passed over is on a board that changes.
LEMMA Passing ==
  ASSUME IInv, pc # "idle", NEW listing, NEW gone, Change(listing, gone),
         NEW q \in PassedOver'
  PROVE  /\ \E j \in 1..Len(board) : board[j] = q
         /\ \E i \in 1..Len(listing) :
              listing[i] = q /\ (pc = "fetching" => i <= (page - 1) * PageSize)
         /\ \A j \in 1..Len(board) :
              board[j] = q /\ (pc = "fetching" => j <= (page - 1) * PageSize) => q \in PassedOver
  <1>1. /\ board' = listing /\ UNCHANGED <<provider, pc, page, rows>> /\ steady' \subseteq steady
    BY DEF Change, fetch
  <1>2. q \in steady /\ q \notin rows /\ steady \subseteq Listed
    BY <1>1 DEF PassedOver, IInv, Collecting
  <1> QED
    BY <1>1, <1>2 DEF PassedOver, Behind, Listed

\* Postings come, go and are edited, one of a key at a time.
LEMMA EnvironmentStep == IInv /\ Environment => IInv'
  <1> SUFFICES ASSUME IInv, Environment PROVE IInv'
    OBVIOUS
  <1> USE BoardAssumption
  <1> DEFINE n == Len(board)
  <1>1. board \in Seq(Offer) /\ n \in Nat /\ n <= MaxListed /\ MaxListed \in Nat
    BY DEF IInv, TypeOK
  <1>2. \A i, j \in 1..n : board[i].key = board[j].key => i = j
    BY DEF IInv, OneOfEach
  <1>3. ASSUME NEW p \in Offer, Post(p) PROVE IInv'
    <2> DEFINE listing == <<p>> \o board
    <2>1. listing \in Seq(Offer) /\ Len(listing) = n + 1 /\ Len(listing) <= MaxListed
      BY <1>1, <1>3 DEF Post
    <2>2. \A i \in 1..(n + 1) : listing[i] = IF i = 1 THEN p ELSE board[i - 1]
      BY <1>1
    <2>3. \A i \in 1..n : board[i].key # p.key
      BY <1>3 DEF Post, Keys, Listed
    <2> HIDE DEF listing
    <2>4. \A i, j \in 1..(n + 1) : listing[i].key = listing[j].key => i = j
      <3> SUFFICES ASSUME NEW i \in 1..(n + 1), NEW j \in 1..(n + 1),
                          listing[i].key = listing[j].key
                   PROVE  i = j
        OBVIOUS
      <3>1. i # 1 => i - 1 \in 1..n /\ listing[i] = board[i - 1]
        BY <1>1, <2>2
      <3>2. j # 1 => j - 1 \in 1..n /\ listing[j] = board[j - 1]
        BY <1>1, <2>2
      <3>3. listing[1] = p
        BY <1>1, <2>2
      <3>4. i - 1 = j - 1 => i = j
        BY <1>1
      <3> QED
        BY <1>2, <2>3, <3>1, <3>2, <3>3, <3>4
    <2>5. Change(listing, 0)
      BY <1>3 DEF Post, listing
    <2>6. ASSUME pc # "idle", provider = "lever", NEW q \in PassedOver' PROVE q \in PassedOver
      <3>1. PICK i \in 1..(n + 1) :
              listing[i] = q /\ (pc = "fetching" => i <= (page - 1) * PageSize)
        BY <2>1, <2>5, <2>6, Passing
      <3>2. i # 1 /\ i - 1 \in 1..n /\ board[i - 1] = q
        <4>1. \E j \in 1..n : board[j] = q
          BY <2>5, <2>6, Passing
        <4>2. i # 1
          BY <1>1, <2>2, <2>3, <3>1, <4>1
        <4> QED
          BY <1>1, <2>2, <3>1, <4>2
      <3>3. pc = "fetching" => i - 1 <= (page - 1) * PageSize
        BY <3>1, <1>1, Pages DEF IInv, TypeOK
      <3> QED
        BY <2>5, <2>6, <3>2, <3>3, Passing
    <2>7. \A i, j \in 1..Len(listing) : listing[i].key = listing[j].key => i = j
      BY <2>1, <2>4
    <2> QED
      BY <2>1, <2>5, <2>6, <2>7, ChangeStep
  <1>4. ASSUME NEW at \in 1..n, Withdraw(at) PROVE IInv'
    <2> DEFINE listing == [j \in 1..(n - 1) |-> IF j < at THEN board[j] ELSE board[j + 1]]
    <2>1. n - 1 \in Nat /\ \A j \in 1..(n - 1) : j \in 1..n /\ j + 1 \in 1..n
      BY <1>1
    <2>2. listing \in Seq(Offer) /\ Len(listing) = n - 1
      BY <1>1, <2>1
    <2>3. \A j \in 1..(n - 1) : listing[j] = IF j < at THEN board[j] ELSE board[j + 1]
      OBVIOUS
    <2>4. Change(listing, 1)
      BY <1>4 DEF Withdraw
    <2> HIDE DEF listing
    <2>5. \A i, j \in 1..(n - 1) : listing[i].key = listing[j].key => i = j
      <3> SUFFICES ASSUME NEW i \in 1..(n - 1), NEW j \in 1..(n - 1),
                          listing[i].key = listing[j].key
                   PROVE  i = j
        OBVIOUS
      <3> DEFINE old(k) == IF k < at THEN k ELSE k + 1
      <3>1. old(i) \in 1..n /\ old(j) \in 1..n
        BY <2>1
      <3>2. listing[i] = board[old(i)] /\ listing[j] = board[old(j)]
        BY <2>3
      <3>3. old(i) = old(j)
        BY <1>2, <3>1, <3>2
      <3> QED
        BY <1>1, <3>3
    <2>6. Len(listing) <= MaxListed
      BY <1>1, <2>2
    <2>7. \A i, j \in 1..Len(listing) : listing[i].key = listing[j].key => i = j
      BY <2>2, <2>5
    <2> DEFINE x == board[(page - 1) * PageSize + 1]
    <2>8. ASSUME pc # "idle", provider = "lever", NEW q \in PassedOver', q # x
          PROVE  q \in PassedOver
      <3>1. PICK i \in 1..(n - 1) :
              listing[i] = q /\ (pc = "fetching" => i <= (page - 1) * PageSize)
        BY <2>2, <2>4, <2>8, Passing
      <3>2. \/ i \in 1..n /\ board[i] = q
            \/ i + 1 \in 1..n /\ board[i + 1] = q
        BY <2>1, <2>3, <3>1
      <3>3. CASE i \in 1..n /\ board[i] = q
        BY <2>4, <2>8, <3>1, <3>3, Passing
      <3>4. CASE i + 1 \in 1..n /\ board[i + 1] = q
        <4> DEFINE border == (page - 1) * PageSize
        <4>1. border \in Nat
          BY Pages DEF IInv, TypeOK
        <4>2. i # border
          BY <2>8, <3>4
        <4> HIDE DEF border
        <4>3. pc = "fetching" => i + 1 <= border
          BY <1>1, <3>1, <4>1, <4>2 DEF border
        <4> QED
          BY <2>4, <2>8, <3>4, <4>3, Passing DEF border
      <3> QED
        BY <3>2, <3>3, <3>4
    <2> HIDE DEF x
    <2>9. pc # "idle" /\ provider = "lever" => PassedOver' \subseteq PassedOver \union {x}
      BY <2>8
    <2> QED
      BY <2>2, <2>4, <2>6, <2>7, <2>9, ChangeStep
  <1>5. ASSUME NEW p \in Offer, Edit(p) PROVE IInv'
    <2> DEFINE listing == [i \in 1..n |-> IF board[i].key = p.key THEN p ELSE board[i]]
    <2>1. listing \in Seq(Offer) /\ Len(listing) = n
      BY <1>1
    <2>2. \A i \in 1..n : listing[i].key = board[i].key
      OBVIOUS
    <2>3. Change(listing, 0)
      BY <1>5 DEF Edit
    <2> HIDE DEF listing
    <2>4. \A i, j \in 1..n : listing[i].key = listing[j].key => i = j
      BY <1>2, <2>2
    <2>5. ASSUME pc # "idle", provider = "lever", NEW q \in PassedOver' PROVE q \in PassedOver
      <3>1. PICK i \in 1..n : listing[i] = q /\ (pc = "fetching" => i <= (page - 1) * PageSize)
        BY <2>1, <2>3, <2>5, Passing
      <3>2. q # p
        <4>1. \E j \in 1..n : board[j] = q
          BY <2>3, <2>5, Passing
        <4> QED
          BY <1>5, <4>1 DEF Edit, Listed
      <3>3. board[i] = q
        BY <3>1, <3>2 DEF listing
      <3> QED
        BY <2>3, <2>5, <3>1, <3>3, Passing
    <2>6. \A i, j \in 1..Len(listing) : listing[i].key = listing[j].key => i = j
      BY <2>1, <2>4
    <2> QED
      BY <1>1, <2>1, <2>3, <2>5, <2>6, ChangeStep
  <1> QED
    BY <1>3, <1>4, <1>5 DEF Environment

\* A run starts with what is listed and ends with nothing in hand.
LEMMA EndsStep ==
  ASSUME IInv, Begin \/ (Finish /\ UNCHANGED <<provider, board>>
                           /\ (StoredAdmissible)'
                           /\ job' \in [Key -> {None} \union
                                [content : Content, verdict : {"match", "review"}, open : BOOLEAN]])
  PROVE  IInv'
  <1> USE BoardAssumption
  <1>1. TypeOK /\ StoredAdmissible /\ OneOfEach
    BY DEF IInv
  <1>2. Listed \subseteq Offer
    BY <1>1 DEF TypeOK, Listed
  <1>3. CASE Begin
    <2>1. TypeOK'
      BY <1>1, <1>2, <1>3 DEF Begin, TypeOK
    <2>2. (StoredAdmissible /\ OneOfEach /\ Asked)'
      BY <1>1, <1>3 DEF Begin, StoredAdmissible, OneOfEach, Asked
    <2>3. (Collecting /\ WholeList)'
      <3>1. \A p, q \in Listed : p.key = q.key => p = q
        BY <1>1 DEF OneOfEach, Listed
      <3> QED
        BY <1>3, <3>1 DEF Begin, Collecting, WholeList, Listed
    <2>4. StillRows'
      <3>1. /\ pc' = "fetching" /\ rows' = {} /\ word' = 1 /\ page' = 1
            /\ UNCHANGED <<provider, board>>
        BY <1>3 DEF Begin
      <3>2. \A i \in Listing(1) : Rank(1, i) \in Nat \ {0}
        BY <1>1, Places
      <3>3. Before(1, 1, {}) = {}
        <4>1. (1 - 1) * Batch = 0 /\ \A w \in 1..1 : w = 1 /\ ~(w < 1)
          BY BatchType
        <4>2. \A i : i \in Before(1, 1, {}) => i \in Listing(1) /\ Rank(1, i) <= (1 - 1) * Batch
          BY <4>1, InBefore
        <4>3. \A i : i \in Before(1, 1, {}) => i \in Listing(1) /\ Rank(1, i) <= 0
          BY <4>1, <4>2
        <4> QED
          BY <4>3, <3>2
      <3>4. Before(1, 1, {})' = {}
        BY <3>1, <3>3 DEF Before, Listing, Rank, Batch, Span
      <3>5. Before(word, page, untold)' = {}
        BY <1>3, <3>4 DEF Begin
      <3> QED
        BY <3>1, <3>5 DEF StillRows
    <2>5. FewPassedOver'
      <3>1. Len(board) \in Nat /\ (1 - 1) * PageSize = 0
        BY <1>1 DEF TypeOK
      <3>2. Behind' = {}
        BY <1>3, <3>1 DEF Begin, Behind
      <3>3. PassedOver' = {}
        BY <3>2 DEF PassedOver
      <3> QED
        BY <1>3, <3>3, FS_EmptySet DEF Begin, FewPassedOver
    <2> QED
      BY <2>1, <2>2, <2>3, <2>4, <2>5 DEF IInv
  <1>4. CASE ~Begin
    <2>1. /\ Finish /\ UNCHANGED <<provider, board>> /\ StoredAdmissible'
          /\ job' \in [Key -> {None} \union
               [content : Content, verdict : {"match", "review"}, open : BOOLEAN]]
      BY <1>4
    <2>2. TypeOK'
      BY <1>1, <2>1 DEF Finish, TypeOK
    <2>3. (OneOfEach /\ Asked /\ Collecting /\ WholeList /\ StillRows /\ FewPassedOver)'
      BY <1>1, <2>1 DEF Finish, OneOfEach, Asked, Collecting, WholeList, StillRows, FewPassedOver
    <2> QED
      BY <2>1, <2>2, <2>3 DEF IInv
  <1> QED
    BY <1>3, <1>4

\* A page adds to the rows of a still board what the request reaches of it.
LEMMA PageRows ==
  ASSUME IInv, pc = "fetching", changes = 0
  PROVE  rows \union {p \in Kept : p.key \notin Keys(rows)}
           = {p \in {board[i] : i \in Before(word, page + 1, untold)} : ~Hidden(p)}
  <1> DEFINE old == Before(word, page, untold)
             all == Before(word, page + 1, untold)
  <1>1. rows = {p \in {board[i] : i \in old} : ~Hidden(p)}
    BY DEF IInv, StillRows
  <1>2. old \union Answer = all
    BY NextPage DEF IInv
  <1>3. Answer \subseteq 1..Len(board) /\ old \subseteq 1..Len(board)
    <2>1. \A w : Listing(w) \subseteq 1..Len(board)
      BY Places DEF IInv
    <2> QED
      BY <2>1 DEF Answer, Before
  <1> HIDE DEF old, all
  <1>4. ASSUME NEW p \in Kept, p.key \in Keys(rows) PROVE p \in rows
    <2>1. PICK i \in Answer : p = board[i]
      BY <1>4 DEF Kept
    <2>2. PICK j \in old : board[j].key = p.key /\ ~Hidden(board[j])
      BY <1>1, <1>4 DEF Keys
    <2>3. i = j
      BY <1>3, <2>1, <2>2 DEF IInv, OneOfEach
    <2> QED
      BY <1>1, <2>1, <2>2, <2>3
  <1>5. rows \union {p \in Kept : p.key \notin Keys(rows)} = rows \union Kept
    BY <1>4
  <1>6. rows \union Kept = {p \in {board[i] : i \in all} : ~Hidden(p)}
    BY <1>1, <1>2 DEF Kept
  <1> QED
    BY <1>5, <1>6 DEF all

\* What a run that reads one whole list keeps of the postings that stayed.
LEMMA PageWhole ==
  ASSUME IInv, pc = "fetching", provider \in {"ashby", "greenhouse", "remotive"}
  PROVE  /\ \A told : ~More(told)
         /\ rows = {}
         /\ {p \in steady : ~p.content.hidden} \subseteq Kept
  <1>1. \A told : ~More(told)
    BY DEF More
  <1>2. word = 1 /\ page = 1 /\ rows = {}
    BY DEF IInv, Asked
  <1>3. Batch = MaxListed /\ MaxListed \in Nat /\ Len(board) \in Nat /\ Len(board) <= MaxListed
    BY BoardAssumption DEF Batch, IInv, TypeOK
  <1>4. Listing(1) = 1..Len(board) /\ \A i \in 1..Len(board) : Rank(1, i) = i
    BY RankIsPlace DEF IInv
  <1>5. (page - 1) * Batch = 0 /\ page * Batch = MaxListed
    BY <1>2, <1>3
  <1>6. ASSUME NEW i \in 1..Len(board) PROVE i \in Answer
    BY <1>2, <1>3, <1>4, <1>5 DEF Answer
  <1>7. steady \subseteq Listed
    BY DEF IInv, Collecting
  <1>8. \A p \in Listed : ~p.content.hidden => p \in Kept
    BY <1>6 DEF Kept, Listed, Hidden
  <1> QED
    BY <1>1, <1>2, <1>7, <1>8

\* Where the requests of Lever are.
LEMMA LeverPlaces ==
  ASSUME TypeOK, Asked, provider = "lever", NEW n \in Nat \ {0}, NEW mute
  PROVE  Before(word, n, mute) = {i \in 1..Len(board) : i <= (n - 1) * PageSize}
  <1>1. word = 1 /\ 1 \in 1..1 /\ \A w \in 1..1 : w = 1 /\ ~(w < 1)
    BY DEF Asked
  <1>2. Listing(1) = 1..Len(board) /\ \A i \in 1..Len(board) : Rank(1, i) = i
    BY RankIsPlace
  <1>3. Batch = PageSize
    BY DEF Batch
  <1>4. ASSUME NEW i
        PROVE  i \in Before(1, n, mute) <=> i \in 1..Len(board) /\ i <= (n - 1) * PageSize
    <2>1. i \in Before(1, n, mute) <=>
            \E w \in 1..1 : i \in Listing(w) /\
              Rank(w, i) <= IF w < 1 THEN Span(w, mute) ELSE (n - 1) * Batch
      BY InBefore
    <2>2. i \in Before(1, n, mute) <=> i \in Listing(1) /\ Rank(1, i) <= (n - 1) * Batch
      BY <1>1, <2>1
    <2> QED
      BY <1>2, <1>3, <2>2
  <1> QED
    BY <1>1, <1>4

\* A page of Lever passes over nothing that is on it.
LEMMA PagePasses ==
  ASSUME IInv, provider = "lever", pc = "fetching", NEW told, NEW q \in steady,
         q \notin rows \union {p \in Kept : p.key \notin Keys(rows)},
         NEW i \in 1..Len(board), board[i] = q, More(told) => i <= page * PageSize
  PROVE  q \in PassedOver
  <1>1. TypeOK /\ Asked /\ Collecting
    BY DEF IInv
  <1>2. page \in Nat \ {0} /\ page + 1 \in Nat \ {0} /\ (page + 1) - 1 = page
    BY <1>1 DEF TypeOK
  <1>3. i \in Before(word, page + 1, untold)
    <2>1. CASE More(told)
      BY <1>1, <1>2, <2>1, LeverPlaces
    <2>2. CASE ~More(told)
      BY <1>1, <2>2, ListEnds DEF Reach
    <2> QED
      BY <2>1, <2>2
  <1>4. i \in Before(word, page, untold) \/ i \in Answer
    BY <1>1, <1>3, NextPage
  <1>5. i \notin Answer
    <2> SUFFICES ASSUME i \in Answer PROVE FALSE
      OBVIOUS
    <2>1. q \in Kept /\ q \notin rows
      BY DEF Kept, Hidden
    <2>2. PICK r \in rows : r.key = q.key
      BY <2>1 DEF Keys
    <2>3. r = q
      BY <1>1, <2>2 DEF Collecting
    <2> QED
      BY <2>1, <2>2, <2>3
  <1>6. i <= (page - 1) * PageSize
    BY <1>1, <1>2, <1>4, <1>5, LeverPlaces
  <1> QED
    BY <1>6 DEF PassedOver, Behind

\* A page keeps the invariant.
LEMMA PageStep ==
  ASSUME IInv, Page
  PROVE  IInv'
  <1> USE BoardAssumption
  <1> DEFINE all == rows \union {p \in Kept : p.key \notin Keys(rows)}
  <1>1. TypeOK /\ StoredAdmissible /\ OneOfEach /\ Asked /\ Collecting
    BY DEF IInv
  <1>2. /\ pc = "fetching" /\ rows' = all /\ attempt' = 0
        /\ UNCHANGED <<provider, board, job, shown, steady, changes, withdrawn>>
    BY DEF Page
  <1>3. /\ Kept \subseteq Listed /\ Listed \subseteq Offer /\ Listed \union rows \subseteq shown
        /\ \A p, q \in Kept : p.key = q.key => p = q
    <2>1. Answer \subseteq 1..Len(board)
      BY <1>1, Places DEF Answer
    <2>2. Listed \subseteq Offer
      BY <1>1 DEF TypeOK, Listed
    <2>3. Kept \subseteq Listed
      BY <2>1 DEF Kept, Listed
    <2>4. \A p, q \in Kept : p.key = q.key => p = q
      BY <2>1, <1>1 DEF Kept, OneOfEach
    <2> QED
      BY <2>2, <2>3, <2>4, <1>1, <1>2 DEF Collecting
  <1>4. all \subseteq Offer /\ all \subseteq shown /\ \A p, q \in all : p.key = q.key => p = q
    BY <1>1, <1>3 DEF TypeOK, OneOfEach, Keys
  <1>5. PICK told \in BOOLEAN :
          /\ told \/ (provider = "dice" /\ page = 1)
          /\ ~(provider = "lever" /\ More(told) /\ page = PageLimit)
          /\ \/ /\ More(told) /\ page' = page + 1 /\ UNCHANGED <<pc, word, details>>
             \/ /\ ~More(told) /\ provider = "dice" /\ word < Words
                /\ word' = word + 1 /\ page' = 1 /\ UNCHANGED <<pc, details>>
             \/ /\ ~More(told) /\ ~(provider = "dice" /\ word < Words)
                /\ Collected(all) /\ UNCHANGED <<word, page>>
          /\ untold' = IF told THEN untold ELSE untold \union {word}
    BY DEF Page
  <1>6. /\ More(told) => provider \in {"lever", "dice"} /\ told
        /\ provider = "dice" /\ More(told) => page < 2
        /\ provider = "lever" /\ More(told) => page # PageLimit
        /\ provider # "dice" => told
    BY <1>5 DEF More
  <1>7. Collected(all) => /\ details' \subseteq all /\ pc' \in {"details", "collected"}
    BY DEF Collected
  <1> HIDE DEF all
  <1>8. TypeOK'
    <2>1. word \in 1..Words /\ page \in 1..(IF provider = "dice" THEN 2 ELSE PageLimit)
          /\ details \subseteq Offer /\ untold \subseteq 1..Words
      BY <1>1 DEF TypeOK
    <2>2. details' \subseteq Offer /\ pc' \in {"fetching", "details", "collected"}
      BY <1>2, <1>4, <1>5, <1>7, <2>1
    <2>3. word' \in 1..Words /\ page' \in 1..(IF provider = "dice" THEN 2 ELSE PageLimit)
      BY <1>5, <1>6, <2>1
    <2>4. untold' \subseteq 1..Words
      BY <1>5, <2>1
    <2> QED
      BY <1>1, <1>2, <1>4, <2>2, <2>3, <2>4 DEF TypeOK
  <1>9. (StoredAdmissible /\ OneOfEach)'
    BY <1>1, <1>2, <1>4 DEF StoredAdmissible, OneOfEach
  <1>10. Collecting'
    <2>1. Listed \union all \subseteq shown
      BY <1>3, <1>4
    <2> QED
      BY <1>1, <1>2, <2>1 DEF Collecting, Listed
  <1>11. Asked'
    <2>1. page \in Nat /\ word \in Nat /\ page >= 1 /\ word >= 1 /\ untold \subseteq Nat
      BY <1>1 DEF TypeOK
    <2>2. /\ provider # "dice" => word' = 1
          /\ provider \notin {"lever", "dice"} => page' = 1
          /\ ~(pc' = "fetching" /\ word' = 1 /\ page' = 1)
      BY <1>1, <1>2, <1>5, <1>6, <1>7, <2>1 DEF Asked
    <2>3. pc' = "fetching" => \A w \in untold' : w < word'
      BY <1>1, <1>2, <1>5, <1>6, <1>7, <2>1 DEF Asked
    <2> QED
      BY <1>2, <2>2, <2>3 DEF Asked
  <1>12. WholeList'
    <2> SUFFICES ASSUME provider \in {"ashby", "greenhouse", "remotive"}
                 PROVE  {p \in steady : ~p.content.hidden} \subseteq all
      BY <1>2 DEF WholeList
    <2>1. rows = {} /\ {p \in steady : ~p.content.hidden} \subseteq Kept
      BY <1>2, PageWhole
    <2> QED
      BY <2>1 DEF all, Keys
  <1>13. StillRows'
    <2> DEFINE mute == untold'
               Whole == UNION {{i \in Listing(w) : Rank(w, i) <= Span(w, mute)} : w \in 1..Words}
    <2> SUFFICES ASSUME changes = 0
                 PROVE  /\ pc' = "fetching" =>
                             all = {p \in {board[i] : i \in Before(word', page', mute)} : ~Hidden(p)}
                        /\ pc' \in {"details", "collected"} => all = Reachable'
      <3>1. Before(word, page, untold)' = Before(word', page', mute)
        BY <1>2 DEF Before, Batch, Rank, Listing, Span
      <3> QED
        BY <1>2, <3>1 DEF StillRows, Hidden
    <2>1. all = {p \in {board[i] : i \in Before(word, page + 1, untold)} : ~Hidden(p)}
      BY <1>2, PageRows DEF all
    <2>2. Reach' = IF provider = "dice" THEN Whole ELSE Reach
      <3>1. CASE provider = "dice"
        BY <1>2, <3>1 DEF Reach, Rank, Listing, Span
      <3>2. CASE provider # "dice"
        BY <1>2, <3>2 DEF Reach
      <3> QED
        BY <3>1, <3>2
    <2>3. Reachable' = {p \in {board[i] : i \in Reach'} : ~Hidden(p)}
      BY <1>2 DEF Reachable, Hidden
    <2>4. CASE More(told)
      BY <1>2, <1>5, <1>6, <2>1, <2>4
    <2>5. CASE ~More(told) /\ provider = "dice"
      <3>1. word \notin untold
        BY <1>1, <1>2 DEF Asked, TypeOK
      <3>2. mute = IF told THEN untold ELSE untold \union {word}
        BY <1>5
      <3> HIDE DEF mute, Whole
      <3>3. /\ Before(word, page + 1, untold) = Before(word + 1, 1, mute)
            /\ word = Words => Before(word, page + 1, untold) = Whole
        BY <1>1, <1>5, <2>5, <3>1, <3>2, WordEnds DEF Whole
      <3>4. word < Words \/ word = Words
        BY <1>1 DEF TypeOK
      <3>5. CASE word < Words
        BY <1>2, <1>5, <2>1, <2>5, <3>3, <3>5
      <3>6. CASE word = Words
        <4>1. pc' \in {"details", "collected"}
          BY <1>5, <1>7, <2>5, <3>6
        <4>2. Reach' = Before(word, page + 1, untold)
          BY <2>2, <2>5, <3>3, <3>6
        <4> QED
          BY <2>1, <2>3, <4>1, <4>2
      <3> QED
        BY <3>4, <3>5, <3>6
    <2>6. CASE ~More(told) /\ provider # "dice"
      <3>1. Before(word, page + 1, untold) = Reach
        BY <1>1, <2>6, ListEnds
      <3> QED
        BY <1>5, <1>7, <2>1, <2>2, <2>3, <2>6, <3>1
    <2> QED
      BY <2>4, <2>5, <2>6
  <1>14. FewPassedOver'
    <2> SUFFICES ASSUME provider = "lever"
                 PROVE  IsFiniteSet(PassedOver') /\ Cardinality(PassedOver') <= withdrawn
      BY <1>2 DEF FewPassedOver
    <2>1. ASSUME NEW q \in PassedOver' PROVE q \in PassedOver
      <3>1. q \in steady /\ q \notin all
        BY <1>2 DEF PassedOver
      <3>2. PICK i \in 1..Len(board) :
              board[i] = q /\ (pc' = "fetching" => i <= (page' - 1) * PageSize)
        BY <1>2 DEF PassedOver, Behind
      <3>3. (page + 1) - 1 = page
        BY <1>1 DEF TypeOK
      <3>4. More(told) => i <= page * PageSize
        BY <1>2, <1>5, <3>2, <3>3
      <3> QED
        BY <1>2, <3>1, <3>2, <3>4, PagePasses DEF all
    <2>2. withdrawn \in Nat /\ IsFiniteSet(PassedOver) /\ Cardinality(PassedOver) <= withdrawn
      BY <1>1, <1>2 DEF IInv, FewPassedOver, TypeOK
    <2> QED
      BY <2>1, <2>2, OneMore
  <1> QED
    BY <1>8, <1>9, <1>10, <1>11, <1>12, <1>13, <1>14 DEF IInv

\* Retries and details change nothing that was collected.
LEMMA RequestStep ==
  ASSUME IInv, Retry \/ Detail \/ DetailsDone
  PROVE  IInv'
  <1> USE BoardAssumption
  <1>1. /\ UNCHANGED <<provider, board, word, page, rows, job, shown, steady, changes, withdrawn,
                        untold>>
        /\ pc' = pc \/ (pc = "details" /\ pc' = "collected")
        /\ attempt' \in 0..2 /\ details' \subseteq Offer
    BY DEF Retry, Detail, DetailsDone, fetch, history, IInv, TypeOK
  <1>2. (TypeOK /\ StoredAdmissible /\ OneOfEach /\ Asked /\ Collecting /\ WholeList)'
    BY <1>1 DEF IInv, TypeOK, StoredAdmissible, OneOfEach, Asked, Collecting, WholeList, Listed
  <1>3. StillRows'
    <2>1. Before(word, page, untold)' = Before(word, page, untold)
      BY <1>1 DEF Before, Batch, Rank, Listing, Span
    <2>2. Reachable' = Reachable
      BY <1>1 DEF Reachable, Reach, Rank, Listing, Span, Hidden
    <2>3. StillRows
      BY DEF IInv
    <2> QED
      BY <1>1, <2>1, <2>2, <2>3 DEF StillRows, Hidden
  <1>4. FewPassedOver'
    <2>1. pc # "idle" /\ FewPassedOver
      BY DEF Retry, Detail, DetailsDone, IInv
    <2>2. PassedOver' = PassedOver
      <3>1. Behind' = Behind
        BY <1>1 DEF Behind
      <3> QED
        BY <1>1, <3>1 DEF PassedOver
    <2> QED
      BY <1>1, <2>1, <2>2 DEF FewPassedOver
  <1> QED
    BY <1>2, <1>3, <1>4 DEF IInv

\* What a key's upsert writes is the row of the key.
LEMMA Written ==
  ASSUME IInv, NEW p \in Stored
  PROVE  /\ p.key \in Key /\ p.content \in Content /\ p = [key |-> p.key, content |-> p.content]
         /\ Upserted(p.key) = [content |-> p.content, verdict |-> Verdict(p.content), open |-> TRUE]
  <1>1. p \in rows /\ rows \subseteq Offer /\ \A q \in rows : p.key = q.key => p = q
    BY DEF Stored, IInv, TypeOK, OneOfEach
  <1>2. p.key \in Key /\ p.content \in Content /\ p = [key |-> p.key, content |-> p.content]
    BY <1>1, BoardAssumption
  <1>3. (CHOOSE q \in Stored : q.key = p.key) = p
    BY <1>1 DEF Stored
  <1> QED
    BY <1>2, <1>3 DEF Upserted

\* What the jobs are after the result transaction.
LEMMA StoreJobs ==
  ASSUME IInv, Store
  PROVE  /\ \A p \in Stored : job'[p.key] =
              [content |-> p.content, verdict |-> Verdict(p.content), open |-> TRUE]
         /\ \A k \in Key \ Keys(Stored) :
              IF job[k] = None THEN job'[k] = None
              ELSE job'[k] = [job[k] EXCEPT !.open = FALSE]
         /\ Open' = Keys(Stored)
  <1> USE BoardAssumption
  <1>1. \A k \in Key : job'[k] =
          IF k \in Keys(Stored) THEN Upserted(k)
          ELSE IF job[k] = None THEN None ELSE [job[k] EXCEPT !.open = FALSE]
    BY DEF Store
  <1>2. ASSUME NEW p \in Stored
        PROVE  job'[p.key] = [content |-> p.content, verdict |-> Verdict(p.content), open |-> TRUE]
    <2>1. p.key \in Key /\ p.key \in Keys(Stored)
      BY Written DEF Keys
    <2> QED
      BY <1>1, <2>1, Written
  <1>3. \A k \in Key \ Keys(Stored) :
          IF job[k] = None THEN job'[k] = None
          ELSE job'[k] = [job[k] EXCEPT !.open = FALSE]
    BY <1>1
  <1>4. Open' = Keys(Stored)
    <2>1. ASSUME NEW p \in Stored PROVE p.key \in Open'
      <3>1. p.key \in Key /\ p.content \in Content /\ Verdict(p.content) \in {"match", "review"}
        BY Written, Kinds DEF Stored
      <3> DEFINE row == [content |-> p.content, verdict |-> Verdict(p.content), open |-> TRUE]
      <3>2. row \in [content : Content, verdict : {"match", "review"}, open : BOOLEAN]
        BY <3>1
      <3>3. row # None /\ row.open
        BY <3>2
      <3> QED
        BY <1>2, <3>1, <3>3 DEF Open
    <2>2. ASSUME NEW k \in Key \ Keys(Stored) PROVE k \notin Open'
      <3>1. job[k] # None => job[k] \in [content : Content, verdict : {"match", "review"},
                                         open : BOOLEAN]
        BY DEF IInv, TypeOK
      <3> QED
        BY <1>3, <3>1 DEF Open
    <2> QED
      BY <2>1, <2>2 DEF Keys, Open
  <1> QED
    BY <1>2, <1>3, <1>4

\* The result transaction keeps the invariant.
LEMMA StoreStep ==
  ASSUME IInv, Store
  PROVE  IInv'
  <1> USE BoardAssumption
  <1> DEFINE Row == [content : Content, verdict : {"match", "review"}, open : BOOLEAN]
             Sound(r) == /\ "credential" \notin r.content.flags
                         /\ Geography(r.content) # "outside_us"
                         /\ r.verdict = "match" =>
                              r.content.flags = {} /\ Geography(r.content) = "us"
  <1>1. ASSUME NEW p \in Stored PROVE job'[p.key] \in Row /\ Sound(job'[p.key])
    <2>1. p.content \in Content /\ Eligible(p.content)
      BY Written DEF Stored
    <2>2. job'[p.key] = [content |-> p.content, verdict |-> Verdict(p.content), open |-> TRUE]
      BY StoreJobs
    <2> QED
      BY <2>1, <2>2, Kinds
  <1>2. ASSUME NEW k \in Key \ Keys(Stored)
        PROVE  job'[k] = None \/ (job'[k] \in Row /\ Sound(job'[k]))
    <2>1. job[k] = None \/ (job[k] \in Row /\ Sound(job[k]))
      BY DEF IInv, TypeOK, StoredAdmissible
    <2>2. IF job[k] = None THEN job'[k] = None
          ELSE job'[k] = [job[k] EXCEPT !.open = FALSE]
      BY StoreJobs
    <2> HIDE DEF Sound
    <2>3. ASSUME job[k] \in Row, Sound(job[k]), job'[k] = [job[k] EXCEPT !.open = FALSE]
          PROVE  job'[k] \in Row /\ Sound(job'[k])
      BY <2>3 DEF Sound
    <2> QED
      BY <2>1, <2>2, <2>3
  <1> HIDE DEF Row, Sound
  <1>3. \A k \in Key : job'[k] = None \/ (job'[k] \in Row /\ Sound(job'[k]))
    BY <1>1, <1>2 DEF Keys
  <1>4. job' \in [Key -> {None} \union Row]
    <2>1. job' = [k \in Key |-> job'[k]]
      BY DEF Store
    <2> QED
      BY <1>3, <2>1
  <1>5. StoredAdmissible'
    BY <1>3 DEF StoredAdmissible, Sound
  <1>6. Finish /\ UNCHANGED <<provider, board>>
    BY DEF Store
  <1> QED
    BY <1>4, <1>5, <1>6, EndsStep DEF Row

\* Every step keeps the invariant.
LEMMA NextIInv == IInv /\ [Next]_vars => IInv'
  <1> SUFFICES ASSUME IInv, [Next]_vars PROVE IInv'
    OBVIOUS
  <1>1. CASE Environment
    BY <1>1, EnvironmentStep
  <1>2. CASE Begin
    BY <1>2, EndsStep
  <1>3. CASE Page
    BY <1>3, PageStep
  <1>4. CASE Detail \/ DetailsDone \/ Retry
    BY <1>4, RequestStep
  <1>5. CASE Store
    BY <1>5, StoreStep
  <1>6. CASE Fail \/ GiveUp
    <2>1. Finish /\ UNCHANGED <<provider, board, job>>
      BY <1>6 DEF Fail, GiveUp
    <2>2. StoredAdmissible'
      BY <2>1 DEF IInv, StoredAdmissible
    <2> QED
      BY <2>1, <2>2, EndsStep DEF IInv, TypeOK
  <1>7. CASE UNCHANGED vars
    <2>1. UNCHANGED <<provider, board, pc, word, page, attempt, rows, details, job, shown, steady,
                      changes, withdrawn, untold>>
      BY <1>7 DEF vars, fetch, history
    <2>2. Before(word, page, untold)' = Before(word, page, untold)
      BY <2>1 DEF Before, Batch, Rank, Listing, Span
    <2>3. Reachable' = Reachable
      BY <2>1 DEF Reachable, Reach, Rank, Listing, Span, Hidden
    <2>4. StillRows'
      BY <2>1, <2>2, <2>3 DEF IInv, StillRows, Hidden
    <2>5. FewPassedOver'
      BY <2>1 DEF IInv, FewPassedOver, PassedOver, Behind
    <2> QED
      BY <2>1, <2>4, <2>5 DEF IInv, TypeOK, StoredAdmissible, OneOfEach, Asked, Collecting, WholeList,
                        Listed
  <1> QED
    BY <1>1, <1>2, <1>3, <1>4, <1>5, <1>6, <1>7 DEF Next, Fetch

------------------------------------------------------------------------------
\* The inductive invariant holds in every state of every run.
THEOREM Invariance == Spec => []IInv
  BY InitIInv, NextIInv, PTL DEF Spec

\* Variables have their types and no client asks past its last page, for any
\* postings, page sizes and numbers of search words.
THEOREM Typed == Spec => []TypeOK
  <1>1. IInv => TypeOK
    BY DEF IInv
  <1> QED
    BY <1>1, Invariance, PTL

\* Nothing with a secret or from abroad is ever stored, and a stored match is
\* clean and in the US (classify, run_one).
THEOREM Admissible == Spec => []StoredAdmissible
  <1>1. IInv => StoredAdmissible
    BY DEF IInv
  <1> QED
    BY <1>1, Invariance, PTL

\* A collection that completes while the board stands still leaves open exactly
\* the eligible postings that the provider's requests reach (collect, run_one).
THEOREM StillExact == Spec => StillBoardExact
  <1>1. ASSUME IInv, Next, pc = "collected", pc' = "idle", changes = 0
        PROVE  Open' = Keys({p \in Reachable : Eligible(p.content)})
    <2>1. Store
      BY <1>1 DEF Next, Environment, Post, Withdraw, Edit, Change, Begin, Fetch, Page, Detail,
                  DetailsDone, Retry, GiveUp, Fail
    <2>2. Open' = Keys(Stored)
      BY <1>1, <2>1, StoreJobs
    <2>3. rows = Reachable
      BY <1>1 DEF IInv, StillRows
    <2> QED
      BY <2>2, <2>3 DEF Stored
  <1>2. IInv /\ [Next]_vars =>
          [pc = "collected" /\ pc' = "idle" /\ changes = 0 =>
             Open' = Keys({p \in Reachable : Eligible(p.content)})]_vars
    BY <1>1
  <1> QED
    BY <1>2, Invariance, PTL DEF Spec, StillBoardExact

\* However the board moves while it is fetched: what is open afterwards was listed
\* during the run with that content, and what a whole list showed throughout is
\* open (collect, the upserts and the UPDATE of run_one).
THEOREM CatalogFollows == Spec => CatalogFollowsBoard
  <1> DEFINE Follows ==
        pc = "collected" /\ pc' = "idle" =>
          /\ provider \in {"ashby", "greenhouse", "remotive"} =>
               \A p \in steady :
                 Eligible(p.content) /\ ~p.content.hidden =>
                   p.key \in Open' /\ job'[p.key].content = p.content
          /\ \A k \in Open' : [key |-> k, content |-> job'[k].content] \in shown
  <1>1. ASSUME IInv, Next, pc = "collected", pc' = "idle" PROVE Follows
    <2>1. Store
      BY <1>1 DEF Next, Environment, Post, Withdraw, Edit, Change, Begin, Fetch, Page, Detail,
                  DetailsDone, Retry, GiveUp, Fail
    <2>2. /\ Open' = Keys(Stored)
          /\ \A p \in Stored : job'[p.key].content = p.content
      <3>1. /\ Open' = Keys(Stored)
            /\ \A p \in Stored : job'[p.key] =
                 [content |-> p.content, verdict |-> Verdict(p.content), open |-> TRUE]
        BY <1>1, <2>1, StoreJobs
      <3>2. ASSUME NEW p \in Stored PROVE job'[p.key].content = p.content
        <4> DEFINE row == [content |-> p.content, verdict |-> Verdict(p.content), open |-> TRUE]
        <4>1. job'[p.key] = row
          BY <3>1
        <4>2. row.content = p.content
          OBVIOUS
        <4> HIDE DEF row
        <4> QED
          BY <4>1, <4>2
      <3> QED
        BY <3>1, <3>2
    <2>3. \A p \in Stored : p = [key |-> p.key, content |-> p.content]
      BY <1>1, Written
    <2>4. rows \subseteq shown
      BY <1>1 DEF IInv, Collecting
    <2>5. \A k \in Open' : [key |-> k, content |-> job'[k].content] \in shown
      BY <2>2, <2>3, <2>4 DEF Keys, Stored
    <2>6. ASSUME provider \in {"ashby", "greenhouse", "remotive"}, NEW p \in steady,
                 Eligible(p.content), ~p.content.hidden
          PROVE  p.key \in Open' /\ job'[p.key].content = p.content
      <3>1. p \in rows
        BY <1>1, <2>6 DEF IInv, WholeList
      <3>2. p \in Stored
        BY <2>6, <3>1 DEF Stored
      <3> QED
        BY <2>2, <3>2 DEF Keys
    <2> QED
      BY <2>5, <2>6
  <1>2. IInv /\ [Next]_vars => [Follows]_vars
    BY <1>1
  <1> QED
    BY <1>2, Invariance, PTL DEF Spec, CatalogFollowsBoard

\* However the board of Lever moves while its pages are read, a run misses no more of
\* the postings that stayed than were withdrawn meanwhile (collect, researcher.py).
THEOREM FewMissed == Spec => MissedAreWithdrawals
  <1> DEFINE Few ==
        pc = "collected" /\ pc' = "idle" /\ provider = "lever" => Cardinality(Missed) <= withdrawn
  <1>1. ASSUME IInv, Next, pc = "collected", pc' = "idle", provider = "lever"
        PROVE  Cardinality(Missed) <= withdrawn
    <2>1. Store
      BY <1>1 DEF Next, Environment, Post, Withdraw, Edit, Change, Begin, Fetch, Page, Detail,
                  DetailsDone, Retry, GiveUp, Fail
    <2>2. ASSUME NEW q \in Missed PROVE q \in PassedOver
      <3>1. q \in steady /\ Eligible(q.content)
            /\ ~(q.key \in Open' /\ job'[q.key].content = q.content)
        BY DEF Missed
      <3>2. q \notin rows
        <4> SUFFICES ASSUME q \in rows PROVE FALSE
          OBVIOUS
        <4>1. q \in Stored
          BY <3>1 DEF Stored
        <4> DEFINE row == [content |-> q.content, verdict |-> Verdict(q.content), open |-> TRUE]
        <4>2. Open' = Keys(Stored) /\ job'[q.key] = row
          BY <1>1, <2>1, <4>1, StoreJobs
        <4>3. row.content = q.content
          OBVIOUS
        <4> HIDE DEF row
        <4> QED
          BY <3>1, <4>1, <4>2, <4>3 DEF Keys
      <3>3. \E i \in 1..Len(board) : board[i] = q
        BY <1>1, <3>1 DEF IInv, Collecting, Listed
      <3> QED
        BY <1>1, <3>1, <3>2, <3>3 DEF PassedOver, Behind
    <2>3. withdrawn \in Nat /\ IsFiniteSet(PassedOver) /\ Cardinality(PassedOver) <= withdrawn
      BY <1>1 DEF IInv, FewPassedOver, TypeOK
    <2> QED
      BY <2>2, <2>3, OneMore
  <1>2. IInv /\ [Next]_vars => [Few]_vars
    BY <1>1
  <1> QED
    BY <1>2, Invariance, PTL DEF Spec, MissedAreWithdrawals

------------------------------------------------------------------------------
(* how a run gets on *)

\* Greenhouse's details are finitely many, as they come from one answer.
LEMMA AnswerBounded ==
  ASSUME IInv
  PROVE  IsFiniteSet(Kept) /\ Cardinality(Kept) <= MaxListed
  <1>1. Len(board) \in Nat /\ Len(board) <= MaxListed /\ MaxListed \in Nat
    BY BoardAssumption DEF IInv, TypeOK
  <1>2. IsFiniteSet(1..Len(board)) /\ Cardinality(1..Len(board)) = Len(board)
    <2>1. \A a, b \in Int : /\ IsFiniteSet(a..b)
                            /\ Cardinality(a..b) = IF a > b THEN 0 ELSE b - a + 1
      BY FS_Interval
    <2>2. \A n \in Nat : IsFiniteSet(1..n) /\ Cardinality(1..n) = n
      BY <2>1
    <2> QED
      BY <1>1, <2>2
  <1> DEFINE at == [i \in 1..Len(board) |-> board[i]]
  <1>3. at \in Surjection(1..Len(board), Listed)
    <2>1. at \in [1..Len(board) -> Listed] /\ \A p \in Listed : \E i \in 1..Len(board) : at[i] = p
      BY DEF Listed
    <2> HIDE DEF at
    <2> QED
      BY <2>1 DEF Surjection
  <1>4. IsFiniteSet(Listed) /\ Cardinality(Listed) <= Len(board)
    <2> HIDE DEF at
    <2> QED
      BY <1>2, <1>3, FS_Surjection
  <1>5. Kept \subseteq Listed
    <2>1. Answer \subseteq 1..Len(board)
      BY Places DEF IInv, Answer
    <2> QED
      BY <2>1 DEF Kept, Listed
  <1>6. IsFiniteSet(Kept) /\ Cardinality(Kept) <= Cardinality(Listed)
    BY <1>4, <1>5, FS_Subset
  <1>7. Cardinality(Kept) \in Nat /\ Cardinality(Listed) \in Nat
    BY <1>4, <1>6, FS_CardinalityType
  <1> QED
    BY <1>1, <1>4, <1>6, <1>7

\* What a page leaves to ask Greenhouse for.
LEMMA PageDetails ==
  ASSUME IInv, Page, pc' = "details"
  PROVE  IsFiniteSet(details') /\ Cardinality(details') \in 0..MaxListed
  <1> USE BoardAssumption
  <1> DEFINE all == rows \union {p \in Kept : p.key \notin Keys(rows)}
  <1>1. /\ pc = "fetching" /\ provider = "greenhouse"
        /\ details' = {p \in all : TitleVerdict(p.content.title) # "exclude"}
    BY DEF Page, Collected
  <1>2. rows = {}
    BY <1>1, PageWhole
  <1>3. details' \subseteq Kept
    BY <1>1, <1>2
  <1>4. IsFiniteSet(details') /\ Cardinality(details') <= Cardinality(Kept)
    BY <1>3, AnswerBounded, FS_Subset
  <1>5. Cardinality(details') \in Nat /\ Cardinality(Kept) \in Nat
    BY <1>4, AnswerBounded, FS_CardinalityType
  <1> QED
    BY <1>4, <1>5, AnswerBounded

\* The details stay finitely many.
LEMMA DetailsFinite ==
  IInv /\ IsFiniteSet(details) /\ [Next]_vars => IsFiniteSet(details')
  <1> SUFFICES ASSUME IInv, IsFiniteSet(details), [Next]_vars PROVE IsFiniteSet(details')
    OBVIOUS
  <1>1. CASE details' = details \/ details' = {}
    BY <1>1, FS_EmptySet
  <1>2. CASE Page
    <2>1. CASE pc' = "details"
      BY <1>2, <2>1, PageDetails
    <2>2. CASE pc' # "details"
      BY <1>1, <1>2, <2>2 DEF Page, Collected
    <2> QED
      BY <2>1, <2>2
  <1>3. CASE Detail
    BY <1>3, FS_RemoveElement DEF Detail
  <1>4. CASE ~Page /\ ~Detail
    BY <1>1, <1>4 DEF Next, Environment, Post, Withdraw, Edit, Change, Begin, Fetch, DetailsDone, Store, Retry,
       GiveUp, Fail, Finish, fetch, vars
  <1> QED
    BY <1>2, <1>3, <1>4

\* The pages left: a page that is asked for next is one less.
LEMMA PagesCount ==
  ASSUME TypeOK
  PROVE  PagesLeft \in Nat \ {0}
  <1>1. /\ word \in 1..Words /\ Words \in Nat /\ PageLimit \in Nat
        /\ page \in 1..(IF provider = "dice" THEN 2 ELSE PageLimit)
    BY BoardAssumption DEF TypeOK
  <1>2. CASE provider = "lever"
    BY <1>1, <1>2 DEF PagesLeft
  <1>3. CASE provider = "dice"
    BY <1>1, <1>3 DEF PagesLeft
  <1>4. CASE provider \notin {"lever", "dice"}
    BY <1>4 DEF PagesLeft
  <1> QED
    BY <1>2, <1>3, <1>4

\* A run that is not over has something left.
LEMMA LeftType ==
  ASSUME IInv, IsFiniteSet(details)
  PROVE  LeftSound
  <1>1. /\ attempt \in 0..2 /\ MaxListed \in Nat /\ PagesLeft \in Nat
        /\ pc \in {"idle", "fetching", "details", "collected"}
    BY BoardAssumption, PagesCount DEF IInv, TypeOK
  <1>2. Cardinality(details) \in Nat
    BY FS_CardinalityType
  <1> QED
    BY <1>1, <1>2 DEF Left, LeftSound

\* A page is the last one or is one less to ask for.
LEMMA PageAdvances ==
  ASSUME IInv, Page PROVE Left' < Left
  <1> DEFINE all == rows \union {p \in Kept : p.key \notin Keys(rows)}
  <1>1. /\ pc = "fetching" /\ attempt' = 0 /\ UNCHANGED provider
        /\ attempt \in 0..2 /\ MaxListed \in Nat /\ PagesLeft \in Nat \ {0}
        /\ word \in 1..Words /\ Words \in Nat /\ PageLimit \in Nat
        /\ page \in 1..(IF provider = "dice" THEN 2 ELSE PageLimit)
    BY BoardAssumption, PagesCount DEF Page, IInv, TypeOK
  <1>2. Left = 3 * (PagesLeft + MaxListed) + 5 - attempt
    BY <1>1 DEF Left
  <1>3. \/ /\ provider \in {"lever", "dice"} /\ page' = page + 1 /\ pc' = pc /\ word' = word
           /\ provider = "lever" => page # PageLimit
        \/ /\ provider = "dice" /\ word' = word + 1 /\ page' = 1 /\ pc' = pc
        \/ pc' \in {"details", "collected"}
    BY DEF Page, Collected, More
  <1>4. CASE pc' = pc
    <2>1. PagesLeft' <= PagesLeft - 1
      <3>1. CASE provider = "lever"
        BY <1>1, <1>3, <1>4, <3>1 DEF PagesLeft
      <3>2. CASE provider = "dice"
        BY <1>1, <1>3, <1>4, <3>2 DEF PagesLeft
      <3>3. CASE provider \notin {"lever", "dice"}
        BY <1>1, <1>3, <1>4, <3>3
      <3> QED
        BY <3>1, <3>2, <3>3
    <2>2. PagesLeft' \in Int
      BY <1>1, <1>3, <1>4 DEF PagesLeft
    <2>3. Left' = 3 * (PagesLeft' + MaxListed) + 5
      BY <1>1, <1>4 DEF Left
    <2>4. \A a, b \in Int, m \in Nat, k \in 0..2 :
            b <= a - 1 => 3 * (b + m) + 5 < 3 * (a + m) + 5 - k
      OBVIOUS
    <2>5. PagesLeft \in Int /\ attempt \in 0..2 /\ MaxListed \in Nat
      BY <1>1
    <2> QED
      BY <1>2, <2>1, <2>2, <2>3, <2>4, <2>5
  <1>5. CASE pc' = "details"
    <2>1. Cardinality(details') \in 0..MaxListed
      BY <1>5, PageDetails
    <2>2. Left' = 3 * Cardinality(details') + 4
      BY <1>1, <1>5, <2>1 DEF Left
    <2> QED
      BY <1>1, <1>2, <2>1, <2>2
  <1>6. CASE pc' = "collected"
    BY <1>1, <1>2, <1>6 DEF Left
  <1> QED
    BY <1>1, <1>3, <1>4, <1>5, <1>6

\* Each step of a run counts the bound down: requests of any provider cannot go on
\* for ever, however busy it is and however its board changes (collect, collect_dice,
\* fetch_json).  With fairness this is why CollectionEnds holds.
THEOREM RequestsEnd == Spec => []LeftSound /\ RequestsRunOut
  <1> DEFINE Fin == IsFiniteSet(details)
  <1>1. ASSUME IInv, Fin, Next, pc # "idle"
        PROVE  UNCHANGED <<pc, fetch>> \/ Left' < Left
    <2>1. /\ attempt \in 0..2 /\ MaxListed \in Nat /\ PagesLeft \in Nat \ {0}
          /\ Cardinality(details) \in Nat
      BY <1>1, BoardAssumption, PagesCount, FS_CardinalityType DEF IInv, TypeOK
    <2>2. CASE Environment
      BY <2>2 DEF Environment, Post, Withdraw, Edit, Change
    <2>3. CASE Page
      BY <1>1, <2>3, PageAdvances
    <2>4. CASE Detail
      <3>1. /\ Cardinality(details') = Cardinality(details) - 1
            /\ attempt' = 0 /\ pc = "details" /\ pc' = "details"
        BY <1>1, <2>4, FS_RemoveElement DEF Detail
      <3> QED
        BY <2>1, <3>1 DEF Left
    <2>5. CASE DetailsDone
      BY <2>1, <2>5 DEF DetailsDone, Left, fetch
    <2>6. CASE Store \/ GiveUp \/ Fail
      <3>1. Left' = 0
        BY <2>6 DEF Store, GiveUp, Fail, Finish, Left
      <3>2. Left \in Nat /\ Left > 0
        BY <1>1, LeftType DEF LeftSound
      <3> QED
        BY <3>1, <3>2
    <2>7. CASE Retry
      <3>1. /\ pc \in {"fetching", "details"} /\ attempt' = attempt + 1
            /\ UNCHANGED <<provider, pc, word, page, details>>
        BY <2>7 DEF Retry
      <3>2. PagesLeft' = PagesLeft
        BY <3>1 DEF PagesLeft
      <3>3. CASE pc = "fetching"
        BY <2>1, <3>1, <3>2, <3>3 DEF Left
      <3>4. CASE pc = "details"
        BY <2>1, <3>1, <3>4 DEF Left
      <3> QED
        BY <3>1, <3>3, <3>4
    <2> QED
      BY <1>1, <2>2, <2>3, <2>4, <2>5, <2>6, <2>7 DEF Next, Fetch, Begin
  <1>2. IInv /\ Fin /\ [Next]_vars =>
          [pc # "idle" => UNCHANGED <<pc, fetch>> \/ Left' < Left]_vars
    BY <1>1
  <1>3. Init => Fin
    BY FS_EmptySet DEF Init
  <1>4. IInv /\ Fin /\ [Next]_vars => Fin'
    BY DetailsFinite
  <1>5. IInv /\ Fin => LeftSound
    BY LeftType
  <1> HIDE DEF Fin
  <1> QED
    BY <1>2, <1>3, <1>4, <1>5, Invariance, PTL DEF Spec, RequestsRunOut
==============================================================================
