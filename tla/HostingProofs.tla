--------------------------- MODULE HostingProofs ---------------------------
(* For any locks, requests, editions and policies, any number of faults and  *)
(* threads: what a host runs is warranted, and no replacement is lost. The   *)
(* first rests on what the two programs ask before they write an official    *)
(* record: a listed record accounts for it and it supersedes that one, so    *)
(* each official line of a lock pins at least what a published line pins, or *)
(* a line that slipped in.                                                   *)
EXTENDS Hosting, SequenceTheorems, TLAPS

\* A line that says nothing else than the published one, and perhaps more.
Covers(line, record) ==
  /\ SameIdentity(line, record)
  /\ \A c \in Columns : line.columns[c] \in {Unsaid, record.columns[c]}
Backed(record, listed) == \E line \in listed : Covers(line, record)
Elements(s) == {s[i] : i \in 1..Len(s)}
Genuine(text, listed) ==
  /\ text \in Texts
  /\ \A record \in Elements(text.lines) : record.source = "official" => Backed(record, listed)

Working ==
  [at : {"planned", "opened", "entered", "failed"}, want : Records, lines : Seq(Records),
   seen : Texts, text : Texts, imports : SUBSET Packages]
\* The lines an official record may rest on.
Vouched == published \cup slips
FilesType ==
  /\ lock \in [Sources -> Texts] /\ entry \in [Sources -> SUBSET Packages]
  /\ writer \in [Writers -> {Idle} \cup Working]
  /\ published \subseteq Records
FilesInv ==
  /\ FilesType
  /\ \A s \in Sources : Genuine(lock[s], Vouched)
  /\ \A w \in Writers : Busy(w) => Genuine(writer[w].text, Vouched)

\* What a record that covers what it accounts for accounts for.
LEMMA CoveredAccounts ==
  ASSUME NEW line, NEW record, NEW other, Covers(line, record), Accounts(record, other)
  PROVE  Accounts(line, other)
BY DEF Covers, Accounts, SameIdentity, Unsaid, Empty

\* A record that a covered one accounts for, and that supersedes it, is covered:
\* it carries a column, so it spells them all.
LEMMA SupersedingIsCovered ==
  ASSUME NEW line, NEW old \in Records, NEW new \in Records,
         Covers(line, old), Accounts(old, new), Supersedes(old, new)
  PROVE  Covers(line, new)
<1>1. SameIdentity(line, new)
  BY DEF Covers, Accounts, SameIdentity
<1>2. PICK k \in Columns : new.columns[k] # Unsaid
  BY DEF Supersedes, Carries
<1>3. \A c \in Columns : new.columns[c] # Unsaid
  <2>1. new.columns \in [Columns -> Values \cup {Unsaid, Empty}]
    BY DEF Records, Manifests
  <2>2. Unsaid \notin Range(new.columns)
    BY <1>2 DEF Records
  <2>. QED
    BY <2>1, <2>2 DEF Range
<1>4. ASSUME NEW c \in Columns
      PROVE  line.columns[c] \in {Unsaid, new.columns[c]}
  <2>1. CASE line.columns[c] = Unsaid
    BY <2>1
  <2>2. CASE line.columns[c] # Unsaid
    <3>1. old.columns[c] = line.columns[c]
      BY <2>2 DEF Covers
    <3>. QED
      BY <3>1, <2>2, <1>3 DEF Accounts, Unsaid, Empty
  <2>. QED
    BY <2>1, <2>2
<1>. QED
  BY <1>1, <1>4 DEF Covers

\* Where the elements of a sequence that is put together come from.
LEMMA ConcatElements ==
  ASSUME NEW S, NEW s \in Seq(S), NEW t \in Seq(S)
  PROVE  s \o t \in Seq(S) /\ Elements(s \o t) \subseteq Elements(s) \cup Elements(t)
<1>1. Len(s) \in Nat /\ Len(t) \in Nat
  BY LenProperties
<1>2. s \o t \in Seq(S) /\ Len(s \o t) = Len(s) + Len(t)
  BY ConcatProperties
<1>3. ASSUME NEW i \in 1..(Len(s) + Len(t))
      PROVE  (s \o t)[i] \in Elements(s) \cup Elements(t)
  <2>1. (s \o t)[i] = IF i <= Len(s) THEN s[i] ELSE t[i - Len(s)]
    BY ConcatProperties
  <2>2. CASE i <= Len(s)
    BY <1>1, <2>1, <2>2 DEF Elements
  <2>3. CASE ~(i <= Len(s))
    <3>1. i - Len(s) \in 1..Len(t)
      BY <1>1, <2>3
    <3>. QED
      BY <2>1, <2>3, <3>1 DEF Elements
  <2>. QED
    BY <2>2, <2>3
<1>. QED
  BY <1>2, <1>3 DEF Elements

LEMMA SubSeqElements ==
  ASSUME NEW S, NEW s \in Seq(S), NEW m \in Int, NEW n \in Int, 1 <= m, n <= Len(s)
  PROVE  SubSeq(s, m, n) \in Seq(S) /\ Elements(SubSeq(s, m, n)) \subseteq Elements(s)
<1>1. Len(s) \in Nat
  BY LenProperties
<1>2. \A i \in m..n : i \in 1..Len(s)
  BY <1>1
<1>3. \A i \in m..n : s[i] \in S
  BY <1>2, ElementOfSeq
<1>4. SubSeq(s, m, n) \in Seq(S)
      /\ Len(SubSeq(s, m, n)) = (IF m <= n THEN n - m + 1 ELSE 0)
      /\ \A i \in 1..(n - m + 1) : SubSeq(s, m, n)[i] = s[m + i - 1]
  BY <1>3, SubSeqProperties
<1>5. ASSUME NEW i \in 1..Len(SubSeq(s, m, n))
      PROVE  SubSeq(s, m, n)[i] \in Elements(s)
  <2>1. i \in 1..(n - m + 1) /\ m + i - 1 \in m..n
    BY <1>4
  <2>. QED
    BY <2>1, <1>2, <1>4 DEF Elements
<1>. QED
  BY <1>4, <1>5 DEF Elements

\* A text with fewer lines, or a torn one, is no less genuine.
LEMMA PartIsGenuine ==
  ASSUME NEW listed, NEW text, Genuine(text, listed), NEW part \in Texts,
         Elements(part.lines) \subseteq Elements(text.lines)
  PROVE  Genuine(part, listed)
BY DEF Genuine

LEMMA TogetherIsGenuine ==
  ASSUME NEW listed, NEW one, NEW other, Genuine(one, listed), Genuine(other, listed)
  PROVE  Genuine(Together(one, other), listed)
<1>1. one \in Texts /\ other \in Texts
  BY DEF Genuine
<1>2. one.lines \in Seq(Records) /\ other.lines \in Seq(Records)
  BY <1>1 DEF Texts
<1>3. one.lines \o other.lines \in Seq(Records)
      /\ Elements(one.lines \o other.lines) \subseteq Elements(one.lines) \cup Elements(other.lines)
  BY <1>2, ConcatElements
<1>4. Together(one, other).lines = one.lines \o other.lines
  BY DEF Together
<1>5. Together(one, other) \in Texts
  BY <1>1, <1>3 DEF Together, Texts, Headers
<1>. QED
  BY <1>3, <1>4, <1>5 DEF Genuine

\* What a record of a genuine text accounts for, its publisher listed.
LEMMA AccountedIsPublished ==
  ASSUME NEW listed, NEW text, Genuine(text, listed), NEW other, other.source = "official", Accounted(text, other)
  PROVE  \E line \in listed : Accounts(line, other)
<1>1. text.lines \in Seq(Records)
  BY DEF Genuine, Texts
<1>2. DOMAIN text.lines = 1..Len(text.lines)
  BY <1>1, LenProperties
<1>3. PICK record \in Elements(text.lines) : Accounts(record, other)
  BY <1>2 DEF Accounted, Listed, Elements
<1>4. PICK line \in listed : Covers(line, record)
  BY <1>3 DEF Accounts, SameIdentity, Genuine, Backed
<1>. QED
  BY <1>3, <1>4, CoveredAccounts

\* What a program is about to write when it asked: lines it read and the record.
LEMMA AppendedIsGenuine ==
  ASSUME NEW listed, NEW text, Genuine(text, listed), NEW record \in Records,
         record.source = "official" => Backed(record, listed)
  PROVE  Genuine(Appended(text, record), listed)
<1>1. text \in Texts /\ text.lines \in Seq(Records) /\ Len(text.lines) \in Nat
  BY LenProperties DEF Genuine, Texts
<1>2. Appended(text, record).lines = Append(text.lines, record)
  BY <1>1 DEF Appended, Texts
<1>3. Append(text.lines, record) \in Seq(Records)
      /\ Elements(Append(text.lines, record)) \subseteq Elements(text.lines) \cup {record}
  BY <1>1 DEF Elements
<1>4. Appended(text, record) \in Texts
  BY <1>1, <1>3 DEF Appended, Texts
<1>. QED
  BY <1>2, <1>3, <1>4 DEF Genuine

LEMMA RemovedIsGenuine ==
  ASSUME NEW listed, NEW text, Genuine(text, listed), NEW k \in 1..Len(text.lines)
  PROVE  Genuine([text EXCEPT !.lines = RemoveAt(@, k)], listed)
<1>. DEFINE before == SubSeq(text.lines, 1, k - 1)
            after == SubSeq(text.lines, k + 1, Len(text.lines))
            part == [text EXCEPT !.lines = before \o after]
<1>1. text \in Texts /\ text.lines \in Seq(Records) /\ Len(text.lines) \in Nat
  BY LenProperties DEF Genuine, Texts
<1>2. before \in Seq(Records) /\ Elements(before) \subseteq Elements(text.lines)
  BY <1>1, SubSeqElements
<1>3. after \in Seq(Records) /\ Elements(after) \subseteq Elements(text.lines)
  BY <1>1, SubSeqElements
<1>. HIDE DEF before, after
<1>4. before \o after \in Seq(Records) /\ Elements(before \o after) \subseteq Elements(before) \cup Elements(after)
  BY <1>2, <1>3, ConcatElements
<1>5. part \in Texts /\ part.lines = before \o after
  BY <1>1, <1>4 DEF Texts
<1>. HIDE DEF part
<1>6. Elements(part.lines) \subseteq Elements(text.lines)
  BY <1>2, <1>3, <1>4, <1>5
<1>7. Genuine(part, listed)
  BY <1>5, <1>6, PartIsGenuine
<1>. QED
  BY <1>7 DEF RemoveAt, before, after, part

\* The publisher's list grows, so what it stood behind it stands behind.
LEMMA GenuineStays ==
  ASSUME NEW text, NEW listed, NEW longer, Genuine(text, listed), listed \subseteq longer
  PROVE  Genuine(text, longer)
BY DEF Genuine, Backed

\* with_record takes out a line and puts the record at the end.
LEMMA WithRecordIsGenuine ==
  ASSUME NEW listed, NEW text, Genuine(text, listed), NEW record \in Records,
         record.source = "official" => Backed(record, listed)
  PROVE  Genuine(WithRecord(text, record), listed)
<1>1. text \in Texts /\ text.lines \in Seq(Records) /\ DOMAIN text.lines = 1..Len(text.lines)
  BY LenProperties DEF Genuine, Texts
<1>2. CASE Dead(text, record) = {}
  BY <1>2, AppendedIsGenuine DEF WithRecord
<1>3. CASE Dead(text, record) # {}
  <2>. DEFINE k == CHOOSE i \in Dead(text, record) : TRUE
  <2>1. k \in 1..Len(text.lines)
    BY <1>1, <1>3 DEF Dead
  <2>. HIDE DEF k
  <2>2. Genuine([text EXCEPT !.lines = RemoveAt(@, k)], listed)
    BY <2>1, RemovedIsGenuine
  <2>. QED
    BY <1>3, <2>2, AppendedIsGenuine DEF WithRecord, k
<1>. QED
  BY <1>2, <1>3

\* What both programs ask of an official record is what backs it.
LEMMA AllowedIsBacked ==
  ASSUME NEW listed, NEW text, Genuine(text, listed), NEW record \in Records,
         Accepts(text, record), record.source = "official", Accounted(text, record)
  PROVE  Backed(record, listed)
<1>1. text \in Texts /\ text.lines \in Seq(Records) /\ Len(text.lines) \in Nat
      /\ DOMAIN text.lines = 1..Len(text.lines)
  BY LenProperties DEF Genuine, Texts
<1>2. PICK k \in 1..Len(text.lines) : Accounts(text.lines[k], record)
  BY <1>1 DEF Accounted, Listed
<1>3. text.lines[k] \in Records /\ text.lines[k] \in Elements(text.lines)
  BY <1>1, <1>2, ElementOfSeq DEF Elements
<1>4. SameIdentity(text.lines[k], record)
  BY <1>2 DEF Accounts
<1>5. PICK line \in listed : Covers(line, text.lines[k])
  BY <1>3, <1>4 DEF Genuine, Backed, SameIdentity
<1>6. Supersedes(text.lines[k], record)
  <2>. DEFINE more == Append(text.lines, record)
  <2>1. DOMAIN more = 1..(Len(text.lines) + 1) /\ more[k] = text.lines[k] /\ more[Len(text.lines) + 1] = record
    BY <1>1
  <2>2. Appended(text, record).lines = more
    BY <1>1 DEF Appended, Texts
  <2>. HIDE DEF more
  <2>3. \A i, j \in DOMAIN more : i < j /\ SameIdentity(more[i], more[j]) => Supersedes(more[i], more[j])
    BY <2>2 DEF Accepts, Readable
  <2>4. k \in DOMAIN more /\ Len(text.lines) + 1 \in DOMAIN more /\ k < Len(text.lines) + 1
    BY <1>1, <2>1
  <2>. QED
    BY <1>4, <2>1, <2>3, <2>4
<1>7. Covers(line, record)
  BY <1>2, <1>3, <1>5, <1>6, SupersedingIsCovered
<1>. QED
  BY <1>7 DEF Backed

LEMMA RequestLines ==
  ASSUME NEW request \in Request
  PROVE  /\ request.record \in Records /\ request.lines \in Seq(Records)
         /\ request.lines[1] \in Records /\ request.lines[1] \in Range(request.lines)
         /\ Len(request.lines) # 1 => /\ request.lines[2] \in Records
                                      /\ request.lines[2] \in Range(request.lines)
<1>. DEFINE lines == request.lines
<1>1. lines \in Seq(Records) /\ request.record \in Records /\ Len(lines) \in {1, 2}
  BY DEF Request
<1>. HIDE DEF lines
<1>2. DOMAIN lines = 1..Len(lines)
  BY <1>1, LenProperties
<1>3. \A i \in 1..Len(lines) : lines[i] \in Records /\ lines[i] \in Range(lines)
  <2>1. \A i \in 1..Len(lines) : lines[i] \in Records
    BY <1>1, ElementOfSeq
  <2>2. \A i \in 1..Len(lines) : lines[i] \in Range(lines)
    BY <1>2 DEF Range
  <2>. QED
    BY <2>1, <2>2
<1>4. 1 \in 1..Len(lines) /\ (Len(lines) # 1 => 2 \in 1..Len(lines))
  <2>1. CASE Len(lines) = 1
    BY <2>1
  <2>2. CASE Len(lines) = 2
    BY <2>2
  <2>. QED
    BY <1>1, <2>1, <2>2
<1>. QED
  BY <1>1, <1>3, <1>4 DEF lines

\* A record that is written as it is meant is backed, a line it broke into backs
\* itself.
LEMMA AllowedIsGenuine ==
  ASSUME NEW listed, NEW w, NEW text, Genuine(text, listed), NEW request \in Request,
         Allows(w, text, request), NEW longer, listed \subseteq longer,
         Broken(request) => Range(request.lines) \subseteq longer
  PROVE  Genuine(WithLines(text, request.lines), longer)
<1>. DEFINE one == WithRecord(text, request.lines[1])
<1>1. Genuine(text, longer)
  BY GenuineStays
<1>2. CASE Broken(request)
  <2>1. \A line \in Range(request.lines) : Backed(line, longer)
    BY <1>2 DEF Backed, Covers, SameIdentity
  <2>2. Genuine(one, longer)
    BY <1>1, <2>1, RequestLines, WithRecordIsGenuine
  <2>3. CASE Len(request.lines) = 1
    BY <2>2, <2>3 DEF WithLines
  <2>4. CASE Len(request.lines) # 1
    <3>. HIDE DEF one
    <3>1. Genuine(WithRecord(one, request.lines[2]), longer)
      BY <2>1, <2>2, <2>4, RequestLines, WithRecordIsGenuine
    <3>. QED
      BY <2>4, <3>1 DEF WithLines, one
  <2>. QED
    BY <2>3, <2>4
<1>3. CASE ~Broken(request)
  <2>1. request.lines[1] = request.record /\ Len(request.lines) = 1
    BY <1>3 DEF Broken
  <2>2. request.record.source = "official" => Backed(request.record, listed)
    BY <2>1, RequestLines, AllowedIsBacked DEF Allows, AcceptsLines
  <2>3. request.record.source = "official" => Backed(request.record, longer)
    BY <2>2 DEF Backed
  <2>. QED
    BY <1>1, <2>1, <2>3, RequestLines, WithRecordIsGenuine DEF WithLines
<1>. QED
  BY <1>2, <1>3

-----------------------------------------------------------------------------
LEMMA FilesInitInv ==
  ASSUME LockInit
  PROVE  FilesInv
<1>1. lock \in [Sources -> Texts]
  BY LocksAssumption DEF LockInit
<1>2. lock["official"].lines \in Seq(Records) /\ lock["user"].lines \in Seq(Records)
  BY <1>1 DEF Sources, Texts
<1>3. DOMAIN lock["official"].lines = 1..Len(lock["official"].lines)
      /\ DOMAIN lock["user"].lines = 1..Len(lock["user"].lines)
  BY <1>2, LenProperties
<1>4. published = Elements(lock["official"].lines) /\ Vouched = published
  BY <1>3 DEF LockInit, Range, Elements, Vouched
<1>5. Genuine(lock["official"], Vouched)
  BY <1>1, <1>4 DEF Genuine, Backed, Covers, SameIdentity, Sources
<1>6. Genuine(lock["user"], Vouched)
  <2>1. \A record \in Elements(lock["user"].lines) : record.source = "user"
    BY <1>3, LocksAssumption DEF LockInit, Elements
  <2>. QED
    BY <1>1, <2>1 DEF Genuine, Sources
<1>7. published \subseteq Records
  BY <1>2, <1>4, ElementOfSeq DEF Elements
<1>8. entry \in [Sources -> SUBSET Packages] /\ writer = [w \in Writers |-> Idle]
  BY DEF LockInit
<1>. QED
  BY <1>1, <1>5, <1>6, <1>7, <1>8 DEF FilesInv, FilesType, Sources, Busy, Idle

\* A text with a record at its end.
LEMMA AppendedLines ==
  ASSUME NEW text \in Texts, NEW record \in Records
  PROVE  /\ Appended(text, record) \in Texts
         /\ Appended(text, record).header = text.header /\ Appended(text, record).torn = text.torn
         /\ DOMAIN text.lines = 1..Len(text.lines) /\ Len(text.lines) \in Nat
         /\ DOMAIN Appended(text, record).lines = 1..(Len(text.lines) + 1)
         /\ \A i \in 1..Len(text.lines) : Appended(text, record).lines[i] = text.lines[i]
         /\ Appended(text, record).lines[Len(text.lines) + 1] = record
<1>1. text.lines \in Seq(Records) /\ Len(text.lines) \in Nat /\ DOMAIN text.lines = 1..Len(text.lines)
  BY LenProperties DEF Texts
<1>2. /\ Append(text.lines, record) \in Seq(Records)
      /\ DOMAIN Append(text.lines, record) = 1..(Len(text.lines) + 1)
      /\ \A i \in 1..Len(text.lines) : Append(text.lines, record)[i] = text.lines[i]
      /\ Append(text.lines, record)[Len(text.lines) + 1] = record
  BY <1>1
<1>3. Appended(text, record) = [text EXCEPT !.lines = Append(text.lines, record)]
  BY DEF Appended
<1>. QED
  BY <1>1, <1>2, <1>3 DEF Texts

LEMMA ShortenedIsRecord ==
  ASSUME NEW record \in Records, NEW short \in Shortened(record)
  PROVE  short \in Records
<1>1. record \in Manifests /\ record.columns \in [Columns -> Values \cup {Unsaid, Empty}]
  BY DEF Records, Manifests
<1>2. CASE short = [record EXCEPT !.columns = [c \in Columns |-> Unsaid]]
  <2>1. short \in Manifests /\ \A c \in Columns : short.columns[c] = Unsaid
    BY <1>1, <1>2 DEF Manifests
  <2>. QED
    BY <2>1 DEF Records
<1>3. ASSUME NEW v \in Values \cup {Empty}, record.columns["revocations"] # Unsaid,
             short = [record EXCEPT !.columns["revocations"] = v]
      PROVE  short \in Records
  <2>1. "revocations" \in Columns
    BY DEF Columns
  <2>2. Unsaid \notin Range(record.columns)
    BY <1>3, <2>1 DEF Records
  <2>3. \A c \in Columns : record.columns[c] # Unsaid
    BY <1>1, <2>2 DEF Range
  <2>4. short.columns = [record.columns EXCEPT !["revocations"] = v] /\ short \in Manifests
    BY <1>1, <1>3 DEF Manifests
  <2>5. v # Unsaid
    BY LocksAssumption DEF Unsaid, Empty
  <2>6. \A c \in Columns : short.columns[c] # Unsaid
    BY <1>1, <2>3, <2>4, <2>5
  <2>7. DOMAIN short.columns = Columns
    BY <1>1, <2>4
  <2>8. Unsaid \notin Range(short.columns)
    BY <2>6, <2>7 DEF Range
  <2>. QED
    BY <2>4, <2>8 DEF Records
<1>. QED
  BY <1>2, <1>3 DEF Shortened

LEMMA NothingIsGenuine ==
  ASSUME NEW listed
  PROVE  Nothing \in Texts /\ Genuine(Nothing, listed)
<1>1. Nothing.lines = <<>> /\ Elements(<<>>) = {}
  BY DEF Nothing, Elements
<1>2. Nothing \in Texts
  BY EmptySeq DEF Nothing, Texts, Headers
<1>. QED
  BY <1>1, <1>2 DEF Genuine

LEMMA CutsAreTexts ==
  ASSUME FilesInv, NEW w \in Writers, Busy(w), NEW text \in CutLocks(w)
  PROVE  text \in Texts /\ On(w) \in Sources
<1>1. writer[w] \in Working
  BY DEF FilesInv, FilesType, Busy, Idle
<1>2. On(w) \in Sources /\ lock[On(w)] \in Texts
  BY <1>1 DEF Working, On, Records, Manifests, FilesInv, FilesType
<1>. DEFINE whole == writer[w].text
<1>3. whole \in Texts /\ whole.lines \in Seq(Records) /\ Len(whole.lines) \in Nat
  BY <1>1, LenProperties DEF Working, Texts
<1>4. CASE text \in {lock[On(w)], Nothing}
  BY <1>2, <1>4, NothingIsGenuine
<1>5. ASSUME NEW n \in 1..Len(whole.lines), NEW t \in BOOLEAN
      PROVE  Cut(whole, n - 1, t) \in Texts
  <2>. HIDE DEF whole
  <2>1. SubSeq(whole.lines, 1, n - 1) \in Seq(Records)
    BY <1>3, SubSeqElements
  <2>. QED
    BY <1>3, <2>1 DEF Cut, Texts
<1>6. ASSUME NEW n \in 1..Len(whole.lines), NEW short \in Shortened(whole.lines[n])
      PROVE  Appended(Cut(whole, n - 1, FALSE), short) \in Texts
  <2>1. Cut(whole, n - 1, FALSE) \in Texts
    BY <1>5
  <2>. HIDE DEF whole
  <2>2. short \in Records
    BY <1>3, ElementOfSeq, ShortenedIsRecord
  <2>. QED
    BY <2>1, <2>2, AppendedLines
<1>7. \/ text \in {lock[On(w)], Nothing}
      \/ \E n \in 1..Len(whole.lines) :
           \/ \E t \in BOOLEAN : text = Cut(whole, n - 1, t)
           \/ \E short \in Shortened(whole.lines[n]) : text = Appended(Cut(whole, n - 1, FALSE), short)
  BY DEF CutLocks
<1>. QED
  BY <1>2, <1>4, <1>5, <1>6, <1>7

\* A line that a text left by a cut has, and that neither the old text nor the
\* new one had, slipped in.
LEMMA LeftIsGenuine ==
  ASSUME FilesInv, NEW w \in Writers, Busy(w), NEW text \in Texts, On(w) \in Sources
  PROVE  Genuine(text, Vouched \cup Slipped(w, text))
<1>. DEFINE old == lock[On(w)].lines
            new == writer[w].text.lines
            listed == Vouched \cup Slipped(w, text)
<1>1. Genuine(lock[On(w)], Vouched) /\ Genuine(writer[w].text, Vouched)
  BY DEF FilesInv
<1>2. old \in Seq(Records) /\ new \in Seq(Records) /\ text.lines \in Seq(Records)
  BY <1>1 DEF Genuine, Texts
<1>3. Range(old) = Elements(old) /\ Range(new) = Elements(new) /\ Range(text.lines) = Elements(text.lines)
  BY <1>2, LenProperties DEF Range, Elements
<1>4. ASSUME NEW record \in Elements(text.lines), record.source = "official"
      PROVE  Backed(record, listed)
  <2>1. CASE record \in Slipped(w, text)
    BY <2>1 DEF Backed, Covers, SameIdentity
  <2>2. CASE record \notin Slipped(w, text)
    <3>1. record \in Elements(old) \/ record \in Elements(new)
      BY <1>3, <2>2 DEF Slipped
    <3>. QED
      BY <1>1, <1>4, <3>1 DEF Genuine, Backed
  <2>. QED
    BY <2>1, <2>2
<1>. QED
  BY <1>4 DEF Genuine

\* A lock that is given a genuine text, and a writer that ends or goes on.
LEMMA LockWritten ==
  ASSUME FilesInv, NEW w \in Writers, NEW s \in Sources, NEW text, Genuine(text, Vouched'),
         lock' = [lock EXCEPT ![s] = text], published' = published, Vouched \subseteq Vouched',
         entry' \in [Sources -> SUBSET Packages],
         writer' \in [Writers -> {Idle} \cup Working],
         \A v \in Writers : Busy(v)' => Busy(v) /\ writer'[v].text = writer[v].text
  PROVE  FilesInv'
<1>1. text \in Texts /\ lock' \in [Sources -> Texts]
  BY DEF Genuine, FilesInv, FilesType
<1>2. \A x \in Sources : Genuine(lock'[x], Vouched')
  BY GenuineStays DEF FilesInv, FilesType
<1>3. \A v \in Writers : Busy(v)' => Genuine(writer'[v].text, Vouched')
  BY GenuineStays DEF FilesInv
<1>. QED
  BY <1>1, <1>2, <1>3 DEF FilesInv, FilesType

\* A step of a program that leaves the locks alone.
LEMMA LocksKept ==
  ASSUME FilesInv, lock' = lock, published' = published, Vouched \subseteq Vouched',
         entry' \in [Sources -> SUBSET Packages],
         writer' \in [Writers -> {Idle} \cup Working],
         \A v \in Writers : Busy(v)' => Busy(v) /\ writer'[v].text = writer[v].text
  PROVE  FilesInv'
<1>1. \A v \in Writers : Busy(v)' => Genuine(writer'[v].text, Vouched')
  BY GenuineStays DEF FilesInv
<1>2. \A s \in Sources : Genuine(lock'[s], Vouched')
  BY GenuineStays DEF FilesInv
<1>. QED
  BY <1>1, <1>2 DEF FilesInv, FilesType

LEMMA PlannedInv ==
  ASSUME FilesInv, NEW w \in Writers, NEW request \in Requests, NEW text \in Texts,
         Genuine(text, Vouched), Planned(w, request, text)
  PROVE  FilesInv'
<1>1. /\ Allows(w, text, request)
      /\ writer' = [writer EXCEPT ![w] =
           [at |-> "planned", want |-> request.record, lines |-> request.lines, seen |-> text,
            text |-> WithLines(text, request.lines), imports |-> {}]]
      /\ Broken(request) => Range(request.lines) \subseteq slips'
      /\ slips \subseteq slips' /\ UNCHANGED <<lock, entry, published, written>>
  BY DEF Planned
<1>2. request \in Request
  BY LocksAssumption
<1>3. Vouched \subseteq Vouched' /\ slips' \subseteq Vouched'
  BY <1>1 DEF Vouched
<1>. DEFINE new == WithLines(text, request.lines)
<1>4. Genuine(new, Vouched')
  BY <1>1, <1>2, <1>3, AllowedIsGenuine
<1>5. new \in Texts
  BY <1>4 DEF Genuine
<1>6. writer' = [writer EXCEPT ![w] =
           [at |-> "planned", want |-> request.record, lines |-> request.lines, seen |-> text,
            text |-> new, imports |-> {}]]
  BY <1>1
<1>. HIDE DEF new
<1>7. writer' \in [Writers -> {Idle} \cup Working]
  BY <1>2, <1>5, <1>6, RequestLines DEF FilesInv, FilesType, Working
<1>8. \A v \in Writers : Busy(v)' => Genuine(writer'[v].text, Vouched')
  <2>1. \A v \in Writers : v # w => writer'[v] = writer[v]
    BY <1>6 DEF FilesInv, FilesType
  <2>2. writer'[w].text = new
    BY <1>6 DEF FilesInv, FilesType
  <2>3. \A v \in Writers : v # w /\ Busy(v)' => Genuine(writer[v].text, Vouched')
    BY <1>3, <2>1, GenuineStays DEF FilesInv, Busy
  <2>. QED
    BY <1>4, <2>1, <2>2, <2>3
<1>9. \A s \in Sources : Genuine(lock'[s], Vouched')
  BY <1>1, <1>3, GenuineStays DEF FilesInv
<1>. QED
  BY <1>1, <1>7, <1>8, <1>9 DEF FilesInv, FilesType

LEMMA AskInv ==
  ASSUME FilesInv, NEW w \in Writers, Ask(w)
  PROVE  FilesInv'
<1>1. PICK request \in Requests :
        Planned(w, request, lock[request.record.source]) \/ Planned(w, request, Nothing)
  BY DEF Ask
<1>2. request.record.source \in Sources
  BY LocksAssumption DEF Request, Records, Manifests
<1>3. lock[request.record.source] \in Texts /\ Genuine(lock[request.record.source], Vouched)
  BY <1>2 DEF FilesInv, FilesType
<1>. QED
  BY <1>1, <1>3, PlannedInv, NothingIsGenuine

LEMMA WorksInv ==
  ASSUME FilesInv, NEW w \in Writers, Works(w)
  PROVE  FilesInv'
<1>. USE DEF To, Ends
<1>1. writer[w] \in Working /\ Busy(w)
  BY DEF Works, ReadEntry, Entered, WriteEntry, WriteLock, Restore, FilesInv, FilesType, Idle, Busy
<1>2. On(w) \in Sources /\ writer[w].want.package \in Packages
  BY <1>1 DEF Working, On, Records, Manifests
<1>3. entry[On(w)] \subseteq Packages
  BY <1>2 DEF FilesInv, FilesType
<1>4. CASE ReadEntry(w)
  <2>1. writer' \in [Writers -> {Idle} \cup Working]
    BY <1>1, <1>3, <1>4 DEF ReadEntry, Entered, FilesInv, FilesType, Working
  <2>2. \A v \in Writers : Busy(v)' => Busy(v) /\ writer'[v].text = writer[v].text
    BY <1>1, <1>4 DEF ReadEntry, Entered, FilesInv, FilesType, Working, Busy
  <2>. QED
    BY <1>4, <2>1, <2>2, LocksKept DEF ReadEntry, Entered, Vouched, FilesInv, FilesType
<1>5. CASE WriteEntry(w)
  <2>1. writer' \in [Writers -> {Idle} \cup Working]
    BY <1>1, <1>5 DEF WriteEntry, FilesInv, FilesType, Working
  <2>2. \A v \in Writers : Busy(v)' => Busy(v) /\ writer'[v].text = writer[v].text
    BY <1>1, <1>5 DEF WriteEntry, FilesInv, FilesType, Working, Busy
  <2>3. Importing(w) \subseteq Packages
    BY <1>1, <1>2, <1>3 DEF Importing, Working
  <2>4. entry' \in [Sources -> SUBSET Packages]
    BY <1>5, <2>3 DEF WriteEntry, FilesInv, FilesType
  <2>. QED
    BY <1>5, <2>1, <2>2, <2>4, LocksKept DEF WriteEntry, Vouched
<1>6. CASE WriteLock(w)
  <2>1. writer' \in [Writers -> {Idle} \cup Working]
    BY <1>6 DEF WriteLock, FilesInv, FilesType
  <2>2. \A v \in Writers : Busy(v)' => Busy(v) /\ writer'[v].text = writer[v].text
    BY <1>6 DEF WriteLock, FilesInv, FilesType, Busy, Idle
  <2>3. Genuine(writer[w].text, Vouched)
    BY <1>1 DEF FilesInv
  <2>4. lock' = [lock EXCEPT ![On(w)] = writer[w].text] /\ published' = published /\ entry' = entry
        /\ Vouched' = Vouched
    BY <1>6 DEF WriteLock, Vouched
  <2>. QED
    BY <1>2, <2>1, <2>2, <2>3, <2>4, LockWritten DEF FilesInv, FilesType
<1>7. CASE Restore(w)
  <2>1. writer' \in [Writers -> {Idle} \cup Working]
    BY <1>7 DEF Restore, FilesInv, FilesType
  <2>2. \A v \in Writers : Busy(v)' => Busy(v) /\ writer'[v].text = writer[v].text
    BY <1>7 DEF Restore, FilesInv, FilesType, Busy, Idle
  <2>3. entry' \in [Sources -> SUBSET Packages]
    BY <1>1, <1>7 DEF Restore, FilesInv, FilesType, Working
  <2>. QED
    BY <1>7, <2>1, <2>2, <2>3, LocksKept DEF Restore, Vouched
<1>. QED
  BY <1>4, <1>5, <1>6, <1>7 DEF Works

\* What a fault leaves of a lock and of an entry file.
LEMMA LeftInv ==
  ASSUME FilesInv, NEW w \in Writers, Busy(w), NEW text \in CutLocks(w), LockLeft(w, text),
         UNCHANGED published, entry' \in [Sources -> SUBSET Packages],
         writer' \in [Writers -> {Idle} \cup Working],
         \A v \in Writers : Busy(v)' => Busy(v) /\ writer'[v].text = writer[v].text
  PROVE  FilesInv'
<1>1. text \in Texts /\ On(w) \in Sources
  BY CutsAreTexts
<1>2. Genuine(text, Vouched \cup Slipped(w, text))
  BY <1>1, LeftIsGenuine
<1>3. Vouched' = Vouched \cup Slipped(w, text) /\ lock' = [lock EXCEPT ![On(w)] = text]
  BY DEF LockLeft, Vouched
<1>. QED
  BY <1>1, <1>2, <1>3, LockWritten

LEMMA EntriesLeft ==
  ASSUME FilesInv, NEW w \in Writers, writer[w] \in Working
  PROVE  /\ entry[On(w)] \in SUBSET Packages
         /\ CutEntries(w) \subseteq SUBSET Packages /\ CutRestores(w) \subseteq SUBSET Packages
         /\ \A text \in SUBSET Packages :
              Leaves(On(w), text) => entry' \in [Sources -> SUBSET Packages]
<1>1. On(w) \in Sources /\ writer[w].want.package \in Packages /\ writer[w].imports \subseteq Packages
  BY DEF Working, On, Records, Manifests
<1>2. entry[On(w)] \subseteq Packages
  BY <1>1 DEF FilesInv, FilesType
<1>3. Importing(w) \subseteq Packages
  BY <1>1, <1>2 DEF Importing
<1>. QED
  BY <1>1, <1>2, <1>3 DEF CutEntries, CutRestores, Leaves, FilesInv, FilesType

LEMMA FaultInv ==
  ASSUME FilesInv, NEW w \in Writers, Fails(w) \/ Crash(w)
  PROVE  FilesInv'
<1>. USE DEF To, Ends
<1>1. writer[w] \in Working /\ Busy(w)
  BY DEF Fails, EntryHidden, Entered, EntryFails, LockFails, RestoreFails, Crash,
         FilesInv, FilesType, Idle, Busy
<1>2. CASE EntryHidden(w)
  <2>1. writer' \in [Writers -> {Idle} \cup Working]
    BY <1>1, <1>2 DEF EntryHidden, Entered, FilesInv, FilesType, Working
  <2>2. \A v \in Writers : Busy(v)' => Busy(v) /\ writer'[v].text = writer[v].text
    BY <1>1, <1>2 DEF EntryHidden, Entered, FilesInv, FilesType, Working, Busy
  <2>. QED
    BY <1>2, <2>1, <2>2, LocksKept DEF EntryHidden, Entered, Vouched, FilesInv, FilesType
<1>3. CASE EntryFails(w) \/ RestoreFails(w)
  <2>1. writer' \in [Writers -> {Idle} \cup Working]
    BY <1>3 DEF EntryFails, RestoreFails, FilesInv, FilesType
  <2>2. \A v \in Writers : Busy(v)' => Busy(v) /\ writer'[v].text = writer[v].text
    BY <1>3 DEF EntryFails, RestoreFails, FilesInv, FilesType, Busy, Idle
  <2>3. entry' \in [Sources -> SUBSET Packages]
    BY <1>1, <1>3, EntriesLeft DEF EntryFails, RestoreFails
  <2>. QED
    BY <1>3, <2>1, <2>2, <2>3, LocksKept DEF EntryFails, RestoreFails, Vouched
<1>4. CASE LockFails(w)
  <2>1. writer' \in [Writers -> {Idle} \cup Working]
    BY <1>1, <1>4 DEF LockFails, FilesInv, FilesType, Working
  <2>2. \A v \in Writers : Busy(v)' => Busy(v) /\ writer'[v].text = writer[v].text
    BY <1>1, <1>4 DEF LockFails, FilesInv, FilesType, Working, Busy
  <2>3. PICK text \in CutLocks(w) : LockLeft(w, text)
    BY <1>4 DEF LockFails
  <2>4. UNCHANGED published /\ entry' \in [Sources -> SUBSET Packages]
    BY <1>4 DEF LockFails, FilesInv, FilesType
  <2>. QED
    BY <1>1, <2>1, <2>2, <2>3, <2>4, LeftInv
<1>5. CASE Crash(w)
  <2>1. writer' \in [Writers -> {Idle} \cup Working]
    BY <1>5 DEF Crash, FilesInv, FilesType
  <2>2. \A v \in Writers : Busy(v)' => Busy(v) /\ writer'[v].text = writer[v].text
    BY <1>5 DEF Crash, FilesInv, FilesType, Busy, Idle
  <2>3. PICK text \in CutLocks(w) : LockLeft(w, text)
    <3>1. lock[On(w)] \in CutLocks(w)
      BY DEF CutLocks
    <3>. QED
      BY <1>5, <3>1 DEF Crash
  <2>4. entry' \in [Sources -> SUBSET Packages]
    BY <1>1, <1>5, EntriesLeft DEF Crash
  <2>5. UNCHANGED published
    BY <1>5 DEF Crash
  <2>. QED
    BY <1>1, <2>1, <2>2, <2>3, <2>4, <2>5, LeftInv
<1>. QED
  BY <1>2, <1>3, <1>4, <1>5 DEF Fails

LEMMA PublishInv ==
  ASSUME FilesInv, Publish
  PROVE  FilesInv'
<1>1. PICK text \in Published :
        /\ lock' = [lock EXCEPT !["official"] = text]
        /\ published' = published \cup Range(text.lines)
        /\ UNCHANGED <<entry, writer, written>>
        /\ Vouched' = Vouched \cup Range(text.lines)
  BY DEF Publish, Vouched
<1>2. text \in Texts /\ text.lines \in Seq(Records)
  BY LocksAssumption DEF Texts
<1>3. Range(text.lines) = Elements(text.lines) /\ Elements(text.lines) \subseteq Records
  BY <1>2, LenProperties, ElementOfSeq DEF Range, Elements
<1>4. Genuine(text, Vouched')
  BY <1>1, <1>2, <1>3 DEF Genuine, Backed, Covers, SameIdentity
<1>5. \A s \in Sources : Genuine(lock'[s], Vouched')
  <2>1. \A s \in Sources : Genuine(lock[s], Vouched')
    BY <1>1, GenuineStays DEF FilesInv
  <2>. QED
    BY <1>1, <1>4, <2>1 DEF FilesInv, FilesType
<1>6. \A w \in Writers : Busy(w)' => Genuine(writer'[w].text, Vouched')
  BY <1>1, GenuineStays DEF FilesInv, Busy
<1>. QED
  BY <1>1, <1>2, <1>3, <1>5, <1>6 DEF FilesInv, FilesType, Sources

-----------------------------------------------------------------------------
\* What a host has let in, up to what its threads deploy.
Verified == [artifact : Artifacts, under : Trusts]
HostInv ==
  /\ admitted \subseteq Verified
  /\ trust \in Trusts /\ Genuine(half, Vouched) /\ Genuine(catalog, Vouched)
  /\ \A verified \in admitted : Warranted(verified)
  /\ \A taken \in installed :
       /\ Warranted(taken.plugin)
       /\ taken.lane = Lane(taken.plugin.artifact)
DeployedInv ==
  /\ \A t \in Threads : ~At(t, "idle") => Warranted(thread[t].plugin)
  /\ replaced # <<>> => Warranted(current.plugin)

\* What was warranted stays so: only the publisher's list changes, and it grows.
LEMMA WarrantedStays ==
  ASSUME NEW verified, Warranted(verified), Vouched \subseteq Vouched'
  PROVE  Warranted(verified)'
BY DEF Warranted, Vouched

\* admit, in the order of the code: the lock accounts for an official artifact,
\* the bytes are the manifest's, and a trusted key signed it.
LEMMA AdmittedIsWarranted ==
  ASSUME NEW artifact, Genuine(catalog, Vouched), Source(artifact) \in Sources,
         Admits(policy, trust, catalog, artifact)
  PROVE  Warranted([artifact |-> artifact, under |-> trust])
<1>1. Verifies(trust, artifact)
  BY DEF Admits, VerifiesSigned
<1>2. ASSUME Source(artifact) = "official"
      PROVE  /\ \E line \in Vouched : Accounts(line, artifact.manifest)
             /\ artifact.signer \in trust.keys
  <2>1. Accounted(catalog, artifact.manifest)
    BY <1>2 DEF Admits, Selects
  <2>2. artifact.manifest.source = "official"
    BY <1>2 DEF Source
  <2>3. VerifiesSigned(trust, artifact)
    BY <1>2 DEF Admits
  <2>. QED
    BY <1>1, <1>2, <2>1, <2>2, <2>3, AccountedIsPublished DEF VerifiesSigned, Verifies
<1>. QED
  BY <1>1, <1>2 DEF Warranted, Verifies, Vouched

LEMMA PublishedGrows ==
  ASSUME [HostingNext]_hostingVars
  PROVE  Vouched \subseteq Vouched'
BY DEF HostingNext, hostingVars, LockNext, lockVars, filesVars, Ask, Planned, Works, ReadEntry, Entered,
       WriteEntry, WriteLock, Restore, Fails, EntryHidden, EntryFails, LockFails, RestoreFails, LockLeft,
       Crash, Publish, Vouched

LEMMA HostInitInv ==
  ASSUME HostingInit
  PROVE  HostInv /\ DeployedInv
<1>1. trust \in Trusts /\ half = Nothing /\ catalog = Nothing /\ admitted = {} /\ installed = {}
  BY PoliciesAssumption DEF HostingInit, AdmissionInit
<1>2. Genuine(Nothing, Vouched)
  BY NothingIsGenuine
<1>3. replaced = <<>> /\ \A t \in Threads : At(t, "idle")
  BY DEF HostingInit, DeploymentInit, At, Rests
<1>. QED
  BY <1>1, <1>2, <1>3 DEF HostInv, DeployedInv

\* Steps of the programs and of the threads leave the host as it is.
LEMMA HostKept ==
  ASSUME HostInv, UNCHANGED hostVars, Vouched \subseteq Vouched'
  PROVE  HostInv'
<1>1. \A text : Genuine(text, Vouched) => Genuine(text, Vouched')
  BY GenuineStays
<1>2. \A verified : Warranted(verified) => Warranted(verified)'
  BY WarrantedStays
<1>. QED
  BY <1>1, <1>2 DEF HostInv, hostVars

LEMMA AdmissionInv ==
  ASSUME FilesInv, HostInv, AdmissionNext, UNCHANGED filesVars
  PROVE  HostInv'
<1>. USE DEF filesVars
<1>1. \A verified : Warranted(verified)' <=> Warranted(verified)
  BY DEF Warranted
<1>2. CASE ReadOfficial
  <2>1. Genuine(lock["official"], Vouched) /\ Genuine(Nothing, Vouched)
    BY NothingIsGenuine DEF FilesInv, Sources
  <2>. QED
    BY <1>1, <1>2, <2>1 DEF ReadOfficial, HostInv, Vouched
<1>3. CASE ReadUser
  <2>1. Genuine(Together(half, lock["user"]), Vouched)
    BY TogetherIsGenuine DEF HostInv, FilesInv, Sources
  <2>2. Genuine(half', Vouched) /\ Genuine(catalog', Vouched)
    BY <1>3, <2>1, NothingIsGenuine DEF ReadUser, HostInv
  <2>. QED
    BY <1>1, <1>3, <2>2 DEF ReadUser, HostInv, choices, Vouched
<1>4. CASE Admit
  <2>1. PICK artifact \in Artifacts :
          /\ Admits(policy, trust, catalog, artifact)
          /\ admitted' = {[artifact |-> artifact, under |-> trust]}
    BY <1>4 DEF Admit
  <2>2. Source(artifact) \in Sources
    BY ArtifactsAssumption DEF ArtifactShape, Manifests, Source
  <2>3. Warranted([artifact |-> artifact, under |-> trust])
    BY <2>1, <2>2, AdmittedIsWarranted DEF HostInv
  <2>. QED
    BY <1>1, <1>4, <2>1, <2>3 DEF Admit, HostInv, choices, Verified, Vouched
<1>5. CASE Install
  <2>1. PICK verified \in admitted :
          installed' = {[plugin |-> verified, lane |-> Lane(verified.artifact)]}
    BY <1>5 DEF Install
  <2>. QED
    BY <1>1, <1>5, <2>1 DEF Install, HostInv, choices, Vouched
<1>. QED
  BY <1>2, <1>3, <1>4, <1>5 DEF AdmissionNext

-----------------------------------------------------------------------------
Plugins == Verified \cup {Builtin}
Grafts == {plan.graft : plan \in Plans}
Deployments == [generation : Nat, registry : SUBSET Grafts, plugin : Plugins]
Replacing ==
  [at : {"checked", "locked", "loaded", "stored"}, plugin : Plugins, plan : Plans, live : Deployments]
DeploymentType ==
  /\ current \in Deployments
  /\ thread \in [Threads -> {Rests} \cup Replacing]
  /\ replaced \in Seq([plugin : Plugins, graft : Grafts])
\* A thread past the mutex holds it, so what it loaded is what is deployed.
DeploymentInv ==
  /\ DeploymentType
  /\ \A t \in Threads : thread[t].at \in {"locked", "loaded", "stored"} => holder = t
  /\ \A t \in Threads : At(t, "loaded") => thread[t].live = current
  /\ NoReplacementLost

LEMMA DeploymentInitInv ==
  ASSUME HostingInit
  PROVE  DeploymentInv
<1>. USE DEF HostingInit, DeploymentInit
<1>1. Len(replaced) = 0 /\ DOMAIN replaced = {} /\ replaced \in Seq([plugin : Plugins, graft : Grafts])
  BY EmptySeq
<1>2. DeploymentType
  BY <1>1 DEF DeploymentType, Deployments, Plugins
<1>3. NoReplacementLost
  BY <1>1 DEF NoReplacementLost
<1>. QED
  BY <1>2, <1>3 DEF DeploymentInv, At, Rests

\* Steps of a thread that store nothing.
LEMMA ThreadSteps ==
  ASSUME DeploymentInv, NEW t \in Threads,
         Lock(t) \/ LockPoisoned(t) \/ Load(t) \/ OverlayFails(t) \/ Unlock(t) \/ Panic(t)
  PROVE  DeploymentInv' /\ UNCHANGED <<current, replaced>>
<1>. USE DEF Goes, Returns, At, Rests
<1>1. UNCHANGED <<current, replaced>>
  BY DEF Lock, LockPoisoned, Load, OverlayFails, Unlock, Panic
<1>2. NoReplacementLost'
  BY <1>1 DEF DeploymentInv, NoReplacementLost
<1>3. thread[t] \in Replacing
  BY DEF Lock, LockPoisoned, Load, OverlayFails, Unlock, Panic, DeploymentInv, DeploymentType
<1>4. DeploymentType'
  <2>1. thread' \in [Threads -> {Rests} \cup Replacing]
    BY <1>3 DEF Lock, LockPoisoned, Load, OverlayFails, Unlock, Panic, DeploymentInv, DeploymentType, Replacing
  <2>. QED
    BY <1>1, <2>1 DEF DeploymentInv, DeploymentType
<1>5. ASSUME NEW u \in Threads, thread'[u].at \in {"locked", "loaded", "stored"}
      PROVE  holder' = u
  <2>1. CASE u = t
    BY <1>3, <1>5, <2>1 DEF Lock, LockPoisoned, Load, OverlayFails, Unlock, Panic, DeploymentInv, DeploymentType, Replacing
  <2>2. CASE u # t
    <3>1. thread'[u] = thread[u] /\ holder = u
      BY <1>5, <2>2 DEF Lock, LockPoisoned, Load, OverlayFails, Unlock, Panic, DeploymentInv, DeploymentType
    <3>2. holder # "nobody"
      BY <3>1, ThreadsAssumption
    <3>3. holder # t
      BY <2>2, <3>1
    <3>. QED
      BY <1>3, <3>1, <3>2, <3>3 DEF Lock, LockPoisoned, Load, OverlayFails, Unlock, Panic, DeploymentInv
  <2>. QED
    BY <2>1, <2>2
<1>6. \A u \in Threads : thread'[u].at = "loaded" => thread'[u].live = current'
  BY <1>1, <1>3 DEF Lock, LockPoisoned, Load, OverlayFails, Unlock, Panic, DeploymentInv, DeploymentType, Replacing
<1>. QED
  BY <1>1, <1>2, <1>4, <1>5, <1>6 DEF DeploymentInv

LEMMA CheckStep ==
  ASSUME DeploymentInv, NEW t \in Threads, NEW verified \in Verified, Check(t, verified)
  PROVE  DeploymentInv' /\ UNCHANGED <<current, replaced>>
<1>. USE DEF At, Rests
<1>1. PICK plan \in Plans :
        thread' = [thread EXCEPT ![t] =
                     [at |-> "checked", plugin |-> verified, plan |-> plan, live |-> current]]
  BY DEF Check
<1>2. UNCHANGED <<current, holder, replaced>>
  BY DEF Check
<1>3. NoReplacementLost'
  BY <1>2 DEF DeploymentInv, NoReplacementLost
<1>4. DeploymentType'
  BY <1>1, <1>2 DEF DeploymentInv, DeploymentType, Replacing, Plugins
<1>. QED
  BY <1>1, <1>2, <1>3, <1>4 DEF DeploymentInv, DeploymentType

\* What is stored continues what is deployed: nobody stored since the load.
LEMMA StoreStep ==
  ASSUME DeploymentInv, NEW t \in Threads, Store(t)
  PROVE  DeploymentInv'
<1>. USE DEF Goes, At, Rests
<1>. DEFINE new == [plugin |-> thread[t].plugin, graft |-> thread[t].plan.graft]
<1>1. thread[t] \in Replacing /\ thread[t].live = current
  BY DEF Store, DeploymentInv, DeploymentType
<1>2. /\ current' = [generation |-> current.generation + 1,
                     registry |-> current.registry \cup {new.graft}, plugin |-> new.plugin]
      /\ replaced' = Append(replaced, new)
      /\ holder' = holder /\ thread' = [thread EXCEPT ![t].at = "stored"]
  BY <1>1 DEF Store
<1>3. new \in [plugin : Plugins, graft : Grafts]
  BY <1>1 DEF Replacing, Grafts
<1>. HIDE DEF new
<1>4. replaced \in Seq([plugin : Plugins, graft : Grafts]) /\ Len(replaced) \in Nat
      /\ DOMAIN replaced = 1..Len(replaced)
  BY LenProperties DEF DeploymentInv, DeploymentType
<1>5. /\ replaced' \in Seq([plugin : Plugins, graft : Grafts])
      /\ Len(replaced') = Len(replaced) + 1 /\ DOMAIN replaced' = 1..(Len(replaced) + 1)
      /\ replaced'[Len(replaced) + 1] = new
      /\ \A i \in 1..Len(replaced) : replaced'[i] = replaced[i]
  BY <1>2, <1>3, <1>4
<1>6. DeploymentType'
  <2>1. current' \in Deployments
    BY <1>2, <1>3 DEF Deployments, DeploymentInv, DeploymentType
  <2>2. thread' \in [Threads -> {Rests} \cup Replacing]
    BY <1>1, <1>2 DEF Replacing, DeploymentInv, DeploymentType
  <2>. QED
    BY <1>5, <2>1, <2>2 DEF DeploymentType
<1>7. NoReplacementLost'
  <2>1. current'.generation = Len(replaced')
    BY <1>2, <1>5 DEF DeploymentInv, NoReplacementLost
  <2>2. current'.registry = {replaced'[i].graft : i \in DOMAIN replaced'}
    <3>1. {replaced'[i].graft : i \in 1..(Len(replaced) + 1)}
            = {replaced[i].graft : i \in 1..Len(replaced)} \cup {new.graft}
      BY <1>4, <1>5
    <3>. QED
      BY <1>2, <1>4, <1>5, <3>1 DEF DeploymentInv, NoReplacementLost
  <2>3. current'.plugin = Last(replaced').plugin
    BY <1>2, <1>5 DEF Last
  <2>. QED
    BY <2>1, <2>2, <2>3 DEF NoReplacementLost
<1>8. \A u \in Threads : u # t => thread'[u] = thread[u] /\ thread[u].at # "loaded"
  <2>1. holder = t
    BY DEF Store, DeploymentInv
  <2>. QED
    BY <1>2, <2>1 DEF DeploymentInv, DeploymentType
<1>9. thread'[t].at = "stored"
  BY <1>1, <1>2 DEF DeploymentInv, DeploymentType, Replacing
<1>10. holder = t
  BY DEF Store, DeploymentInv
<1>. QED
  BY <1>2, <1>6, <1>7, <1>8, <1>9, <1>10 DEF DeploymentInv

\* What the threads hold and deploy was admitted.
LEMMA ThreadsDeployedInv ==
  ASSUME HostInv, DeployedInv, DeploymentInv, UNCHANGED <<lockVars, hostVars>>,
         NEW t \in Threads,
         (\E verified \in admitted : Check(t, verified)) \/ Replaces(t) \/ Panic(t)
  PROVE  DeployedInv'
<1>. USE DEF Goes, Returns, At, Rests
<1>1. \A verified : Warranted(verified)' <=> Warranted(verified)
  BY DEF Warranted, lockVars
<1>2. CASE \E verified \in admitted : Check(t, verified)
  BY <1>1, <1>2 DEF Check, HostInv, DeployedInv, DeploymentInv, DeploymentType
<1>3. CASE Replaces(t) \/ Panic(t)
  <2>1. thread[t] \in Replacing
    BY <1>3 DEF Replaces, Lock, LockPoisoned, Load, OverlayFails, Store, Unlock, Panic,
                DeploymentInv, DeploymentType
  <2>2. Warranted(thread[t].plugin)
    BY <2>1 DEF DeployedInv, Replacing
  <2>3. \A u \in Threads : thread'[u].at # "idle" => thread[u].at # "idle" /\ thread'[u].plugin = thread[u].plugin
    BY <1>3, <2>1 DEF Replaces, Lock, LockPoisoned, Load, OverlayFails, Store, Unlock, Panic,
                DeploymentInv, DeploymentType, Replacing
  <2>4. (current' = current /\ replaced' = replaced) \/ current'.plugin = thread[t].plugin
    BY <1>3 DEF Replaces, Lock, LockPoisoned, Load, OverlayFails, Store, Unlock, Panic
  <2>. QED
    BY <1>1, <2>2, <2>3, <2>4 DEF DeployedInv
<1>. QED
  BY <1>2, <1>3

HostingInv == FilesInv /\ HostInv /\ DeployedInv /\ DeploymentInv

LEMMA HostingStep ==
  ASSUME HostingInv, [HostingNext]_hostingVars
  PROVE  HostingInv'
<1>. USE DEF HostingInv
<1>1. Vouched \subseteq Vouched'
  BY PublishedGrows
<1>2. ASSUME UNCHANGED <<deploymentVars>>
      PROVE  DeployedInv' /\ DeploymentInv'
  <2>1. \A verified : Warranted(verified) => Warranted(verified)'
    BY <1>1, WarrantedStays
  <2>. QED
    BY <1>2, <2>1 DEF deploymentVars, DeployedInv, DeploymentInv, DeploymentType, NoReplacementLost, At
<1>3. ASSUME UNCHANGED filesVars
      PROVE  FilesInv'
  BY <1>3 DEF filesVars, FilesInv, FilesType, Busy, Vouched
<1>4. CASE LockNext /\ UNCHANGED <<hostVars, deploymentVars>>
  <2>1. FilesInv'
    BY <1>4, AskInv, WorksInv, FaultInv, PublishInv DEF LockNext
  <2>. QED
    BY <1>1, <1>2, <1>4, <2>1, HostKept
<1>5. CASE AdmissionNext /\ UNCHANGED <<filesVars, deploymentVars>>
  BY <1>2, <1>3, <1>5, AdmissionInv
<1>6. ASSUME UNCHANGED <<lockVars, hostVars>>, NEW t \in Threads,
             (\E verified \in admitted : Check(t, verified)) \/ Replaces(t) \/ Panic(t)
      PROVE  HostingInv'
  <2>1. FilesInv' /\ HostInv'
    BY <1>1, <1>3, <1>6, HostKept DEF lockVars, filesVars
  <2>2. DeployedInv'
    BY <1>6, ThreadsDeployedInv
  <2>3. DeploymentInv'
    BY <1>6, CheckStep, ThreadSteps, StoreStep DEF Replaces, HostInv
  <2>. QED
    BY <2>1, <2>2, <2>3
<1>7. CASE UNCHANGED hostingVars
  BY <1>1, <1>2, <1>3, <1>7, HostKept DEF hostingVars, lockVars, filesVars
<1>. QED
  BY <1>4, <1>5, <1>6, <1>7 DEF HostingNext

LEMMA HostingAlways ==
  HostingSpec => []HostingInv
<1>1. HostingInit => HostingInv
  BY FilesInitInv, HostInitInv, DeploymentInitInv DEF HostingInv, HostingInit
<1>. QED
  BY <1>1, HostingStep, PTL DEF HostingSpec

\* What a host deploys and installs has the bytes its manifest names, was not
\* revoked, and if it is official a trusted key signed it and a line accounts for
\* it that its publisher listed, or that no program meant to write: what a cut
\* left of one, or a line end in a field made of one. Two programs, faults of
\* theirs, editions and policies do not matter otherwise (plugin.rs:244).
THEOREM WhatRunsIsWarranted ==
  HostingSpec => []PluginsAreWarranted
<1>1. HostingInv => PluginsAreWarranted
  BY DEF HostingInv, HostInv, DeployedInv, PluginsAreWarranted, Lane, Assurance
<1>. QED
  BY <1>1, HostingAlways, PTL

\* Every replacement that was stored is part of what is deployed, for any number
\* of threads, panics included (HotDeployment::replace).
THEOREM ReplacementsAreKept ==
  HostingSpec => []NoReplacementLost
<1>1. HostingInv => NoReplacementLost
  BY DEF HostingInv, DeploymentInv
<1>. QED
  BY <1>1, HostingAlways, PTL

-----------------------------------------------------------------------------
(* What was reported as written stays imported. Where two writers never       *)
(* overlapped, nobody else touches the entry file between a program's reading *)
(* it and its putting it back.                                                *)

Holds(w) == writer[w].at \in {"opened", "entered", "failed"}
Alone(w) == On(w) \notin blurred
ImportInv ==
  /\ written \subseteq Records
  /\ RecordsAreImported
  /\ \A v, w \in Writers : v # w /\ Busy(v) /\ Busy(w) /\ On(v) = On(w) => ~Alone(v)
  /\ \A w \in Writers : Holds(w) /\ Alone(w) =>
       \A record \in written : record.source = On(w) => record.package \in writer[w].imports
  /\ \A w \in Writers : writer[w].at = "entered" /\ Alone(w) =>
       writer[w].want.package \in entry[On(w)]

LEMMA WriterOnSources ==
  ASSUME FilesInv, NEW w \in Writers, Busy(w)
  PROVE  writer[w] \in Working /\ On(w) \in Sources
<1>1. writer[w] \in Working
  BY DEF FilesInv, FilesType, Busy, Idle
<1>2. writer[w].want \in Records
  BY <1>1 DEF Working
<1>. QED
  BY <1>1, <1>2 DEF On, Records, Manifests

\* A step of a busy writer that goes on with its request, or ends it.
LEMMA WriterGoesOn ==
  ASSUME FilesInv, NEW w \in Writers, Works(w) \/ Fails(w) \/ Crash(w)
  PROVE  /\ writer[w] \in Working /\ Busy(w) /\ On(w) \in Sources
         /\ blurred \subseteq blurred'
         /\ \A v \in Writers \ {w} : writer'[v] = writer[v]
         /\ \A v \in Writers : Busy(v)' => Busy(v) /\ On(v)' = On(v)
<1>1. writer[w] \in Working /\ Busy(w)
  BY DEF Works, ReadEntry, Entered, WriteEntry, WriteLock, Restore, Fails, EntryHidden,
         EntryFails, LockFails, RestoreFails, Crash,
         FilesInv, FilesType, Idle, Busy
<1>2. On(w) \in Sources
  BY <1>1 DEF Working, On, Records, Manifests
<1>3. blurred \subseteq blurred'
  BY DEF Works, ReadEntry, Entered, WriteEntry, WriteLock, Restore, Fails, EntryHidden,
         EntryFails, LockFails, RestoreFails, Crash, Leaves
<1>4. \A v \in Writers \ {w} : writer'[v] = writer[v]
  BY DEF Works, ReadEntry, Entered, WriteEntry, WriteLock, Restore, Fails, EntryHidden,
         EntryFails, LockFails, RestoreFails, Crash,
         FilesInv, FilesType, To, Ends
<1>5. writer'[w] = Idle \/ writer'[w].want = writer[w].want
  BY <1>1 DEF Works, ReadEntry, Entered, WriteEntry, WriteLock, Restore, Fails, EntryHidden,
         EntryFails, LockFails, RestoreFails, Crash,
         FilesInv, FilesType, To, Ends, Working
<1>6. \A v \in Writers : Busy(v)' => Busy(v) /\ On(v)' = On(v)
  BY <1>1, <1>4, <1>5 DEF Busy, On, Idle
<1>. QED
  BY <1>1, <1>2, <1>3, <1>4, <1>6

\* A file that only grows keeps what was imported.
LEMMA EntryGrows ==
  ASSUME FilesInv, ImportInv, NEW w \in Writers, Works(w) \/ Fails(w) \/ Crash(w),
         UNCHANGED written,
         \A s \in Sources : s \notin blurred' => entry[s] \subseteq entry'[s],
         Holds(w)' /\ Alone(w)' => \/ Holds(w) /\ writer'[w].imports = writer[w].imports
                                  \/ writer'[w].imports = entry[On(w)],
         writer'[w].at = "entered" /\ Alone(w)' => writer'[w].want.package \in entry'[On(w)]
  PROVE  ImportInv'
<1>1. /\ writer[w] \in Working /\ Busy(w) /\ On(w) \in Sources
      /\ blurred \subseteq blurred'
      /\ \A v \in Writers \ {w} : writer'[v] = writer[v]
      /\ \A v \in Writers : Busy(v)' => Busy(v) /\ On(v)' = On(v)
  BY WriterGoesOn
<1>2. \A record \in written : record.source \in Sources
  BY DEF ImportInv, Records, Manifests
<1>3. RecordsAreImported'
  BY <1>1, <1>2 DEF ImportInv, RecordsAreImported
<1>4. \A v, u \in Writers : v # u /\ Busy(v)' /\ Busy(u)' /\ On(v)' = On(u)' => ~Alone(v)'
  BY <1>1 DEF ImportInv, Alone
<1>5. \A v \in Writers : Holds(v)' => Busy(v)'
  BY DEF Holds, Busy
<1>6. ASSUME NEW v \in Writers, Holds(v)', Alone(v)',
             NEW record \in written, record.source = On(v)'
      PROVE  record.package \in writer'[v].imports
  <2>1. Busy(v) /\ On(v)' = On(v) /\ Alone(v)
    BY <1>1, <1>5, <1>6 DEF Alone
  <2>2. record.package \in entry[On(v)]
    BY <1>6, <2>1 DEF ImportInv, RecordsAreImported, Alone
  <2>3. CASE v = w
    BY <1>6, <2>1, <2>2, <2>3 DEF ImportInv
  <2>4. CASE v # w
    BY <1>1, <1>6, <2>1, <2>4 DEF ImportInv, Holds
  <2>. QED
    BY <2>3, <2>4
<1>7. ASSUME NEW v \in Writers, writer'[v].at = "entered", Alone(v)'
      PROVE  writer'[v].want.package \in entry'[On(v)']
  <2>1. Busy(v)' /\ Busy(v) /\ On(v)' = On(v) /\ Alone(v)
    <3>1. Busy(v)'
      BY <1>7 DEF Busy
    <3>. QED
      BY <1>1, <1>7, <3>1 DEF Alone
  <2>2. CASE v = w
    BY <1>7, <2>1, <2>2
  <2>3. CASE v # w
    <3>1. writer[v] \in Working
      BY <2>1 DEF FilesInv, FilesType, Busy, Idle
    <3>2. On(v) \in Sources
      BY <3>1 DEF Working, On, Records, Manifests
    <3>3. entry[On(v)] \subseteq entry'[On(v)]
      BY <1>7, <2>1, <3>2 DEF Alone
    <3>4. writer'[v] = writer[v]
      BY <1>1, <2>3
    <3>. QED
      BY <1>7, <2>1, <3>3, <3>4 DEF ImportInv
  <2>. QED
    BY <2>2, <2>3
<1>. QED
  BY <1>3, <1>4, <1>6, <1>7 DEF ImportInv

\* A new request blurs the file it shares; one that is alone knows nothing yet.
LEMMA AskImports ==
  ASSUME FilesInv, ImportInv, NEW w \in Writers, Ask(w)
  PROVE  ImportInv'
<1>1. PICK request \in Requests :
        \E seen : Planned(w, request, seen)
  BY DEF Ask
<1>. DEFINE record == request.record
<1>2. PICK seen :
        /\ ~Busy(w)
        /\ writer' = [writer EXCEPT ![w] =
             [at |-> "planned", want |-> record, lines |-> request.lines, seen |-> seen,
              text |-> WithLines(seen, request.lines), imports |-> {}]]
        /\ blurred' = blurred \cup
             {o \in {record.source} : \E v \in Writers \ {w} : Busy(v) /\ On(v) = record.source}
        /\ UNCHANGED <<lock, entry, published, written>>
  BY <1>1 DEF Planned
<1>. HIDE DEF record
<1>. DEFINE new == [at |-> "planned", want |-> record, lines |-> request.lines, seen |-> seen,
                    text |-> WithLines(seen, request.lines), imports |-> {}]
<1>3. /\ \A v \in Writers \ {w} : writer'[v] = writer[v]
      /\ writer'[w] = new
  BY <1>2 DEF FilesInv, FilesType
<1>4. new.at = "planned" /\ new.want = record
  OBVIOUS
<1>. HIDE DEF new
<1>5. blurred \subseteq blurred'
  BY <1>2
<1>6. ASSUME NEW v \in Writers, NEW u \in Writers, v # u, Busy(v)', Busy(u)', On(v)' = On(u)'
      PROVE  ~Alone(v)'
  <2>1. CASE v = w
    BY <1>2, <1>3, <1>4, <1>6, <2>1 DEF Busy, On, Alone
  <2>2. CASE u = w
    BY <1>2, <1>3, <1>4, <1>6, <2>2 DEF Busy, On, Alone
  <2>3. CASE v # w /\ u # w
    BY <1>3, <1>5, <1>6, <2>3 DEF ImportInv, Busy, On, Alone
  <2>. QED
    BY <2>1, <2>2, <2>3
<1>7. \A v \in Writers : Holds(v)' => v # w
  BY <1>3, <1>4 DEF Holds
<1>8. \A v \in Writers : writer'[v].at = "entered" => v # w
  BY <1>3, <1>4
<1>9. \A v \in Writers \ {w} : Alone(v)' => Alone(v)
  BY <1>3, <1>5 DEF Alone, On
<1>10. written' \subseteq Records /\ RecordsAreImported'
  BY <1>2, <1>5 DEF ImportInv, RecordsAreImported
<1>. QED
  BY <1>2, <1>3, <1>6, <1>7, <1>8, <1>9, <1>10 DEF ImportInv, Holds, On

\* Reading and writing the entry file, writing the lock, putting the file back.
LEMMA WorksImports ==
  ASSUME FilesInv, ImportInv, NEW w \in Writers, Works(w)
  PROVE  ImportInv'
<1>. USE DEF To, Ends
<1>1. /\ writer[w] \in Working /\ Busy(w) /\ On(w) \in Sources
      /\ blurred \subseteq blurred'
      /\ \A v \in Writers \ {w} : writer'[v] = writer[v]
      /\ \A v \in Writers : Busy(v)' => Busy(v) /\ On(v)' = On(v)
  BY WriterGoesOn
<1>2. CASE ReadEntry(w)
  <2>1. /\ entry' = entry /\ written' = written /\ writer'[w].imports = entry[On(w)]
        /\ writer'[w].at = "entered" => writer'[w].want.package \in entry[On(w)]
        /\ writer'[w].want = writer[w].want
    BY <1>1, <1>2 DEF ReadEntry, Entered, FilesInv, FilesType, Working
  <2>2. On(w)' = On(w)
    BY <2>1 DEF On
  <2>. QED
    BY <2>1, <2>2, EntryGrows
<1>3. CASE WriteEntry(w)
  <2>1. /\ entry' = [entry EXCEPT ![On(w)] = Importing(w)] /\ written' = written
        /\ blurred' = blurred /\ writer[w].at = "opened"
        /\ writer'[w] = [writer[w] EXCEPT !.at = "entered"]
    BY <1>3 DEF WriteEntry, FilesInv, FilesType
  <2>2. writer'[w].imports = writer[w].imports /\ writer'[w].want = writer[w].want
        /\ On(w)' = On(w) /\ Holds(w)
    BY <1>1, <2>1 DEF Working, Holds, On
  <2>3. entry'[On(w)] = Importing(w) /\ \A s \in Sources \ {On(w)} : entry'[s] = entry[s]
    BY <1>1, <2>1 DEF FilesInv, FilesType
  <2>4. \A record \in written : record.source \in Sources
    BY DEF ImportInv, Records, Manifests
  <2>5. Alone(w) => \A record \in written :
          record.source = On(w) => record.package \in Importing(w)
    BY <2>2 DEF ImportInv, Importing, RecordsAreImported, Alone
  <2>6. writer[w].want.package \in Importing(w)
    BY DEF Importing
  <2>7. RecordsAreImported'
    BY <2>1, <2>3, <2>4, <2>5 DEF ImportInv, RecordsAreImported, Alone
  <2>8. \A v \in Writers : Holds(v)' => Busy(v)' /\ Holds(v) /\ writer'[v].imports = writer[v].imports
    BY <1>1, <2>2 DEF Holds, Busy
  <2>9. \A v \in Writers \ {w} : writer[v].at = "entered" /\ Alone(v) => On(v) # On(w)
    BY <1>1 DEF ImportInv, Busy
  <2>10. \A v \in Writers : Busy(v) => On(v) \in Sources
    BY WriterOnSources
  <2>11. ASSUME NEW v \in Writers, writer'[v].at = "entered", Alone(v)'
         PROVE  writer'[v].want.package \in entry'[On(v)']
    <3>1. CASE v = w
      BY <2>2, <2>3, <2>6, <3>1
    <3>2. CASE v # w
      <4>1. writer'[v] = writer[v] /\ On(v)' = On(v) /\ Alone(v) /\ Busy(v)
        BY <1>1, <2>1, <2>11, <3>2 DEF On, Alone, Busy
      <4>. QED
        BY <2>3, <2>9, <2>10, <2>11, <3>2, <4>1 DEF ImportInv
    <3>. QED
      BY <3>1, <3>2
  <2>12. \A v \in Writers : Busy(v)' => (Alone(v)' <=> Alone(v))
    BY <1>1, <2>1 DEF Alone
  <2>. QED
    BY <1>1, <2>1, <2>7, <2>8, <2>11, <2>12 DEF ImportInv
<1>4. CASE WriteLock(w)
  <2>1. /\ entry' = entry /\ blurred' = blurred /\ written' = written \cup {writer[w].want}
        /\ writer[w].at = "entered" /\ writer'[w] = Idle
    BY <1>4 DEF WriteLock, FilesInv, FilesType
  <2>2. writer[w].want \in Records /\ writer[w].want.source = On(w)
    BY <1>1 DEF Working, On
  <2>3. RecordsAreImported'
    BY <2>1, <2>2 DEF ImportInv, RecordsAreImported, Alone
  <2>4. \A v \in Writers : Busy(v)' => v # w
    BY <2>1 DEF Busy, Idle
  <2>5. \A v \in Writers : Busy(v)' => (Alone(v)' <=> Alone(v))
    BY <1>1, <2>1 DEF Alone
  <2>6. \A v \in Writers \ {w} : Busy(v) /\ Alone(v) => On(v) # On(w)
    BY <1>1 DEF ImportInv
  <2>7. \A v \in Writers : Holds(v)' \/ writer'[v].at = "entered" => Busy(v)' /\ v # w
    BY <2>1 DEF Busy, Holds, Idle
  <2>8. \A v \in Writers : Holds(v)' /\ Alone(v)' =>
          \A record \in written' : record.source = On(v)' => record.package \in writer'[v].imports
    BY <1>1, <2>1, <2>2, <2>5, <2>6, <2>7 DEF ImportInv, Holds
  <2>9. \A v \in Writers : writer'[v].at = "entered" /\ Alone(v)' =>
          writer'[v].want.package \in entry'[On(v)']
    BY <1>1, <2>1, <2>5, <2>7 DEF ImportInv
  <2>. QED
    BY <1>1, <2>1, <2>2, <2>3, <2>5, <2>8, <2>9 DEF ImportInv
<1>5. CASE Restore(w)
  <2>1. /\ entry' = [entry EXCEPT ![On(w)] = writer[w].imports] /\ written' = written
        /\ blurred' = blurred /\ writer[w].at = "failed" /\ writer'[w] = Idle
    BY <1>5 DEF Restore, FilesInv, FilesType
  <2>2. entry'[On(w)] = writer[w].imports /\ \A s \in Sources \ {On(w)} : entry'[s] = entry[s]
    BY <1>1, <2>1 DEF FilesInv, FilesType
  <2>3. Holds(w) /\ \A record \in written : record.source \in Sources
    BY <2>1 DEF ImportInv, Records, Manifests, Holds
  <2>4. RecordsAreImported'
    BY <2>1, <2>2, <2>3 DEF ImportInv, RecordsAreImported, Alone
  <2>5. \A v \in Writers : Holds(v)' \/ writer'[v].at = "entered" => Busy(v)' /\ v # w
    BY <2>1 DEF Busy, Holds, Idle
  <2>6. \A v \in Writers : Busy(v)' => (Alone(v)' <=> Alone(v))
    BY <1>1, <2>1 DEF Alone
  <2>7. \A v \in Writers \ {w} : Busy(v) /\ Alone(v) => On(v) # On(w)
    BY <1>1 DEF ImportInv
  <2>8. \A v \in Writers : Busy(v) => On(v) \in Sources
    BY WriterOnSources
  <2>9. \A v \in Writers : writer'[v].at = "entered" /\ Alone(v)' =>
          writer'[v].want.package \in entry'[On(v)']
    BY <1>1, <2>2, <2>5, <2>6, <2>7, <2>8 DEF ImportInv
  <2>10. \A v \in Writers : Holds(v)' /\ Alone(v)' =>
           \A record \in written' : record.source = On(v)' => record.package \in writer'[v].imports
    BY <1>1, <2>1, <2>5, <2>6 DEF ImportInv, Holds
  <2>. QED
    BY <1>1, <2>1, <2>4, <2>6, <2>9, <2>10 DEF ImportInv
<1>. QED
  BY <1>2, <1>3, <1>4, <1>5 DEF Works

\* A fault leaves the entry file, lets it grow, or blurs it.
LEMMA FaultImports ==
  ASSUME FilesInv, ImportInv, NEW w \in Writers, Fails(w) \/ Crash(w)
  PROVE  ImportInv'
<1>1. writer[w] \in Working /\ On(w) \in Sources /\ (Busy(w)' => On(w)' = On(w))
  BY WriterGoesOn
<1>2. CASE EntryHidden(w)
  <2>1. /\ entry' = entry /\ written' = written /\ On(w) \in blurred'
        /\ writer'[w] = [writer[w] EXCEPT !.imports = {}, !.at = "opened"]
    BY <1>1, <1>2 DEF EntryHidden, Entered, FilesInv, FilesType, Working
  <2>2. writer'[w].at = "opened" /\ writer'[w].want = writer[w].want
    BY <1>1, <2>1 DEF Working
  <2>3. ~Alone(w)'
    BY <2>1, <2>2 DEF Alone, On
  <2>. QED
    BY <1>2, <2>1, <2>2, <2>3, EntryGrows DEF Fails
<1>3. CASE EntryFails(w) \/ LockFails(w) \/ RestoreFails(w) \/ Crash(w)
  <2>1. \A text : Leaves(On(w), text) =>
          \A s \in Sources : s \notin blurred' => entry[s] \subseteq entry'[s]
    BY <1>1 DEF Leaves, FilesInv, FilesType
  <2>2. \A s \in Sources : s \notin blurred' => entry[s] \subseteq entry'[s]
    BY <1>3, <2>1 DEF EntryFails, LockFails, RestoreFails, Crash
  <2>3. writer'[w] = Idle \/ (LockFails(w) /\ writer'[w] = [writer[w] EXCEPT !.at = "failed"])
    BY <1>3 DEF EntryFails, LockFails, RestoreFails, Crash, FilesInv, FilesType, Ends, To
  <2>4. Holds(w)' => Holds(w) /\ writer'[w].imports = writer[w].imports
    BY <1>1, <2>3 DEF Holds, Idle, Working, LockFails
  <2>5. writer'[w].at # "entered"
    BY <1>1, <2>3 DEF Idle, Working
  <2>6. UNCHANGED written
    BY <1>3 DEF EntryFails, LockFails, RestoreFails, Crash
  <2>. QED
    BY <2>2, <2>4, <2>5, <2>6, EntryGrows
<1>. QED
  BY <1>2, <1>3 DEF Fails

LEMMA PublishImports ==
  ASSUME FilesInv, ImportInv, Publish
  PROVE  ImportInv'
<1>1. UNCHANGED <<entry, writer, written>> /\ blurred \subseteq blurred'
  BY DEF Publish
<1>. QED
  BY <1>1 DEF ImportInv, RecordsAreImported, Busy, On, Alone, Holds

LEMMA ImportStep ==
  ASSUME FilesInv, ImportInv, [HostingNext]_hostingVars
  PROVE  ImportInv'
<1>1. CASE UNCHANGED filesVars
  BY <1>1 DEF filesVars, ImportInv, RecordsAreImported, Busy, On, Alone, Holds
<1>2. CASE LockNext
  BY <1>2, AskImports, WorksImports, FaultImports, PublishImports DEF LockNext
<1>. QED
  BY <1>1, <1>2 DEF HostingNext, hostingVars, lockVars, filesVars

\* For any requests, editions and faults, what one of the two programs reported
\* as written is imported by the entry file of its lock from then on, after a
\* crash, a failed write and its rollback too; but for a file that two of them
\* worked on at a time, or that a fault cut or hid (plugin.rs, submit_plugin).
THEOREM WhatIsWrittenIsImported ==
  HostingSpec => []RecordsAreImported
<1>1. HostingInit => ImportInv
  BY DEF HostingInit, LockInit, ImportInv, RecordsAreImported, Busy, Holds, Idle
<1>2. HostingInv /\ ImportInv /\ [HostingNext]_hostingVars => ImportInv'
  BY ImportStep DEF HostingInv
<1>3. ImportInv => RecordsAreImported
  BY DEF ImportInv
<1>. QED
  BY <1>1, <1>2, <1>3, HostingAlways, PTL DEF HostingSpec

-----------------------------------------------------------------------------
(* No provenance is lost. A program writes the text it worked out when it     *)
(* asked, and what it asked is that this text with the old line still in it   *)
(* reads: so the new line supersedes the one it replaces.                     *)

WorkedOut(text, seen, lines) ==
  Len(lines) \in {1, 2} /\ text = WithLines(seen, lines) /\ AcceptsLines(seen, lines)
ProvenanceInv ==
  /\ left \in [asks : Nat, faults : Nat, editions : Nat, openings : Nat, calls : Nat]
  /\ \A w \in Writers : Busy(w) =>
       WorkedOut(writer[w].text, writer[w].seen, writer[w].lines)

\* The lines of a text that has lost one: those before it, those after it.
LEMMA RemovedLines ==
  ASSUME NEW S, NEW s \in Seq(S), NEW k \in 1..Len(s)
  PROVE  /\ RemoveAt(s, k) \in Seq(S) /\ Len(RemoveAt(s, k)) = Len(s) - 1
         /\ \A i \in 1..(Len(s) - 1) : RemoveAt(s, k)[i] = IF i < k THEN s[i] ELSE s[i + 1]
<1>. DEFINE before == SubSeq(s, 1, k - 1)
            after == SubSeq(s, k + 1, Len(s))
<1>1. Len(s) \in Nat /\ \A i \in 1..Len(s) : s[i] \in S
  BY LenProperties, ElementOfSeq
<1>2. before \in Seq(S) /\ Len(before) = k - 1 /\ \A i \in 1..(k - 1) : before[i] = s[i]
  <2>1. \A i \in 1..(k - 1) : s[i] \in S
    BY <1>1
  <2>. QED
    BY <1>1, <2>1, SubSeqProperties
<1>3. after \in Seq(S) /\ Len(after) = Len(s) - k
      /\ \A i \in 1..(Len(s) - k) : after[i] = s[k + i]
  <2>1. \A i \in (k + 1)..Len(s) : s[i] \in S
    BY <1>1
  <2>. QED
    BY <1>1, <2>1, SubSeqProperties
<1>. HIDE DEF before, after
<1>4. /\ before \o after \in Seq(S)
      /\ Len(before \o after) = Len(before) + Len(after)
      /\ \A i \in 1..(Len(before) + Len(after)) :
           (before \o after)[i] = IF i <= Len(before) THEN before[i] ELSE after[i - Len(before)]
  BY <1>2, <1>3, ConcatProperties
<1>5. RemoveAt(s, k) = before \o after
  BY DEF RemoveAt, before, after
<1>6. ASSUME NEW i \in 1..(Len(s) - 1)
      PROVE  (before \o after)[i] = IF i < k THEN s[i] ELSE s[i + 1]
  <2>1. CASE i < k
    BY <1>1, <1>2, <1>3, <1>4, <2>1
  <2>2. CASE ~(i < k)
    <3>1. i - Len(before) \in 1..(Len(s) - k) /\ k + (i - Len(before)) = i + 1
      BY <1>1, <1>2, <2>2
    <3>2. after[i - Len(before)] = s[i + 1]
      BY <1>3, <3>1
    <3>3. (before \o after)[i] = after[i - Len(before)]
      <4>1. i \in 1..(Len(before) + Len(after)) /\ ~(i <= Len(before))
        BY <1>1, <1>2, <1>3, <2>2
      <4>. QED
        BY <1>4, <4>1
    <3>. QED
      BY <2>2, <3>2, <3>3
  <2>. QED
    BY <2>1, <2>2
<1>7. Len(before \o after) = Len(s) - 1
  BY <1>1, <1>2, <1>3, <1>4
<1>. QED
  BY <1>4, <1>5, <1>6, <1>7, Zenon

\* A record appended to lines that may stand before it, in their order, reads,
\* and drops no identity and no provenance of theirs.
LEMMA AppendedKeeps ==
  ASSUME NEW old \in Texts, NEW record \in Records, Accepts(old, record),
         NEW text \in Texts, text.header = old.header, text.torn = old.torn,
         NEW f, Len(text.lines) \in Nat,
         \A i \in 1..Len(text.lines) : f[i] \in 1..Len(old.lines) /\ text.lines[i] = old.lines[f[i]],
         \A i, j \in 1..Len(text.lines) : i < j => f[i] < f[j],
         \A m \in 1..Len(old.lines) :
           \/ \E i \in 1..Len(text.lines) : f[i] = m
           \/ SameIdentity(old.lines[m], record)
  PROVE  /\ Readable(Appended(text, record))
         /\ \A line \in Listed(old) : \E new \in Listed(Appended(text, record)) :
              SameIdentity(line, new) /\ Carries(line) \subseteq Carries(new)
<1>. DEFINE new == Appended(text, record)
            full == Appended(old, record)
            n == Len(text.lines)
            m == Len(old.lines)
<1>1. /\ new.header = text.header /\ new.torn = text.torn
      /\ DOMAIN new.lines = 1..(n + 1)
      /\ \A i \in 1..n : new.lines[i] = text.lines[i]
      /\ new.lines[n + 1] = record
  BY AppendedLines
<1>2. /\ DOMAIN old.lines = 1..m /\ m \in Nat
      /\ DOMAIN full.lines = 1..(m + 1)
      /\ \A i \in 1..m : full.lines[i] = old.lines[i]
      /\ full.lines[m + 1] = record
      /\ full.header = old.header /\ full.torn = old.torn
  BY AppendedLines
<1>. HIDE DEF new, full
<1>3. /\ full.header \in {"absent", "ours"} /\ ~full.torn
      /\ \A i, j \in 1..(m + 1) : i < j /\ SameIdentity(full.lines[i], full.lines[j])
           => Supersedes(full.lines[i], full.lines[j])
  BY <1>2 DEF Accepts, Readable, full
<1>. DEFINE g(i) == IF i = n + 1 THEN m + 1 ELSE f[i]
<1>. HIDE DEF n, m
<1>4. ASSUME NEW i \in 1..(n + 1)
      PROVE  g(i) \in 1..(m + 1) /\ new.lines[i] = full.lines[g(i)]
  <2>0. n \in Nat /\ m \in Nat
    BY <1>2 DEF n
  <2>1. CASE i = n + 1
    BY <1>1, <1>2, <2>0, <2>1
  <2>2. CASE i # n + 1
    <3>1. i \in 1..n /\ g(i) = f[i] /\ f[i] \in 1..m
      BY <2>0, <2>2 DEF n, m
    <3>2. new.lines[i] = text.lines[i] /\ text.lines[i] = old.lines[f[i]]
      BY <1>1, <3>1 DEF n
    <3>3. full.lines[f[i]] = old.lines[f[i]]
      BY <1>2, <3>1
    <3>. QED
      BY <2>0, <3>1, <3>2, <3>3
  <2>. QED
    BY <2>1, <2>2
<1>5. ASSUME NEW i \in 1..(n + 1), NEW j \in 1..(n + 1), i < j
      PROVE  g(i) < g(j)
  <2>0. n \in Nat /\ m \in Nat
    BY <1>2 DEF n
  <2>1. i \in 1..n /\ g(i) = f[i] /\ f[i] \in 1..m
    BY <1>5, <2>0 DEF n, m
  <2>2. CASE j = n + 1
    BY <2>0, <2>1, <2>2
  <2>3. CASE j # n + 1
    <3>1. j \in 1..n /\ g(j) = f[j]
      BY <2>0, <2>3
    <3>. QED
      BY <1>5, <2>1, <3>1 DEF n
  <2>. QED
    BY <2>2, <2>3
<1>. HIDE DEF g
<1>6. Readable(new)
  <2>1. \A i, j \in DOMAIN new.lines : i < j /\ SameIdentity(new.lines[i], new.lines[j])
          => Supersedes(new.lines[i], new.lines[j])
    <3>. SUFFICES ASSUME NEW i \in 1..(n + 1), NEW j \in 1..(n + 1), i < j,
                         SameIdentity(new.lines[i], new.lines[j])
                  PROVE  Supersedes(new.lines[i], new.lines[j])
      BY <1>1
    <3>1. /\ g(i) \in 1..(m + 1) /\ g(j) \in 1..(m + 1) /\ g(i) < g(j)
          /\ new.lines[i] = full.lines[g(i)] /\ new.lines[j] = full.lines[g(j)]
      BY <1>4, <1>5
    <3>. QED
      BY <1>3, <3>1
  <2>. QED
    BY <1>1, <1>2, <1>3, <2>1 DEF Readable
<1>. USE DEF n, m
<1>7. ASSUME NEW line \in Listed(old)
      PROVE  \E fresh \in Listed(new) : SameIdentity(line, fresh) /\ Carries(line) \subseteq Carries(fresh)
  <2>1. PICK i \in 1..m : /\ line = old.lines[i]
                          /\ \A j \in 1..m : j > i => ~SameIdentity(old.lines[i], old.lines[j])
    BY <1>2 DEF Listed
  <2>2. CASE SameIdentity(line, record)
    <3>1. Supersedes(line, record)
      <4>1. i \in 1..(m + 1) /\ m + 1 \in 1..(m + 1) /\ i < m + 1
        BY <1>2
      <4>. QED
        BY <1>2, <1>3, <2>1, <2>2, <4>1
    <3>2. record \in Listed(new)
      <4>1. n + 1 \in DOMAIN new.lines /\ \A j \in DOMAIN new.lines : ~(j > n + 1)
        BY <1>1
      <4>. QED
        BY <1>1, <4>1 DEF Listed
    <3>. QED
      BY <2>2, <3>1, <3>2 DEF Supersedes
  <2>3. CASE ~SameIdentity(line, record)
    <3>1. PICK k \in 1..n : f[k] = i
      BY <2>1, <2>3
    <3>2. new.lines[k] = line /\ k \in DOMAIN new.lines
      BY <1>1, <2>1, <3>1
    <3>3. ASSUME NEW j \in DOMAIN new.lines, j > k
          PROVE  ~SameIdentity(new.lines[k], new.lines[j])
      <4>1. CASE j = n + 1
        BY <1>1, <2>3, <3>2, <4>1
      <4>2. CASE j # n + 1
        <5>1. j \in 1..n /\ k < j
          BY <1>1, <3>3, <4>2
        <5>2. f[j] \in 1..m /\ f[j] > i /\ new.lines[j] = old.lines[f[j]]
          BY <1>1, <1>2, <3>1, <5>1
        <5>. QED
          BY <2>1, <3>2, <5>2
      <4>. QED
        BY <4>1, <4>2
    <3>4. line \in Listed(new)
      BY <3>2, <3>3 DEF Listed
    <3>. QED
      BY <3>4 DEF SameIdentity
  <2>. QED
    BY <2>2, <2>3
<1>. QED
  BY <1>6, <1>7 DEF new

\* with_record takes out at most the line that the new one supersedes.
LEMMA WithRecordKeeps ==
  ASSUME NEW old \in Texts, NEW record \in Records, Accepts(old, record)
  PROVE  /\ Readable(WithRecord(old, record))
         /\ \A line \in Listed(old) : \E new \in Listed(WithRecord(old, record)) :
              SameIdentity(line, new) /\ Carries(line) \subseteq Carries(new)
<1>1. old.lines \in Seq(Records) /\ Len(old.lines) \in Nat /\ DOMAIN old.lines = 1..Len(old.lines)
  BY LenProperties DEF Texts
<1>2. CASE Dead(old, record) = {}
  <2>. DEFINE f == [i \in 1..Len(old.lines) |-> i]
  <2>1. \A i \in 1..Len(old.lines) : f[i] = i
    OBVIOUS
  <2>. HIDE DEF f
  <2>2. WithRecord(old, record) = Appended(old, record)
    BY <1>2 DEF WithRecord
  <2>. QED
    BY <1>1, <2>1, <2>2, AppendedKeeps
<1>3. CASE Dead(old, record) # {}
  <2>. DEFINE k == CHOOSE i \in Dead(old, record) : TRUE
              text == [old EXCEPT !.lines = RemoveAt(old.lines, k)]
              f == [i \in 1..(Len(old.lines) - 1) |-> IF i < k THEN i ELSE i + 1]
  <2>1. k \in 1..Len(old.lines) /\ SameIdentity(old.lines[k], record)
    <3>1. k \in Dead(old, record)
      BY <1>3
    <3>. QED
      BY <1>1, <3>1 DEF Dead
  <2>2. WithRecord(old, record) = Appended(text, record)
    BY <1>3 DEF WithRecord
  <2>. HIDE DEF k
  <2>3. /\ RemoveAt(old.lines, k) \in Seq(Records) /\ Len(RemoveAt(old.lines, k)) = Len(old.lines) - 1
        /\ \A i \in 1..(Len(old.lines) - 1) :
             RemoveAt(old.lines, k)[i] = IF i < k THEN old.lines[i] ELSE old.lines[i + 1]
    BY <1>1, <2>1, RemovedLines
  <2>4. text \in Texts /\ text.header = old.header /\ text.torn = old.torn
        /\ text.lines = RemoveAt(old.lines, k)
    BY <2>3 DEF Texts
  <2>5. \A i \in 1..(Len(old.lines) - 1) : f[i] = IF i < k THEN i ELSE i + 1
    OBVIOUS
  <2>. HIDE DEF text, f
  <2>6. Len(text.lines) = Len(old.lines) - 1 /\ Len(text.lines) \in Nat
    BY <1>1, <2>1, <2>3, <2>4
  <2>7. \A i \in 1..Len(text.lines) : f[i] \in 1..Len(old.lines) /\ text.lines[i] = old.lines[f[i]]
    <3>1. ASSUME NEW i \in 1..(Len(old.lines) - 1)
          PROVE  f[i] \in 1..Len(old.lines) /\ RemoveAt(old.lines, k)[i] = old.lines[f[i]]
      <4>1. CASE i < k
        BY <1>1, <2>1, <2>3, <2>5, <4>1
      <4>2. CASE ~(i < k)
        BY <1>1, <2>1, <2>3, <2>5, <4>2
      <4>. QED
        BY <4>1, <4>2
    <3>. QED
      BY <2>4, <2>6, <3>1
  <2>8. \A i, j \in 1..Len(text.lines) : i < j => f[i] < f[j]
    BY <1>1, <2>1, <2>5, <2>6
  <2>9. ASSUME NEW m \in 1..Len(old.lines)
        PROVE  \/ \E i \in 1..Len(text.lines) : f[i] = m
               \/ SameIdentity(old.lines[m], record)
    <3>1. CASE m < k
      <4>1. m \in 1..Len(text.lines) /\ f[m] = m
        BY <1>1, <2>1, <2>5, <2>6, <3>1
      <4>. QED
        BY <4>1
    <3>2. CASE m = k
      BY <2>1, <3>2
    <3>3. CASE m > k
      <4>1. m - 1 \in 1..Len(text.lines) /\ f[m - 1] = m
        BY <1>1, <2>1, <2>5, <2>6, <3>3
      <4>. QED
        BY <4>1
    <3>. QED
      BY <1>1, <2>1, <3>1, <3>2, <3>3
  <2>. QED
    <3>1. Len(text.lines) \in Nat
      BY <2>6
    <3>2. /\ Readable(Appended(text, record))
          /\ \A line \in Listed(old) : \E new \in Listed(Appended(text, record)) :
               SameIdentity(line, new) /\ Carries(line) \subseteq Carries(new)
      BY <2>4, <2>7, <2>8, <2>9, <3>1, AppendedKeeps
    <3>. QED
      BY <2>2, <3>2
<1>. QED
  BY <1>2, <1>3

\* So do two lines one after the other.
LEMMA WithLinesKeeps ==
  ASSUME NEW old \in Texts, NEW lines \in Seq(Records), Len(lines) \in {1, 2},
         AcceptsLines(old, lines)
  PROVE  /\ Readable(WithLines(old, lines))
         /\ \A line \in Listed(old) : \E new \in Listed(WithLines(old, lines)) :
              SameIdentity(line, new) /\ Carries(line) \subseteq Carries(new)
<1>. DEFINE one == WithRecord(old, lines[1])
            two == WithRecord(one, lines[2])
<1>0. \A i \in 1..Len(lines) : lines[i] \in Records
  BY ElementOfSeq
<1>1. lines[1] \in Records /\ Accepts(old, lines[1])
  BY <1>0 DEF AcceptsLines
<1>2. /\ Readable(one)
      /\ \A line \in Listed(old) : \E new \in Listed(one) :
           SameIdentity(line, new) /\ Carries(line) \subseteq Carries(new)
  BY <1>1, WithRecordKeeps
<1>3. CASE Len(lines) = 1
  BY <1>2, <1>3 DEF WithLines
<1>4. CASE Len(lines) = 2
  <2>1. lines[2] \in Records /\ Accepts(one, lines[2])
    <3>1. lines[2] \in Records
      BY <1>0, <1>4
    <3>. QED
      BY <1>4, <3>1 DEF AcceptsLines
  <2>2. \A record \in Records : Backed(record, Records)
    BY DEF Backed, Covers, SameIdentity
  <2>3. old.lines \in Seq(Records)
    BY DEF Texts
  <2>4. \A i \in 1..Len(old.lines) : old.lines[i] \in Records
    BY <2>3, ElementOfSeq
  <2>5. Genuine(old, Records)
    BY <2>2, <2>4 DEF Genuine, Elements
  <2>6. one \in Texts
    BY <1>1, <2>2, <2>5, WithRecordIsGenuine DEF Genuine
  <2>7. WithLines(old, lines) = two
    BY <1>4 DEF WithLines
  <2>. HIDE DEF one
  <2>8. /\ Readable(two)
        /\ \A line \in Listed(one) : \E new \in Listed(two) :
             SameIdentity(line, new) /\ Carries(line) \subseteq Carries(new)
    BY <2>1, <2>6, WithRecordKeeps
  <2>. HIDE DEF two
  <2>9. ASSUME NEW line \in Listed(old)
        PROVE  \E new \in Listed(two) : SameIdentity(line, new) /\ Carries(line) \subseteq Carries(new)
    <3>1. PICK middle \in Listed(one) : SameIdentity(line, middle) /\ Carries(line) \subseteq Carries(middle)
      BY <1>2, <2>9
    <3>2. PICK new \in Listed(two) : SameIdentity(middle, new) /\ Carries(middle) \subseteq Carries(new)
      BY <2>8
    <3>. QED
      BY <3>1, <3>2 DEF SameIdentity
  <2>. QED
    BY <2>7, <2>8, <2>9
<1>. QED
  BY <1>3, <1>4

\* What a program is to write is what it worked out when it asked.
LEMMA PlannedIsWorkedOut ==
  ASSUME FilesInv, NEW w \in Writers, Ask(w)
  PROVE  WorkedOut(writer'[w].text, writer'[w].seen, writer'[w].lines)
<1>1. PICK request \in Requests : \E seen : Planned(w, request, seen)
  BY DEF Ask
<1>2. PICK seen :
        /\ Allows(w, seen, request)
        /\ writer' = [writer EXCEPT ![w] =
             [at |-> "planned", want |-> request.record, lines |-> request.lines, seen |-> seen,
              text |-> WithLines(seen, request.lines), imports |-> {}]]
  BY <1>1 DEF Planned
<1>3. Len(request.lines) \in {1, 2}
  BY LocksAssumption DEF Request
<1>. DEFINE text == WithLines(seen, request.lines)
<1>4. WorkedOut(text, seen, request.lines)
  BY <1>2, <1>3 DEF Allows, WorkedOut
<1>5. writer' = [writer EXCEPT ![w] =
        [at |-> "planned", want |-> request.record, lines |-> request.lines, seen |-> seen,
         text |-> text, imports |-> {}]]
  BY <1>2
<1>. HIDE DEF text
<1>6. /\ writer'[w].text = text /\ writer'[w].seen = seen
      /\ writer'[w].lines = request.lines
  BY <1>5 DEF FilesInv, FilesType
<1>. QED
  BY <1>4, <1>6

LEMMA ProvenanceStep ==
  ASSUME HostingInv, ProvenanceInv, [HostingNext]_hostingVars
  PROVE  ProvenanceInv'
<1>1. ASSUME NEW w \in Writers, Busy(w)'
      PROVE  \/ /\ Busy(w)
                /\ writer'[w].text = writer[w].text /\ writer'[w].seen = writer[w].seen
                /\ writer'[w].lines = writer[w].lines
             \/ WorkedOut(writer'[w].text, writer'[w].seen, writer'[w].lines)
  <2>1. CASE writer'[w] = writer[w]
    BY <1>1, <2>1 DEF Busy
  <2>2. CASE Ask(w)
    BY <2>2, PlannedIsWorkedOut DEF HostingInv
  <2>3. CASE Works(w) \/ Fails(w) \/ Crash(w)
    <3>1. writer[w] \in Working /\ Busy(w)
      BY <2>3, WriterGoesOn DEF HostingInv
    <3>2. \/ writer'[w] = Idle
          \/ /\ writer'[w].text = writer[w].text /\ writer'[w].seen = writer[w].seen
             /\ writer'[w].lines = writer[w].lines
      BY <2>3, <3>1 DEF Works, ReadEntry, Entered, WriteEntry, WriteLock, Restore, Fails, EntryHidden,
         EntryFails, LockFails, RestoreFails, Crash, To, Ends, HostingInv, FilesInv, FilesType, Working
    <3>. QED
      BY <1>1, <3>1, <3>2 DEF Busy, Idle
  <2>4. ASSUME NEW v \in Writers \ {w}, Ask(v) \/ Works(v) \/ Fails(v) \/ Crash(v)
        PROVE  writer'[w] = writer[w]
    BY <2>4 DEF Ask, Planned, Works, ReadEntry, Entered, WriteEntry, WriteLock, Restore, Fails, EntryHidden,
       EntryFails, LockFails, RestoreFails, Crash, To, Ends, HostingInv, FilesInv, FilesType
  <2>5. CASE Publish \/ UNCHANGED writer
    BY <2>1, <2>5 DEF Publish
  <2>. QED
    BY <2>1, <2>2, <2>3, <2>4, <2>5 DEF HostingNext, LockNext, hostingVars, lockVars, filesVars
<1>2. left' \in [asks : Nat, faults : Nat, editions : Nat, openings : Nat, calls : Nat]
  <2>1. left' = left \/ \E what \in {"asks", "faults", "editions", "openings"} : Spend(what)
    BY DEF HostingNext, LockNext, AdmissionNext, ReadOfficial, ReadUser, Admit, Install, Ask, Works,
       ReadEntry, WriteEntry, WriteLock, Restore, Fails, EntryHidden, EntryFails, LockFails, RestoreFails,
       Crash, Publish, hostingVars, lockVars, filesVars, choices
  <2>. QED
    BY <2>1 DEF ProvenanceInv, Spend
<1>. QED
  BY <1>1, <1>2 DEF ProvenanceInv

\* For any texts, requests, editions and faults: a program that finds the lock
\* as it read it leaves one that reads, and in which every identity that was
\* listed still is, with all the provenance it carried (with_record).
THEOREM ProvenanceIsKept ==
  HostingSpec => LocksKeepProvenance
<1>. DEFINE Kept ==
       \A w \in Writers :
         (writer[w].at = "entered" /\ writer'[w].at = "idle" /\ lock[On(w)] = writer[w].seen
            /\ left' = left) =>
           /\ Readable(lock'[On(w)])
           /\ \A old \in Listed(lock[On(w)]) : \E new \in Listed(lock'[On(w)]) :
                SameIdentity(old, new) /\ Carries(old) \subseteq Carries(new)
<1>1. HostingInit => ProvenanceInv
  BY LocksAssumption DEF HostingInit, LockInit, ProvenanceInv, Busy, Idle
<1>2. HostingInv /\ ProvenanceInv /\ [HostingNext]_hostingVars => ProvenanceInv'
  BY ProvenanceStep
<1>3. HostingInv /\ ProvenanceInv /\ [HostingNext]_hostingVars => [Kept]_lockVars
  <2>. SUFFICES ASSUME HostingInv, ProvenanceInv, [HostingNext]_hostingVars, NEW w \in Writers,
                       writer[w].at = "entered", writer'[w].at = "idle",
                       lock[On(w)] = writer[w].seen, left' = left
                PROVE  /\ Readable(lock'[On(w)])
                       /\ \A old \in Listed(lock[On(w)]) : \E new \in Listed(lock'[On(w)]) :
                            SameIdentity(old, new) /\ Carries(old) \subseteq Carries(new)
    OBVIOUS
  <2>1. writer[w] \in Working /\ Busy(w)
    BY DEF HostingInv, FilesInv, FilesType, Busy, Idle
  <2>2. On(w) \in Sources /\ writer[w].seen \in Texts /\ writer[w].lines \in Seq(Records)
    BY <2>1 DEF Working, On, Records, Manifests
  <2>3. ~Spend("faults")
    BY DEF Spend, ProvenanceInv
  <2>4. WriteLock(w)
    <3>1. writer' # writer
      OBVIOUS
    <3>2. PICK v \in Writers : Ask(v) \/ Works(v) \/ Fails(v) \/ Crash(v)
      BY <3>1 DEF HostingNext, LockNext, Publish, hostingVars, lockVars, filesVars
    <3>3. v = w
      BY <3>2 DEF Ask, Planned, Works, ReadEntry, Entered, WriteEntry, WriteLock, Restore, Fails, EntryHidden,
         EntryFails, LockFails, RestoreFails, Crash, To, Ends, HostingInv, FilesInv, FilesType
    <3>4. ~Ask(w) /\ ~RestoreFails(w)
      BY <2>1 DEF Ask, Planned, RestoreFails
    <3>5. Works(w)
      BY <2>3, <3>2, <3>3, <3>4 DEF Fails, EntryHidden, EntryFails, LockFails, Crash
    <3>. QED
      BY <3>5 DEF Works, ReadEntry, Entered, WriteEntry, Restore
  <2>5. /\ lock'[On(w)] = WithLines(writer[w].seen, writer[w].lines)
        /\ Len(writer[w].lines) \in {1, 2} /\ AcceptsLines(writer[w].seen, writer[w].lines)
    BY <2>1, <2>2, <2>4 DEF WriteLock, HostingInv, FilesInv, FilesType, ProvenanceInv, WorkedOut
  <2>. QED
    BY <2>2, <2>5, WithLinesKeeps
<1>. QED
  BY <1>1, <1>2, <1>3, HostingAlways, PTL DEF HostingSpec, LocksKeepProvenance
=============================================================================
