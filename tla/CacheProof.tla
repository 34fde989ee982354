----------------------------- MODULE CacheProof -----------------------------
(***************************************************************************)
(* Theorems about Cache, for any processes, hashes and capacity of a       *)
(* BufWriter: types, and all the safety properties of the file.            *)
(*                                                                         *)
(* A buffer is whole keys, unless a write of it ended within one           *)
(* (Buffered).  What begins with a key makes no pair with what is before   *)
(* it; what begins within one does, with what its own process wrote last,  *)
(* as long as nobody else's write ended within a key (Joined).  So the     *)
(* rest of a file hash and a pattern hash that follow each other in the    *)
(* file come from one key (FilePaired).  That is enough for HitsWerePut    *)
(* and, with `since` for `ever`, for RefreshForgets.  For WholeKeys and    *)
(* CloseKeepsAll the file is whole keys (Headed) and what a process put is *)
(* in its channel, its buffer or the file (Kept).  Kept is stated for an   *)
(* empty file too, which becomes headed when it gets its version.  A key   *)
(* is three bytes, Width, as in Cache.                                     *)
(***************************************************************************)
EXTENDS Cache, SequenceTheorems, TLAPS

\* x is in s, behind the first j bytes.
HasKey(s, j, x) ==
    /\ s[j + 1] = FirstByte(x[1])
    /\ s[j + 2] = <<x[1], "rest">>
    /\ s[j + 3] = <<x[2], "pattern">>

\* s is n keys of pairs, behind its first j bytes.
Keys(s, j, n, pairs) ==
    /\ Len(s) = j + 3 * n
    /\ \A i \in 0 .. n - 1 : \E x \in pairs : HasKey(s, j + 3 * i, x)

\* The halves of a key that are next to each other are those of a pair.
Paired(s, pairs) ==
    \A i \in DOMAIN s, f \in Files, q \in Patterns :
        i + 1 \in DOMAIN s /\ s[i] = <<f, "rest">> /\ s[i + 1] = <<q, "pattern">>
            => <<f, q>> \in pairs

\* u behind s makes no pair that is not one.
Joins(s, u, pairs) ==
    s # <<>> /\ u # <<>> =>
        \A f \in Files, q \in Patterns :
            s[Len(s)] = <<f, "rest">> /\ u[1] = <<q, "pattern">> => <<f, q>> \in pairs

\* A process that does not use the cache has nothing in it.
Idle ==
    \A p \in Procs :
        /\ mine[p] \subseteq since
        /\ writer[p] \notin {"running", "flushing"} => chan[p] = <<>>
        /\ writer[p] \notin {"running", "flushing", "dropping"} => buffer[p] = <<>>
        /\ pc[p] \notin {"open", "closing"} => writer[p] = "none" /\ mine[p] = {}
        /\ pc[p] \notin {"opening", "open", "closing"} => no_matches[p] = {}

\* What is on its way to a thread is keys the process put.
Sending ==
    \A p \in Procs : \A i \in DOMAIN chan[p] :
        \E x \in mine[p] : chan[p][i] = Key(x[1], x[2])

\* A buffer is whole keys, behind what is left of one that was cut.
KeysFrom(p, j) ==
    /\ \E n \in 0 .. Len(buffer[p]) : Keys(buffer[p], j, n, mine[p])
    /\ writer[p] = "running" => j = 0
    /\ j # 0 => p \in torn
Buffered ==
    \A p \in Procs : /\ \E j \in 0 .. 2 : KeysFrom(p, j)
                     /\ Paired(buffer[p], mine[p])

\* A snapshot is still in the file.
Snapshots == \A p \in intact : no_matches[p] \subseteq Chunks(file)

\* A file that got its version is that and whole keys.
Headed ==
    headed => /\ HasVersion(file)
              /\ \E n \in 0 .. Len(file) : Keys(file, 1, n, since)

InBuffer(p, x) ==
    \E i \in 0 .. Len(buffer[p]) : 3 * i + 3 <= Len(buffer[p]) /\ HasKey(buffer[p], 3 * i, x)
InChannel(p, x) == \E i \in DOMAIN chan[p] : chan[p][i] = Key(x[1], x[2])

\* What a process put is somewhere, unless a write of it failed half way.
Kept ==
    headed \/ file = <<>> =>
        \A p \in intact : \A x \in mine[p] :
            Key(x[1], x[2]) \in Chunks(file) \/ InBuffer(p, x) \/ InChannel(p, x)

\* No two bytes of the file make a pair that was not put since it was truncated,
\* and none will when a process writes what it has buffered.
FilePaired == OneTorn => Paired(file, since)
Joined == OneTorn => \A p \in Procs : Joins(file, buffer[p], since)

\* What the bytes, the snapshots and the pairs that were put have to do with each other.
MInv == /\ Sending /\ Buffered /\ FilePaired /\ Joined /\ HitsWerePut
        /\ Snapshots /\ Headed /\ Kept

IInv == TypeOK /\ Idle /\ MInv

-----------------------------------------------------------------------------
(* Sequences, index by index.                                              *)

\* t is s, followed by u.
Appended(s, t, u) ==
    /\ Len(s) \in Nat /\ Len(u) \in Nat /\ Len(t) = Len(s) + Len(u)
    /\ DOMAIN s = 1 .. Len(s) /\ DOMAIN t = 1 .. Len(t) /\ DOMAIN u = 1 .. Len(u)
    /\ \A i \in 1 .. Len(s) : t[i] = s[i]
    /\ \A i \in 1 .. Len(u) : t[Len(s) + i] = u[i]

\* Concatenation appends.
LEMMA ConcatAppended ==
    ASSUME NEW S, NEW s \in Seq(S), NEW u \in Seq(S)
    PROVE  s \o u \in Seq(S) /\ Appended(s, s \o u, u)
  BY DEF Appended

\* Three elements that follow each other.
LEMMA ThreeElements ==
    ASSUME NEW S, NEW s \in Seq(S), NEW m \in Nat, m + 3 <= Len(s)
    PROVE  SubSeq(s, m + 1, m + 3) = <<s[m + 1], s[m + 2], s[m + 3]>>
  <1> DEFINE t == SubSeq(s, m + 1, m + 3)
             u == <<s[m + 1], s[m + 2], s[m + 3]>>
  <1>1. t \in Seq(S) /\ Len(t) = 3 /\ \A i \in 1 .. 3 : t[i] = s[m + i]
    OBVIOUS
  <1>2. u \in Seq(S) /\ Len(u) = 3 /\ u[1] = s[m + 1] /\ u[2] = s[m + 2] /\ u[3] = s[m + 3]
    OBVIOUS
  <1>3. \A i \in 1 .. 3 : i = 1 \/ i = 2 \/ i = 3
    OBVIOUS
  <1> HIDE DEF t, u
  <1>4. \A i \in 1 .. 3 : t[i] = u[i]
    BY <1>1, <1>2, <1>3
  <1>5. t = u
    BY <1>1, <1>2, <1>4, SeqEqual
  <1> QED
    BY <1>5, Zenon DEF t, u

\* Which keys are in a file.
LEMMA ChunksAre ==
    ASSUME NEW S, NEW s \in Seq(S)
    PROVE  \A k : k \in Chunks(s) <=>
               \E i \in Nat : /\ 3 * i + 4 <= Len(s)
                              /\ k = <<s[3 * i + 2], s[3 * i + 3], s[3 * i + 4]>>
  <1> DEFINE n == (Len(s) - 1) \div 3
  <1>1. Len(s) \in Nat /\ n \in Int
    OBVIOUS
  <1>2. \A i \in Nat : i \in 0 .. n - 1 <=> 3 * i + 4 <= Len(s)
    BY <1>1
  <1>3. ASSUME NEW i \in Nat, 3 * i + 4 <= Len(s)
        PROVE  SubSeq(s, 2 + i * 3, 1 + (i + 1) * 3) =
                   <<s[3 * i + 2], s[3 * i + 3], s[3 * i + 4]>>
    <2>1. 2 + i * 3 = (3 * i + 1) + 1 /\ 1 + (i + 1) * 3 = (3 * i + 1) + 3
      OBVIOUS
    <2>2. 3 * i + 2 = (3 * i + 1) + 1 /\ 3 * i + 3 = (3 * i + 1) + 2
          /\ 3 * i + 4 = (3 * i + 1) + 3
      OBVIOUS
    <2>3. 3 * i + 1 \in Nat /\ (3 * i + 1) + 3 <= Len(s)
      BY <1>1, <1>3
    <2> QED
      BY <2>1, <2>2, <2>3, ThreeElements
  <1>4. Chunks(s) = {SubSeq(s, 2 + i * 3, 1 + (i + 1) * 3) : i \in 0 .. n - 1}
    BY DEF Chunks, Width
  <1> HIDE DEF n
  <1>5. SUFFICES ASSUME NEW k
                 PROVE  k \in Chunks(s) <=>
                            \E i \in Nat :
                               /\ 3 * i + 4 <= Len(s)
                               /\ k = <<s[3 * i + 2], s[3 * i + 3], s[3 * i + 4]>>
    OBVIOUS
  <1>6. \A i \in 0 .. n - 1 : i \in Nat
    BY <1>1
  <1>7. ASSUME k \in Chunks(s)
        PROVE  \E i \in Nat : /\ 3 * i + 4 <= Len(s)
                              /\ k = <<s[3 * i + 2], s[3 * i + 3], s[3 * i + 4]>>
    <2>1. PICK i \in 0 .. n - 1 : k = SubSeq(s, 2 + i * 3, 1 + (i + 1) * 3)
      BY <1>4, <1>7
    <2> QED
      BY <2>1, <1>2, <1>3, <1>6
  <1>8. ASSUME NEW i \in Nat, 3 * i + 4 <= Len(s),
               k = <<s[3 * i + 2], s[3 * i + 3], s[3 * i + 4]>>
        PROVE  k \in Chunks(s)
    BY <1>2, <1>3, <1>4, <1>8
  <1> QED
    BY <1>7, <1>8

-----------------------------------------------------------------------------
(* Keys and pairs, as bytes are appended.                                  *)

\* A byte that begins a key is not the last of one.
NotPattern(b) == \A q \in Patterns : b # <<q, "pattern">>

\* The first byte of a key is none of the others, the version included.
LEMMA FirstBytes ==
    \A f : /\ NotPattern(FirstByte(f)) /\ \A g \in Files : FirstByte(f) # <<g, "rest">>
  BY DEF FirstByte, NotPattern, Version

\* The bytes of a key.
LEMMA KeyBytes ==
    ASSUME NEW x \in Pairs
    PROVE  LET k == Key(x[1], x[2])
           IN  /\ k \in Seq(Bytes) /\ Len(k) = 3
               /\ HasKey(k, 0, x)
  BY DEF Key, Pairs, Bytes, FirstByte, HasKey

\* A pair that is put makes no other one.
LEMMA MorePairs ==
    ASSUME NEW S, NEW T, S \subseteq T, NEW s, NEW j, NEW n
    PROVE  /\ Keys(s, j, n, S) => Keys(s, j, n, T)
           /\ Paired(s, S) => Paired(s, T)
  BY DEF Keys, Paired

\* A key is paired, and whole keys do not begin with a pattern.
LEMMA KeysPaired ==
    ASSUME NEW pairs \in SUBSET Pairs, NEW s \in Seq(Bytes), NEW n \in Nat,
           Keys(s, 0, n, pairs)
    PROVE  /\ s # <<>> => NotPattern(s[1])
           /\ n = 1 => Paired(s, pairs)
  <1>1. Len(s) = 3 * n /\ DOMAIN s = 1 .. Len(s)
    BY DEF Keys
  <1>2. \A i \in 0 .. n - 1 : \E x \in pairs :
            /\ s[3 * i + 1] = FirstByte(x[1])
            /\ s[3 * i + 2] = <<x[1], "rest">>
            /\ s[3 * i + 3] = <<x[2], "pattern">>
    <2>1. \A i \in 0 .. n - 1 : 0 + 3 * i = 3 * i
      OBVIOUS
    <2> QED
      BY <2>1 DEF Keys, HasKey
  <1>3. s # <<>> => NotPattern(s[1])
    <2>1. s # <<>> => 0 \in 0 .. n - 1
      BY <1>1
    <2>2. 3 * 0 + 1 = 1
      OBVIOUS
    <2> QED
      BY <1>2, <2>1, <2>2, FirstBytes
  <1>4. ASSUME n = 1, NEW i \in DOMAIN s, NEW f \in Files, NEW q \in Patterns,
               i + 1 \in DOMAIN s, s[i] = <<f, "rest">>, s[i + 1] = <<q, "pattern">>
        PROVE  <<f, q>> \in pairs
    <2>1. 0 \in 0 .. n - 1 /\ 3 * 0 + 1 = 1 /\ 3 * 0 + 2 = 2 /\ 3 * 0 + 3 = 3
      BY <1>4
    <2>2. PICK x \in pairs : /\ s[1] = FirstByte(x[1]) /\ s[2] = <<x[1], "rest">>
                             /\ s[3] = <<x[2], "pattern">>
      BY <1>2, <2>1
    <2>3. i \in {1, 2}
      BY <1>1, <1>4
    <2>4. i # 1
      BY <1>4, <2>2, FirstBytes
    <2>5. i = 2 /\ i + 1 = 3
      BY <2>3, <2>4
    <2>6. x[1] = f /\ x[2] = q
      BY <1>4, <2>2, <2>5
    <2> QED
      BY <2>6 DEF Pairs
  <1> QED
    BY <1>3, <1>4 DEF Paired

\* What is appended makes no pair, if it makes none with what is before it.
LEMMA PairedAppended ==
    ASSUME NEW pairs, NEW s, NEW t, NEW u, Appended(s, t, u),
           Paired(s, pairs), Paired(u, pairs), Joins(s, u, pairs)
    PROVE  Paired(t, pairs)
  <1> SUFFICES ASSUME NEW i \in DOMAIN t, NEW f \in Files, NEW q \in Patterns,
                      i + 1 \in DOMAIN t,
                      t[i] = <<f, "rest">>, t[i + 1] = <<q, "pattern">>
               PROVE  <<f, q>> \in pairs
    BY DEF Paired
  <1>1. CASE i + 1 \in DOMAIN s
    <2>1. i \in DOMAIN s /\ s[i] = t[i] /\ s[i + 1] = t[i + 1]
      BY <1>1 DEF Appended
    <2> QED
      BY <1>1, <2>1 DEF Paired
  <1>2. CASE i = Len(s)
    <2>1. /\ 1 \in DOMAIN u /\ u[1] = t[i + 1]
          /\ Len(s) \in DOMAIN s /\ s[Len(s)] = t[i]
      BY <1>2 DEF Appended
    <2>2. u # <<>> /\ s # <<>>
      BY <2>1
    <2> QED
      BY <2>1, <2>2 DEF Joins
  <1>3. CASE i > Len(s)
    <2> DEFINE j == i - Len(s)
    <2>1. /\ j \in DOMAIN u /\ j + 1 \in DOMAIN u
          /\ Len(s) + j = i /\ Len(s) + (j + 1) = i + 1
      BY <1>3 DEF Appended
    <2>2. u[j] = t[i] /\ u[j + 1] = t[i + 1]
      BY <2>1 DEF Appended
    <2> HIDE DEF j
    <2> QED
      BY <2>1, <2>2 DEF Paired
  <1> QED
    BY <1>1, <1>2, <1>3 DEF Appended

\* What a write of n bytes takes, and what it leaves.
LEMMA Halves ==
    ASSUME NEW S, NEW s \in Seq(S), NEW n \in 1 .. Len(s)
    PROVE  LET u == SubSeq(s, 1, n)
               t == SubSeq(s, n + 1, Len(s))
           IN  /\ u \in Seq(S) /\ Len(u) = n /\ \A i \in 1 .. n : u[i] = s[i]
               /\ t \in Seq(S) /\ Len(t) = Len(s) - n
               /\ \A i \in 1 .. Len(s) - n : t[i] = s[n + i]
  OBVIOUS

\* Cutting makes no pair, and what is cut may be joined again.
LEMMA HalvesPaired ==
    ASSUME NEW pairs, NEW s \in Seq(Bytes), NEW n \in 1 .. Len(s), Paired(s, pairs)
    PROVE  LET u == SubSeq(s, 1, n)
               t == SubSeq(s, n + 1, Len(s))
           IN  /\ Paired(u, pairs) /\ Paired(t, pairs)
               /\ \A r : r # <<>> /\ r[Len(r)] = u[n] => Joins(r, t, pairs)
  <1> DEFINE u == SubSeq(s, 1, n)
             t == SubSeq(s, n + 1, Len(s))
  <1>1. /\ u \in Seq(Bytes) /\ Len(u) = n /\ \A i \in 1 .. n : u[i] = s[i]
        /\ t \in Seq(Bytes) /\ Len(t) = Len(s) - n
        /\ \A i \in 1 .. Len(s) - n : t[i] = s[n + i]
    BY Halves
  <1>2. DOMAIN u = 1 .. n /\ DOMAIN s = 1 .. Len(s) /\ DOMAIN t = 1 .. Len(s) - n
    BY <1>1
  <1> HIDE DEF t, u
  <1>3. Paired(u, pairs)
    <2>1. \A i \in 1 .. n : i \in 1 .. Len(s)
      OBVIOUS
    <2>2. \A i \in DOMAIN u : i \in DOMAIN s /\ u[i] = s[i]
      BY <1>1, <1>2, <2>1
    <2> QED
      BY <2>2 DEF Paired
  <1>4. Paired(t, pairs)
    <2> SUFFICES ASSUME NEW i \in DOMAIN t, NEW f \in Files, NEW q \in Patterns,
                        i + 1 \in DOMAIN t,
                        t[i] = <<f, "rest">>, t[i + 1] = <<q, "pattern">>
                 PROVE  <<f, q>> \in pairs
      BY DEF Paired
    <2>1. /\ n + i \in DOMAIN s /\ (n + i) + 1 \in DOMAIN s /\ n + (i + 1) = (n + i) + 1
          /\ i \in 1 .. Len(s) - n /\ i + 1 \in 1 .. Len(s) - n
      <3>1. i \in 1 .. Len(s) - n /\ i + 1 \in 1 .. Len(s) - n
        BY <1>2
      <3>2. Len(s) \in Nat /\ n \in Nat
        OBVIOUS
      <3>3. \A l \in Nat, m \in Nat : \A k \in 1 .. l - m :
               k + 1 \in 1 .. l - m =>
                   /\ m + k \in 1 .. l /\ (m + k) + 1 \in 1 .. l
                   /\ m + (k + 1) = (m + k) + 1
        OBVIOUS
      <3> QED
        BY <1>2, <3>1, <3>2, <3>3
    <2>2. s[n + i] = t[i] /\ s[(n + i) + 1] = t[i + 1]
      BY <1>1, <1>2, <2>1
    <2> QED
      BY <2>1, <2>2 DEF Paired
  <1>5. ASSUME NEW r, r # <<>>, r[Len(r)] = u[n] PROVE Joins(r, t, pairs)
    <2> SUFFICES ASSUME t # <<>>, NEW f \in Files, NEW q \in Patterns,
                        r[Len(r)] = <<f, "rest">>, t[1] = <<q, "pattern">>
                 PROVE  <<f, q>> \in pairs
      BY DEF Joins
    <2>0. Len(s) \in Nat /\ n \in Nat /\ 1 <= n /\ n <= Len(s) /\ Len(s) - n # 0
      BY <1>1
    <2>a. \A l \in Nat, m \in Nat :
             1 <= m /\ m <= l /\ l - m # 0 =>
                 m \in 1 .. l /\ m + 1 \in 1 .. l /\ 1 \in 1 .. l - m /\ m \in 1 .. m
      OBVIOUS
    <2>1. n \in DOMAIN s /\ n + 1 \in DOMAIN s /\ 1 \in 1 .. Len(s) - n /\ n \in 1 .. n
      BY <1>2, <2>0, <2>a
    <2>2. s[n] = <<f, "rest">> /\ s[n + 1] = <<q, "pattern">>
      BY <1>1, <1>5, <2>1
    <2> QED
      BY <2>1, <2>2 DEF Paired
  <1> QED
    BY <1>3, <1>4, <1>5 DEF t, u

\* A length that is whole is so many keys.
LEMMA WholeKeyed == \A a \in Nat : Whole(a) <=> \E d \in 0 .. a : a = 3 * d
  <1> SUFFICES ASSUME NEW a \in Nat PROVE Whole(a) <=> \E d \in 0 .. a : a = 3 * d
    OBVIOUS
  <1>1. ASSUME Whole(a) PROVE \E d \in 0 .. a : a = 3 * d
    <2> DEFINE d == a \div 3
    <2>1. a % 3 = 0
      BY <1>1 DEF Whole, Width
    <2>2. d \in 0 .. a /\ a = 3 * d
      BY <2>1
    <2> QED
      BY <2>2
  <1>2. ASSUME NEW d \in 0 .. a, a = 3 * d PROVE Whole(a)
    BY <1>2 DEF Whole, Width
  <1> QED
    BY <1>1, <1>2

\* What is left of keys is keys, behind what is left of one.
LEMMA KeysLeft ==
    ASSUME NEW pairs, NEW s \in Seq(Bytes), NEW j \in 0 .. 2, NEW n \in Nat,
           Keys(s, j, n, pairs), NEW k \in 1 .. Len(s)
    PROVE  LET t == SubSeq(s, k + 1, Len(s))
           IN  \E i \in 0 .. 2, m \in 0 .. Len(t) :
                  Keys(t, i, m, pairs) /\ (Whole(Len(t)) <=> i = 0)
  <1> DEFINE t == SubSeq(s, k + 1, Len(s))
  <1>1. /\ t \in Seq(Bytes) /\ Len(t) = Len(s) - k
        /\ \A i \in 1 .. Len(s) - k : t[i] = s[k + i]
    BY Halves
  <1>2. Len(s) = j + 3 * n
    BY DEF Keys
  <1>3. PICK e \in Nat : \E i \in 0 .. 2 : k + i = j + 3 * e
    <2> DEFINE c == k - j + 2
               e == c \div 3
    <2>1. c \in Nat
      BY <1>2
    <2>2. e \in Nat /\ 3 * e <= c /\ c <= 3 * e + 2
      BY <2>1
    <2> HIDE DEF e
    <2>3. (j + 3 * e) - k \in 0 .. 2 /\ k + ((j + 3 * e) - k) = j + 3 * e
      BY <1>2, <2>2
    <2> QED
      BY <2>2, <2>3
  <1>4. PICK i \in 0 .. 2 : k + i = j + 3 * e
    BY <1>3
  <1> DEFINE m == n - e
  <1>5. m \in Nat /\ Len(t) = i + 3 * m /\ m <= Len(t)
    BY <1>1, <1>2, <1>4
  <1>6. ASSUME NEW d \in 0 .. m - 1 PROVE \E x \in pairs : HasKey(t, i + 3 * d, x)
    <2>1. e + d \in 0 .. n - 1
      BY <1>5
    <2>2. PICK x \in pairs : HasKey(s, j + 3 * (e + d), x)
      BY <2>1 DEF Keys
    <2>3. \A b \in {1, 2, 3} : /\ i + 3 * d + b \in 1 .. Len(s) - k
                               /\ k + (i + 3 * d + b) = j + 3 * (e + d) + b
      BY <1>1, <1>4, <1>5
    <2>4. \A b \in {1, 2, 3} : t[i + 3 * d + b] = s[j + 3 * (e + d) + b]
      BY <1>1, <2>3
    <2> HIDE DEF t
    <2> QED
      BY <2>2, <2>4 DEF HasKey
  <1> HIDE DEF t, m
  <1>7. Keys(t, i, m, pairs)
    BY <1>5, <1>6 DEF Keys
  <1>8. Whole(Len(t)) <=> i = 0
    <2>1. i = 0 => Len(t) = 3 * m /\ m \in 0 .. Len(t)
      BY <1>5
    <2>2. \A d \in Nat : Len(t) = 3 * d => i = 0
      BY <1>5
    <2>3. Len(t) \in Nat /\ \A d \in 0 .. Len(t) : d \in Nat
      BY <1>1
    <2>4. Whole(Len(t)) <=> \E d \in 0 .. Len(t) : Len(t) = 3 * d
      BY <2>3, WholeKeyed
    <2>5. i = 0 => Whole(Len(t))
      BY <2>1, <2>4
    <2>6. Whole(Len(t)) => i = 0
      BY <2>2, <2>3, <2>4
    <2> QED
      BY <2>5, <2>6
  <1>9. m \in 0 .. Len(t)
    BY <1>5
  <1> QED
    BY <1>7, <1>8, <1>9 DEF t

\* The beginning of whole keys, if it is of that length, is whole keys.
LEMMA KeysTaken ==
    ASSUME NEW pairs, NEW s \in Seq(Bytes), NEW n \in Nat, Keys(s, 0, n, pairs),
           NEW d \in Nat, 1 <= 3 * d, 3 * d <= Len(s)
    PROVE  /\ Keys(SubSeq(s, 1, 3 * d), 0, d, pairs)
           /\ \A f \in Files : s[3 * d] # <<f, "rest">>
  <1> DEFINE k == 3 * d
             u == SubSeq(s, 1, k)
  <1>1. Len(s) = 3 * n /\ d <= n /\ 1 <= d /\ k \in 1 .. Len(s)
    BY DEF Keys
  <1>2. u \in Seq(Bytes) /\ Len(u) = k /\ \A i \in 1 .. k : u[i] = s[i]
    BY <1>1, Halves
  <1> HIDE DEF u
  <1>3. ASSUME NEW i \in 0 .. d - 1 PROVE \E x \in pairs : HasKey(u, 0 + 3 * i, x)
    <2>1. PICK x \in pairs : HasKey(s, 0 + 3 * i, x)
      BY <1>1, <1>3 DEF Keys
    <2>2. \A b \in {1, 2, 3} : 0 + 3 * i + b \in 1 .. k
      BY <1>1, <1>3
    <2>3. \A b \in {1, 2, 3} : u[0 + 3 * i + b] = s[0 + 3 * i + b]
      BY <1>2, <2>2
    <2> QED
      BY <2>1, <2>3 DEF HasKey
  <1>4. Keys(u, 0, d, pairs)
    <2>1. Len(u) = 0 + 3 * d
      BY <1>2
    <2> QED
      BY <1>3, <2>1 DEF Keys
  <1>5. \A f \in Files : s[k] # <<f, "rest">>
    <2>1. d - 1 \in 0 .. n - 1 /\ (0 + 3 * (d - 1)) + 3 = k
      BY <1>1
    <2>2. PICK x \in pairs : HasKey(s, 0 + 3 * (d - 1), x)
      BY <2>1 DEF Keys
    <2>3. s[k] = <<x[2], "pattern">>
      BY <2>1, <2>2 DEF HasKey
    <2> QED
      BY <2>3
  <1> QED
    BY <1>4, <1>5 DEF u

\* Keys behind keys are keys.
LEMMA KeysAppended ==
    ASSUME NEW pairs, NEW s, NEW t, NEW u, Appended(s, t, u),
           NEW j \in Nat, NEW n \in Nat, NEW m \in Nat,
           Keys(s, j, n, pairs), Keys(u, 0, m, pairs)
    PROVE  Keys(t, j, n + m, pairs)
  <1>1. Len(s) = j + 3 * n /\ Len(u) = 3 * m /\ Len(t) = j + 3 * (n + m)
    BY DEF Keys, Appended
  <1>2. ASSUME NEW i \in 0 .. (n + m) - 1
        PROVE  \E x \in pairs : HasKey(t, j + 3 * i, x)
    <2>1. CASE i < n
      <3>1. i \in 0 .. n - 1
        BY <2>1
      <3>2. PICK x \in pairs : HasKey(s, j + 3 * i, x)
        BY <3>1 DEF Keys
      <3>3. \A k \in {1, 2, 3} : j + 3 * i + k \in 1 .. Len(s)
        BY <1>1, <3>1
      <3>4. \A k \in {1, 2, 3} : t[j + 3 * i + k] = s[j + 3 * i + k]
        BY <3>3 DEF Appended
      <3> QED
        BY <3>2, <3>4 DEF HasKey
    <2>2. CASE i >= n
      <3> DEFINE d == i - n
      <3>1. d \in 0 .. m - 1 /\ 0 + 3 * d = 3 * d
        BY <2>2
      <3>2. PICK x \in pairs : HasKey(u, 3 * d, x)
        BY <3>1 DEF Keys
      <3>3. \A k \in {1, 2, 3} : /\ 3 * d + k \in 1 .. Len(u)
                                 /\ Len(s) + (3 * d + k) = j + 3 * i + k
        BY <1>1, <3>1
      <3>4. \A k \in {1, 2, 3} : t[j + 3 * i + k] = u[3 * d + k]
        BY <3>3 DEF Appended
      <3> HIDE DEF d
      <3> QED
        BY <3>2, <3>4 DEF HasKey
    <2> QED
      BY <2>1, <2>2
  <1> QED
    BY <1>1, <1>2 DEF Keys

\* A key at the end of what is appended is a chunk, if whole keys are before it.
LEMMA KeyAppended ==
    ASSUME NEW s \in Seq(Bytes), NEW t \in Seq(Bytes), NEW u, Appended(s, t, u),
           NEW n \in Nat, Len(s) = 1 + 3 * n,
           NEW i \in Nat, 3 * i + 3 <= Len(u),
           NEW x, HasKey(u, 3 * i, x)
    PROVE  Key(x[1], x[2]) \in Chunks(t)
  <1> DEFINE d == n + i
  <1>1. d \in Nat /\ 3 * d + 4 <= Len(t)
    BY DEF Appended
  <1>2. /\ 3 * d + 2 = Len(s) + (3 * i + 1) /\ 3 * d + 3 = Len(s) + (3 * i + 2)
        /\ 3 * d + 4 = Len(s) + (3 * i + 3)
        /\ \A k \in {1, 2, 3} : 3 * i + k \in 1 .. Len(u)
    BY DEF Appended
  <1> HIDE DEF d
  <1>3. /\ t[3 * d + 2] = FirstByte(x[1]) /\ t[3 * d + 3] = <<x[1], "rest">>
        /\ t[3 * d + 4] = <<x[2], "pattern">>
    BY <1>2 DEF Appended, HasKey
  <1> QED
    BY <1>1, <1>3, ChunksAre DEF Key

\* The keys of a file stay where they are.
LEMMA ChunksAppended ==
    ASSUME NEW s \in Seq(Bytes), NEW t \in Seq(Bytes), NEW u, Appended(s, t, u)
    PROVE  Chunks(s) \subseteq Chunks(t)
  <1> SUFFICES ASSUME NEW k \in Chunks(s) PROVE k \in Chunks(t)
    OBVIOUS
  <1>1. PICK i \in Nat : /\ 3 * i + 4 <= Len(s)
                         /\ k = <<s[3 * i + 2], s[3 * i + 3], s[3 * i + 4]>>
    BY ChunksAre
  <1>2. /\ 3 * i + 4 <= Len(t)
        /\ t[3 * i + 2] = s[3 * i + 2] /\ t[3 * i + 3] = s[3 * i + 3]
        /\ t[3 * i + 4] = s[3 * i + 4]
    BY <1>1 DEF Appended
  <1> QED
    BY <1>1, <1>2, ChunksAre

\* A key that is read in a file is one of a pair.
LEMMA ChunkPaired ==
    ASSUME NEW s \in Seq(Bytes), NEW pairs, Paired(s, pairs),
           NEW f \in Files, NEW q \in Patterns, Key(f, q) \in Chunks(s)
    PROVE  <<f, q>> \in pairs
  <1>1. PICK i \in Nat : /\ 3 * i + 4 <= Len(s)
                         /\ Key(f, q) = <<s[3 * i + 2], s[3 * i + 3], s[3 * i + 4]>>
    BY ChunksAre
  <1>2. s[3 * i + 3] = <<f, "rest">> /\ s[3 * i + 4] = <<q, "pattern">>
    BY <1>1 DEF Key
  <1>3. 3 * i + 3 \in DOMAIN s /\ (3 * i + 3) + 1 = 3 * i + 4 /\ 3 * i + 4 \in DOMAIN s
    BY <1>1
  <1> QED
    BY <1>2, <1>3 DEF Paired

\* The version takes the place of a byte that is not in any pair.
LEMMA Versioned ==
    ASSUME NEW s \in Seq(Bytes), s # <<>>
    PROVE  LET t == [s EXCEPT ![1] = Version]
           IN  /\ t \in Seq(Bytes) /\ t # <<>> /\ t[1] = Version
               /\ Chunks(t) = Chunks(s)
               /\ \A pairs : Paired(s, pairs) => Paired(t, pairs)
               /\ s[1] = Version => t = s
  <1> DEFINE t == [s EXCEPT ![1] = Version]
  <1>1. Version \in Bytes /\ 1 \in 1 .. Len(s)
    BY DEF Bytes
  <1>2. /\ t \in Seq(Bytes) /\ Len(t) = Len(s)
        /\ \A i \in 1 .. Len(s) : t[i] = IF i = 1 THEN Version ELSE s[i]
    BY <1>1, ExceptSeq
  <1> HIDE DEF t
  <1>3. t # <<>> /\ t[1] = Version
    BY <1>1, <1>2
  <1>4. Chunks(t) = Chunks(s)
    <2>1. \A i \in Nat : 3 * i + 4 <= Len(s) =>
             /\ t[3 * i + 2] = s[3 * i + 2] /\ t[3 * i + 3] = s[3 * i + 3]
             /\ t[3 * i + 4] = s[3 * i + 4]
      BY <1>2
    <2> DEFINE In(u, k) == \E i \in Nat : /\ 3 * i + 4 <= Len(u)
                                         /\ k = <<u[3 * i + 2], u[3 * i + 3], u[3 * i + 4]>>
    <2>a. \A k : k \in Chunks(t) <=> In(t, k)
      BY <1>2, ChunksAre
    <2>b. \A k : k \in Chunks(s) <=> In(s, k)
      BY ChunksAre
    <2>c. \A k : In(t, k) <=> In(s, k)
      BY <1>2, <2>1
    <2> HIDE DEF In
    <2>2. \A k : k \in Chunks(t) <=> k \in Chunks(s)
      BY <2>a, <2>b, <2>c
    <2>3. ASSUME NEW a, NEW b, \A k : k \in Chunks(a) <=> k \in Chunks(b)
          PROVE  Chunks(a) = Chunks(b)
      BY <2>3
    <2> QED
      BY <2>2, <2>3
  <1>5. ASSUME NEW pairs, Paired(s, pairs) PROVE Paired(t, pairs)
    <2>1. DOMAIN t = 1 .. Len(s) /\ DOMAIN s = 1 .. Len(s)
      BY <1>2
    <2>2. \A f \in Files, q \in Patterns :
             Version # <<f, "rest">> /\ Version # <<q, "pattern">>
      BY DEF Version
    <2> QED
      BY <1>2, <1>5, <2>1, <2>2 DEF Paired
  <1>6. s[1] = Version => t = s
    BY <1>1, <1>2, SeqEqual
  <1> QED
    BY <1>2, <1>3, <1>4, <1>5, <1>6 DEF t

-----------------------------------------------------------------------------
(* Types.                                                                  *)

\* What the manager thread receives.
LEMMA KeyTyped ==
    \A k \in KeysOf(Pairs) : /\ k \in Seq(Bytes) /\ Len(k) = Width
                             /\ \E x \in Pairs : k = Key(x[1], x[2])
  BY KeyBytes DEF KeysOf, Width

\* What a process reads.
LEMMA ChunksTyped ==
    ASSUME NEW s \in Seq(Bytes) PROVE Chunks(s) \subseteq Bytes \X Bytes \X Bytes
  <1> SUFFICES ASSUME NEW k \in Chunks(s) PROVE k \in Bytes \X Bytes \X Bytes
    OBVIOUS
  <1>1. PICK i \in Nat : /\ 3 * i + 4 <= Len(s)
                         /\ k = <<s[3 * i + 2], s[3 * i + 3], s[3 * i + 4]>>
    BY ChunksAre
  <1>2. s[3 * i + 2] \in Bytes /\ s[3 * i + 3] \in Bytes /\ s[3 * i + 4] \in Bytes
    BY <1>1
  <1> QED
    BY <1>1, <1>2

\* What a write of n bytes does.
WriteOf(p, n) ==
    LET left == Len(buffer[p]) - n
    IN  /\ left = 0 \/ writer'[p] # "running"
        /\ IF left = 0 THEN Untorn ELSE Tear
        /\ file' = file \o SubSeq(buffer[p], 1, n)
        /\ buffer' = [buffer EXCEPT ![p] = SubSeq(buffer[p], n + 1, Len(buffer[p]))]
        /\ headed' = (headed /\ Whole(Len(buffer[p])) /\ Whole(left))
        /\ torn' = IF Whole(left) THEN torn ELSE torn \union {p}
        /\ writer' = [writer EXCEPT ![p] =
              CASE writer[p] = "dropping" -> IF left = 0 THEN "ended" ELSE "dropping"
                [] OTHER -> IF left = 0 THEN "running" ELSE "flushing"]
        /\ writer'[p] = "ended" => left = 0
        /\ UNCHANGED <<exists, intact, pc, no_matches, sender, chan, history, opens>>

\* A write is of some of the bytes.
LEMMA WriteIs ==
    ASSUME writer \in [Procs -> {"none", "running", "flushing", "dropping", "ended"}],
           NEW p \in Procs, Write(p)
    PROVE  \E n \in 1 .. Len(buffer[p]) : WriteOf(p, n)
  <1>1. PICK n \in 1 .. Len(buffer[p]) :
          LET left == Len(buffer[p]) - n
          IN  /\ IF left = 0 THEN Untorn ELSE Tear
              /\ file' = file \o SubSeq(buffer[p], 1, n)
              /\ buffer' = [buffer EXCEPT ![p] = SubSeq(@, n + 1, Len(@))]
              /\ headed' = (headed /\ Whole(Len(buffer[p])) /\ Whole(left))
              /\ torn' = IF Whole(left) THEN torn ELSE torn \union {p}
              /\ writer' = [writer EXCEPT ![p] =
                    CASE @ = "dropping" -> IF left = 0 THEN "ended" ELSE @
                      [] OTHER -> IF left = 0 THEN "running" ELSE "flushing"]
    BY DEF Write
  <1> DEFINE left == Len(buffer[p]) - n
             w == CASE writer[p] = "dropping" -> IF left = 0 THEN "ended" ELSE "dropping"
                    [] OTHER -> IF left = 0 THEN "running" ELSE "flushing"
  <1>2. writer' = [writer EXCEPT ![p] = w]
    BY <1>1
  <1>3. w = "running" \/ w = "ended" => left = 0
    OBVIOUS
  <1>4. writer'[p] = w
    BY <1>2
  <1>5. UNCHANGED <<exists, intact, pc, no_matches, sender, chan, history, opens>>
    BY DEF Write
  <1> QED
    BY <1>1, <1>2, <1>3, <1>4, <1>5 DEF WriteOf

\* Every step preserves the types.
LEMMA TypeNext ==
    ASSUME TypeOK, Idle, [Next]_vars
    PROVE  TypeOK'
  <1> USE DEF TypeOK
  <1>1. ASSUME NEW p \in Procs, Opening(p) PROVE TypeOK'
    <2> USE <1>1 DEF disk, thread, history, Goto
    <2>1. CASE Open(p)
      <3>1. opens' \in 0 .. MaxOpens
        BY <2>1, BoundsAssumption DEF Open
      <3>2. \E place \in {"truncating", "null", "reading"} : pc' = [pc EXCEPT ![p] = place]
        BY <2>1 DEF Open
      <3> QED
        BY <2>1, <3>1, <3>2 DEF Open
    <2>2. CASE Truncate(p)
      <3>1. since' \subseteq ever
        BY <2>2 DEF Truncate, Idle
      <3>2. file' \in Seq(Bytes)
        BY <2>2 DEF Truncate
      <3> QED
        BY <2>2, <3>1, <3>2 DEF Truncate
    <2>3. CASE WriteVersion(p)
      <3>1. tears' \in 0 .. MaxTears
        BY <2>3, BoundsAssumption DEF WriteVersion, Untorn, Tear
      <3>2. file' \in Seq(Bytes)
        <4>1. Version \in Bytes
          BY DEF Bytes
        <4>2. <<Version>> \in Seq(Bytes)
          BY <4>1
        <4> QED
          BY <2>3, <4>1, <4>2, Versioned DEF WriteVersion
      <3>3. headed' \in BOOLEAN /\ intact' \subseteq Procs
        BY <2>3 DEF WriteVersion
      <3> QED
        BY <2>3, <3>1, <3>2, <3>3 DEF WriteVersion
    <2>4. CASE Read(p)
      BY <2>4, ChunksTyped DEF Read
    <2>5. CASE OpenWriter(p)
      BY <2>5 DEF OpenWriter
    <2>6. CASE LeaveNull(p)
      BY <2>6 DEF LeaveNull
    <2> QED
      BY <1>1, <2>1, <2>2, <2>3, <2>4, <2>5, <2>6 DEF Opening
  <1>2. ASSUME NEW p \in Procs, Use(p) PROVE TypeOK'
    <2>1. PICK f \in Files, q \in Patterns : Put(p, f, q)
      BY <1>2 DEF Use
    <2>2. Key(f, q) \in KeysOf(Pairs) /\ <<f, q>> \in Pairs
      BY DEF KeysOf, Pairs
    <2>3. chan' \in [Procs -> Seq(KeysOf(Pairs))]
      BY <2>1, <2>2 DEF Put
    <2>4. mine' \in [Procs -> SUBSET Pairs] /\ ever' \subseteq Pairs /\ since' \subseteq ever'
      BY <2>1, <2>2 DEF Put
    <2>5. puts' \in 0 .. MaxPuts
      BY <2>1, BoundsAssumption DEF Put
    <2> QED
      BY <2>1, <2>3, <2>4, <2>5 DEF Put, disk, thread
  <1>3. ASSUME NEW p \in Procs, Manager(p) PROVE TypeOK'
    <2> DEFINE Fits == /\ buffer' \in [Procs -> Seq(Bytes)]
                       /\ \A o \in Procs : Len(buffer'[o]) <= Capacity
    <2>1. \A b \in Seq(Bytes) :
             Len(b) <= Capacity /\ buffer' = [buffer EXCEPT ![p] = b] => Fits
      OBVIOUS
    <2>2. <<>> \in Seq(Bytes) /\ <<>> \in Seq(KeysOf(Pairs)) /\ Len(<<>>) <= Capacity
      BY CapacityAssumption
    <2>3. CASE Recv(p)
      <3> DEFINE k == Head(chan[p])
                 b == buffer[p] \o k
      <3>1. k \in Seq(Bytes) /\ Len(k) = Width
        BY <2>3, KeyTyped DEF Recv
      <3>2. chan' \in [Procs -> Seq(KeysOf(Pairs))]
        BY <2>3 DEF Recv
      <3>3. Width \in Nat
        BY DEF Width
      <3>4. buffer[p] \in Seq(Bytes)
        OBVIOUS
      <3>5. b \in Seq(Bytes) /\ Len(b) = Len(buffer[p]) + Width
        <4> HIDE DEF TypeOK, k, Fits
        <4>1. b \in Seq(Bytes) /\ Appended(buffer[p], b, k)
          BY <3>1, <3>4, ConcatAppended
        <4> QED
          BY <3>1, <4>1 DEF Appended
      <3>6. Len(b) <= Capacity
        BY <2>3, <3>3, <3>5, CapacityAssumption DEF Full, Recv
      <3>7. buffer' = [buffer EXCEPT ![p] = b]
        BY <2>3 DEF Recv
      <3> HIDE DEF b
      <3>8. Fits
        BY <2>1, <3>5, <3>6, <3>7
      <3> QED
        BY <2>3, <3>2, <3>8 DEF Recv, disk, history
    <2>4. CASE Write(p)
      <3>1. PICK n \in 1 .. Len(buffer[p]) : WriteOf(p, n)
        BY <2>4, WriteIs
      <3>2. buffer[p] \in Seq(Bytes) /\ file \in Seq(Bytes) /\ Len(buffer[p]) <= Capacity
        OBVIOUS
      <3> DEFINE u == SubSeq(buffer[p], 1, n)
                 t == SubSeq(buffer[p], n + 1, Len(buffer[p]))
      <3>3. u \in Seq(Bytes) /\ t \in Seq(Bytes) /\ Len(t) = Len(buffer[p]) - n
        BY <3>2, Halves
      <3>4. Len(t) <= Capacity
        BY <3>2, <3>3, CapacityAssumption
      <3>5. file' = file \o u /\ buffer' = [buffer EXCEPT ![p] = t]
        BY <3>1 DEF WriteOf
      <3> HIDE DEF u, t
      <3>6. file' \in Seq(Bytes) /\ Fits
        BY <2>1, <3>2, <3>3, <3>4, <3>5
      <3>7. headed' \in BOOLEAN /\ torn' \subseteq Procs
        BY <3>1 DEF WriteOf
      <3>8. tears' \in 0 .. MaxTears
        BY <3>1, BoundsAssumption DEF WriteOf, Untorn, Tear
      <3>9. writer' \in [Procs -> {"none", "running", "flushing", "dropping", "ended"}]
        BY <3>1 DEF WriteOf
      <3> QED
        BY <3>1, <3>6, <3>7, <3>8, <3>9 DEF WriteOf, history
    <2>5. CASE WriteFails(p)
      <3>1. Fits
        <4>1. \/ buffer' = [buffer EXCEPT ![p] = <<>>] \/ buffer' = buffer
          BY <2>5 DEF WriteFails
        <4> QED
          BY <2>1, <2>2, <4>1
      <3>2. chan' \in [Procs -> Seq(KeysOf(Pairs))]
        BY <2>2, <2>5 DEF WriteFails
      <3>3. tears' \in 0 .. MaxTears
        BY <2>5, BoundsAssumption DEF WriteFails, Tear
      <3>4. writer' \in [Procs -> {"none", "running", "flushing", "dropping", "ended"}]
        BY <2>5 DEF WriteFails
      <3> QED
        BY <2>5, <3>1, <3>2, <3>3, <3>4 DEF WriteFails, history
    <2>6. CASE Drain(p)
      <3>1. writer' \in [Procs -> {"none", "running", "flushing", "dropping", "ended"}]
        BY <2>6 DEF Drain
      <3> QED
        BY <2>6, <3>1 DEF Drain, disk, history
    <2> QED
      BY <1>3, <2>3, <2>4, <2>5, <2>6 DEF Manager
  <1>4. ASSUME NEW p \in Procs, Close(p) PROVE TypeOK'
    BY <1>4 DEF Close, Goto, disk, thread, history
  <1>5. ASSUME NEW p \in Procs, Join(p) PROVE TypeOK'
    BY <1>5 DEF Join, Forget, Goto, disk
  <1>6. ASSUME NEW p \in Procs, Crash(p) PROVE TypeOK'
    <2>1. <<>> \in Seq(Bytes) /\ <<>> \in Seq(KeysOf(Pairs)) /\ Len(<<>>) = 0
      OBVIOUS
    <2> QED
      BY <1>6, <2>1, CapacityAssumption DEF Crash, Forget, Goto, disk
  <1>7. CASE UNCHANGED vars
    BY <1>7 DEF vars
  <1> QED
    BY <1>1, <1>2, <1>3, <1>4, <1>5, <1>6, <1>7 DEF Next, Stay

-----------------------------------------------------------------------------
(* What a process has when it does not use its cache.                      *)

\* Every step preserves it: a process has put, sent and buffered nothing before its
\* cache is open, and nothing is left when its thread is not running.
LEMMA IdleNext ==
    ASSUME TypeOK, Idle, [Next]_vars
    PROVE  Idle'
  <1>0. /\ pc \in [Procs -> {"off", "null", "truncating", "versioning", "reading",
                             "opening", "open", "closing"}]
        /\ DOMAIN no_matches = Procs /\ DOMAIN chan = Procs /\ DOMAIN buffer = Procs
        /\ DOMAIN writer = Procs /\ DOMAIN mine = Procs
    BY DEF TypeOK
  <1> USE <1>0 DEF Idle, disk, thread, history, Goto
  <1>1. ASSUME NEW p \in Procs, Opening(p) PROVE Idle'
    <2>1. CASE Open(p)
      <3>1. \E place \in {"truncating", "null", "reading"} : pc' = [pc EXCEPT ![p] = place]
        BY <2>1 DEF Open
      <3> QED
        BY <2>1, <3>1 DEF Open
    <2>2. CASE Truncate(p)
      <3>1. \A o \in Procs : mine'[o] \subseteq since'
        BY <2>2 DEF Truncate
      <3> QED
        BY <2>2, <3>1 DEF Truncate
    <2>3. CASE WriteVersion(p)
      BY <2>3 DEF WriteVersion
    <2>4. CASE Read(p)
      <3>1. PICK place \in {"opening", "truncating"} : pc' = [pc EXCEPT ![p] = place]
        BY <2>4 DEF Read
      <3>2. place = "truncating" => UNCHANGED no_matches
        BY <2>4, <3>1 DEF Read
      <3>3. \A o \in Procs : o # p => no_matches'[o] = no_matches[o]
        BY <2>4 DEF Read
      <3> QED
        BY <2>4, <3>1, <3>2, <3>3 DEF Read
    <2>5. CASE OpenWriter(p)
      BY <2>5 DEF OpenWriter
    <2>6. CASE LeaveNull(p)
      BY <2>6 DEF LeaveNull
    <2> QED
      BY <1>1, <2>1, <2>2, <2>3, <2>4, <2>5, <2>6 DEF Opening
  <1>2. ASSUME NEW p \in Procs, Use(p) PROVE Idle'
    <2>1. PICK f \in Files, q \in Patterns : Put(p, f, q)
      BY <1>2 DEF Use
    <2> QED
      BY <2>1 DEF Put
  <1>3. ASSUME NEW p \in Procs, Manager(p) PROVE Idle'
    <2>1. CASE Recv(p)
      BY <2>1 DEF Recv
    <2>2. CASE Write(p)
      <3>1. PICK n \in 1 .. Len(buffer[p]) : WriteOf(p, n)
        BY <2>2, WriteIs DEF TypeOK
      <3>2. writer[p] \in {"running", "flushing", "dropping"}
        BY <2>2 DEF Write, Flushing
      <3>3. /\ writer[p] = "dropping" => writer'[p] \in {"dropping", "ended"}
            /\ writer[p] # "dropping" => writer'[p] \in {"running", "flushing"}
            /\ \A o \in Procs \ {p} : writer'[o] = writer[o] /\ buffer'[o] = buffer[o]
            /\ UNCHANGED <<mine, since, chan, pc, no_matches>>
        BY <3>1, <3>2 DEF WriteOf
      <3>4. writer'[p] = "ended" => buffer'[p] = <<>>
        <4>1. buffer[p] \in Seq(Bytes)
          BY DEF TypeOK
        <4>2. /\ buffer'[p] = SubSeq(buffer[p], n + 1, Len(buffer[p]))
              /\ writer'[p] = "ended" => Len(buffer[p]) - n = 0
          BY <3>1 DEF WriteOf
        <4>3. buffer'[p] \in Seq(Bytes) /\ Len(buffer'[p]) = Len(buffer[p]) - n
          BY <4>1, <4>2, Halves
        <4> QED
          BY <4>2, <4>3, EmptySeq
      <3> QED
        BY <3>2, <3>3, <3>4
    <2>3. CASE WriteFails(p)
      <3>1. /\ writer[p] = "dropping" => writer'[p] = "ended" /\ buffer'[p] = <<>>
            /\ writer[p] # "dropping" => writer'[p] = "dropping"
            /\ chan'[p] = <<>>
            /\ \A o \in Procs \ {p} : /\ writer'[o] = writer[o] /\ buffer'[o] = buffer[o]
                                       /\ chan'[o] = chan[o]
            /\ UNCHANGED <<mine, since, pc, no_matches>>
        BY <2>3 DEF WriteFails
      <3>2. pc[p] \in {"open", "closing"}
        BY <2>3 DEF WriteFails, Flushing
      <3> QED
        BY <3>1, <3>2
    <2>4. CASE Drain(p)
      <3>1. /\ writer'[p] \in {"dropping", "ended"} /\ chan[p] = <<>>
            /\ writer'[p] = "ended" => buffer[p] = <<>>
            /\ writer[p] = "running"
            /\ \A o \in Procs \ {p} : writer'[o] = writer[o]
            /\ UNCHANGED <<mine, since, chan, buffer, pc, no_matches>>
        BY <2>4 DEF Drain
      <3> QED
        BY <3>1
    <2> QED
      BY <1>3, <2>1, <2>2, <2>3, <2>4 DEF Manager
  <1>4. ASSUME NEW p \in Procs, Close(p) PROVE Idle'
    BY <1>4 DEF Close
  <1>5. ASSUME NEW p \in Procs, Join(p) PROVE Idle'
    BY <1>5 DEF Join, Forget
  <1>6. ASSUME NEW p \in Procs, Crash(p) PROVE Idle'
    BY <1>6 DEF Crash, Forget
  <1>7. CASE UNCHANGED vars
    BY <1>7 DEF vars
  <1> QED
    BY <1>1, <1>2, <1>3, <1>4, <1>5, <1>6, <1>7 DEF Next, Stay

-----------------------------------------------------------------------------
(* The steps, by what they do to the bytes.                                *)

\* A buffer that is empty is as it should be, whatever its thread does.
LEMMA EmptyBuffered ==
    ASSUME NEW pairs
    PROVE  /\ Keys(<<>>, 0, 0, pairs) /\ 0 \in 0 .. Len(<<>>) /\ 0 \in 0 .. 2
           /\ Paired(<<>>, pairs)
           /\ \A r : Joins(r, <<>>, pairs)
  BY DEF Keys, Paired, Joins

\* A process takes no part in it: it opens or closes its cache, or its thread begins
\* or ends its loop.
LEMMA QuietInv ==
    ASSUME MInv,
           UNCHANGED <<file, headed, intact, torn, no_matches, chan, buffer, history>>,
           \A o \in Procs : writer'[o] = "running" => writer[o] = "running" \/ buffer[o] = <<>>
    PROVE  MInv'
  <1>1. UNCHANGED <<mine, ever, since>>
    BY DEF history
  <1> USE DEF MInv
  <1>2. Sending'
    BY <1>1 DEF Sending
  <1>3. Buffered'
    <2> SUFFICES ASSUME NEW p \in Procs
                 PROVE  (\E j \in 0 .. 2 : KeysFrom(p, j)') /\ Paired(buffer[p], mine[p])'
      BY DEF Buffered
    <2>1. PICK j \in 0 .. 2 : KeysFrom(p, j)
      BY DEF Buffered
    <2>2. CASE writer'[p] = "running" /\ buffer[p] = <<>>
      <3>1. KeysFrom(p, 0)'
        BY <1>1, <2>2, EmptyBuffered DEF KeysFrom
      <3> QED
        BY <1>1, <3>1 DEF Buffered
    <2>3. CASE ~ (writer'[p] = "running" /\ buffer[p] = <<>>)
      <3>1. KeysFrom(p, j)'
        BY <1>1, <2>1, <2>3 DEF KeysFrom
      <3> QED
        BY <1>1, <3>1 DEF Buffered
    <2> QED
      BY <2>2, <2>3
  <1>4. FilePaired' /\ Joined'
    BY <1>1 DEF FilePaired, Joined, OneTorn
  <1>5. HitsWerePut' /\ Snapshots' /\ Headed' /\ Kept'
    BY <1>1 DEF HitsWerePut, Snapshots, Headed, Kept, Has, InBuffer, InChannel, HasVersion,
                OneTorn
  <1> QED
    BY <1>2, <1>3, <1>4, <1>5

\* A process is gone, with all it had.
LEMMA GoneInv ==
    ASSUME TypeOK, MInv, NEW p \in Procs, Forget(p),
           \A o \in Procs \ {p} : chan'[o] = chan[o] /\ buffer'[o] = buffer[o],
           chan'[p] = <<>>, buffer'[p] = <<>>,
           \A o \in Procs \ {p} : writer'[o] = writer[o],
           UNCHANGED <<file, headed, intact, torn, ever, since>>
    PROVE  MInv'
  <1>1. /\ \A o \in Procs \ {p} : mine'[o] = mine[o] /\ no_matches'[o] = no_matches[o]
        /\ mine'[p] = {} /\ no_matches'[p] = {} /\ intact \subseteq Procs
        /\ \A o \in Procs : no_matches'[o] \subseteq no_matches[o]
    BY DEF TypeOK, Forget
  <1> USE DEF MInv
  <1>2. Sending'
    BY <1>1 DEF Sending
  <1>3. Buffered'
    <2>1. KeysFrom(p, 0)' /\ Paired(buffer[p], mine[p])'
      BY EmptyBuffered DEF KeysFrom
    <2>2. \A o \in Procs \ {p} : \A j : KeysFrom(o, j) => KeysFrom(o, j)'
      BY <1>1 DEF KeysFrom
    <2>3. \A o \in Procs \ {p} : Paired(buffer[o], mine[o]) => Paired(buffer[o], mine[o])'
      BY <1>1 DEF Paired
    <2> QED
      BY <2>1, <2>2, <2>3 DEF Buffered
  <1>4. FilePaired' /\ Joined' /\ Headed'
    <2>1. \A o \in Procs : buffer'[o] = buffer[o] \/ Joins(file, buffer'[o], since)
      BY EmptyBuffered
    <2> QED
      BY <2>1 DEF FilePaired, Joined, Headed, HasVersion, OneTorn
  <1>5. HitsWerePut'
    BY <1>1 DEF HitsWerePut, Has, OneTorn
  <1>6. Snapshots'
    BY <1>1 DEF Snapshots
  <1>7. Kept'
    BY <1>1 DEF Kept, InBuffer, InChannel
  <1> QED
    BY <1>2, <1>3, <1>4, <1>5, <1>6, <1>7

\* A process puts a pair: it is in the file, as the snapshot has it, or sent.
LEMMA PutInv ==
    ASSUME TypeOK, Idle, MInv, NEW p \in Procs, NEW f \in Files, NEW q \in Patterns,
           Put(p, f, q)
    PROVE  MInv'
  <1> USE DEF MInv
  <1>1. /\ \A o \in Procs \ {p} : mine'[o] = mine[o] /\ chan'[o] = chan[o]
        /\ mine'[p] = mine[p] \cup {<<f, q>>}
        /\ since \subseteq since' /\ ever \subseteq ever'
        /\ chan'[p] = IF Has(no_matches[p], f, q) THEN chan[p]
                      ELSE Append(chan[p], Key(f, q))
        /\ UNCHANGED <<file, headed, intact, torn, no_matches, buffer, writer>>
    BY DEF Put, TypeOK, disk, thread
  <1> DEFINE x == <<f, q>>
  <1>0. x \in Pairs /\ x[1] = f /\ x[2] = q
    BY DEF Pairs
  <1> HIDE DEF x
  <1>2. /\ chan[p] \in Seq(KeysOf(Pairs)) /\ Key(f, q) \in KeysOf(Pairs)
        /\ intact \subseteq Procs
    BY <1>0 DEF TypeOK, KeysOf
  <1>3. /\ \A i \in DOMAIN chan[p] : i \in DOMAIN chan'[p] /\ chan'[p][i] = chan[p][i]
        /\ \A i \in DOMAIN chan'[p] :
              i \in DOMAIN chan[p] \/ chan'[p][i] = Key(f, q)
        /\ ~ Has(no_matches[p], f, q) =>
              \E i \in DOMAIN chan'[p] : chan'[p][i] = Key(f, q)
    <2> DEFINE k == Key(f, q)
               c == Append(chan[p], k)
    <2>1. /\ c \in Seq(KeysOf(Pairs)) /\ DOMAIN c = 1 .. Len(chan[p]) + 1
          /\ DOMAIN chan[p] = 1 .. Len(chan[p]) /\ Len(chan[p]) \in Nat
          /\ \A i \in 1 .. Len(chan[p]) : c[i] = chan[p][i]
          /\ c[Len(chan[p]) + 1] = k
      BY <1>2
    <2> HIDE DEF c, k
    <2>2. chan'[p] = IF Has(no_matches[p], f, q) THEN chan[p] ELSE c
      BY <1>1 DEF c, k
    <2>3. /\ \A i \in DOMAIN chan[p] : i \in DOMAIN c /\ c[i] = chan[p][i]
          /\ \A i \in DOMAIN c : i \in DOMAIN chan[p] \/ c[i] = k
          /\ Len(chan[p]) + 1 \in DOMAIN c /\ c[Len(chan[p]) + 1] = k
      BY <2>1
    <2>4. Key(f, q) = k
      BY DEF k
    <2> QED
      BY <2>2, <2>3, <2>4
  <1>4. Sending'
    <2>1. mine'[p] = mine[p] \cup {x}
      BY <1>1 DEF x
    <2> SUFFICES ASSUME NEW o \in Procs, NEW i \in DOMAIN chan'[o]
                 PROVE  \E y \in mine'[o] : chan'[o][i] = Key(y[1], y[2])
      BY DEF Sending
    <2>2. CASE o # p
      BY <1>1, <2>2 DEF Sending
    <2>3. CASE o = p /\ i \in DOMAIN chan[p]
      <3>1. PICK y \in mine[p] : chan[p][i] = Key(y[1], y[2])
        BY <2>3 DEF Sending
      <3> QED
        BY <1>3, <2>1, <2>3, <3>1
    <2>4. CASE o = p /\ chan'[p][i] = Key(f, q)
      BY <1>0, <2>1, <2>4
    <2> QED
      BY <1>3, <2>2, <2>3, <2>4
  <1>5. Buffered'
    <2>1. \A o \in Procs : mine[o] \subseteq mine'[o]
      BY <1>1
    <2>2. \A o \in Procs : \A k : KeysFrom(o, k) => KeysFrom(o, k)'
      BY <1>1, <2>1, MorePairs DEF KeysFrom
    <2> QED
      BY <1>1, <2>1, <2>2, MorePairs DEF Buffered
  <1>6. FilePaired' /\ Joined'
    <2>1. \A s, r : Joins(s, r, since) => Joins(s, r, since')
      BY <1>1 DEF Joins
    <2> QED
      BY <1>1, <2>1, MorePairs DEF FilePaired, Joined, OneTorn
  <1>7. HitsWerePut'
    BY <1>1 DEF HitsWerePut, Has, OneTorn
  <1>8. Snapshots'
    BY <1>1 DEF Snapshots
  <1>9. Headed'
    BY <1>1, MorePairs DEF Headed, HasVersion
  <1>10. Kept'
    <2>1. mine'[p] = mine[p] \cup {x}
      BY <1>1 DEF x
    <2>2. \A o \in Procs : \A y : /\ InBuffer(o, y) => InBuffer(o, y)'
                                  /\ InChannel(o, y) => InChannel(o, y)'
      BY <1>1, <1>3 DEF InBuffer, InChannel
    <2>3. p \in intact => Key(f, q) \in Chunks(file) \/ InChannel(p, x)'
      BY <1>0, <1>3 DEF InChannel, Has, Snapshots
    <2> QED
      BY <1>0, <1>1, <1>2, <2>1, <2>2, <2>3 DEF Kept
  <1> QED
    BY <1>4, <1>5, <1>6, <1>7, <1>8, <1>9, <1>10

\* The file is emptied: what the other processes put is still to come.
LEMMA TruncateInv ==
    ASSUME TypeOK, Idle, MInv, NEW p \in Procs, Truncate(p)
    PROVE  MInv'
  <1> USE DEF MInv
  <1>1. /\ file' = <<>> /\ headed' = FALSE /\ intact' = {}
        /\ UNCHANGED <<torn, no_matches, chan, buffer, writer, mine, ever>>
    BY DEF Truncate, thread
  <1>2. FilePaired' /\ Joined'
    BY <1>1 DEF FilePaired, Paired, Joined, Joins
  <1>3. Buffered'
    BY <1>1 DEF Buffered, KeysFrom
  <1> QED
    BY <1>1, <1>2, <1>3 DEF Sending, HitsWerePut, Has, OneTorn, Snapshots, Headed, Kept

\* The file gets its version, in front of all or in the place of the first byte.
LEMMA WriteVersionInv ==
    ASSUME TypeOK, Idle, MInv, NEW p \in Procs, WriteVersion(p)
    PROVE  MInv'
  <1>a. CASE UNCHANGED <<file, headed, intact>>
    BY <1>a, QuietInv DEF WriteVersion, thread
  <1>b. SUFFICES ASSUME ~ UNCHANGED <<file, headed, intact>> PROVE MInv'
    BY <1>a
  <1> USE DEF MInv
  <1>1. /\ file' = IF file = <<>> THEN <<Version>> ELSE [file EXCEPT ![1] = Version]
        /\ headed' = (file = <<>> \/ headed) /\ intact' = intact \cup {p}
        /\ UNCHANGED <<torn, no_matches, chan, buffer, writer, mine, ever, since>>
        /\ mine[p] = {} /\ no_matches[p] = {}
        /\ file \in Seq(Bytes) /\ Version \in Bytes
    BY <1>b DEF WriteVersion, TypeOK, thread, history, Idle, Bytes
  <1>2. /\ \A pairs : Paired(file, pairs) => Paired(file', pairs)
        /\ \A r, pairs : Joins(file, r, pairs) => Joins(file', r, pairs)
        /\ Chunks(file) \subseteq Chunks(file')
        /\ file' # <<>> /\ file'[1] = Version
        /\ headed => file' = file
    <2>0. \A f \in Files : Version # <<f, "rest">>
      BY DEF Version
    <2>1. CASE file = <<>>
      <3>1. file' = <<Version>>
        BY <1>1, <2>1
      <3>2. Chunks(file) = {}
        <4>1. \A i \in Nat : ~ (3 * i + 4 <= Len(file))
          BY <2>1
        <4> QED
          BY <1>1, <4>1, ChunksAre
      <3>3. \A pairs : Paired(<<Version>>, pairs)
        BY DEF Paired
      <3>4. ~ headed
        BY <2>1 DEF Headed, HasVersion
      <3>5. \A r, pairs : Joins(<<Version>>, r, pairs)
        BY <2>0 DEF Joins
      <3> QED
        BY <3>1, <3>2, <3>3, <3>4, <3>5
    <2>2. CASE file # <<>>
      <3>1. file' = [file EXCEPT ![1] = Version]
        BY <1>1, <2>2
      <3>2. headed => file[1] = Version
        BY DEF Headed, HasVersion
      <3>3. /\ Chunks(file') = Chunks(file) /\ file' # <<>> /\ file'[1] = Version
            /\ \A pairs : Paired(file, pairs) => Paired(file', pairs)
            /\ file[1] = Version => file' = file
        BY <1>1, <2>2, <3>1, Versioned
      <3>4. \A r, pairs : Joins(file, r, pairs) => Joins(file', r, pairs)
        <4>1. Len(file') = Len(file)
              /\ (file'[Len(file)] = file[Len(file)] \/ file'[Len(file)] = Version)
          BY <1>1, <2>2, <3>1
        <4> QED
          BY <2>0, <2>2, <4>1 DEF Joins
      <3> QED
        BY <3>2, <3>3, <3>4
    <2> QED
      BY <2>1, <2>2
  <1>3. Sending' /\ Buffered' /\ HitsWerePut'
    BY <1>1 DEF Sending, Buffered, KeysFrom, HitsWerePut, Has, OneTorn
  <1>4. FilePaired' /\ Joined'
    BY <1>1, <1>2 DEF FilePaired, Joined, OneTorn
  <1>5. Snapshots'
    BY <1>1, <1>2 DEF Snapshots
  <1>6. Headed'
    <2>1. CASE file = <<>>
      <3>1. file' = <<Version>>
        BY <1>1, <2>1
      <3>2. Keys(<<Version>>, 1, 0, since) /\ 0 \in 0 .. Len(<<Version>>)
        BY DEF Keys
      <3> QED
        BY <1>1, <1>2, <3>1, <3>2 DEF Headed, HasVersion
    <2>2. CASE file # <<>>
      BY <1>1, <1>2, <2>2 DEF Headed
    <2> QED
      BY <2>1, <2>2
  <1>7. Kept'
    <2>1. \A q \in Procs : \A x : /\ InBuffer(q, x)' <=> InBuffer(q, x)
                                  /\ InChannel(q, x)' <=> InChannel(q, x)
      BY <1>1 DEF InBuffer, InChannel
    <2>2. \A q \in intact' : q \in intact \/ mine'[q] = {}
      BY <1>1
    <2>3. headed' => headed \/ file = <<>>
      BY <1>1
    <2>4. mine' = mine /\ intact \subseteq Procs
      BY <1>1 DEF TypeOK
    <2> QED
      BY <1>2, <2>1, <2>2, <2>3, <2>4 DEF Kept
  <1> QED
    BY <1>3, <1>4, <1>5, <1>6, <1>7

\* A process takes its snapshot, of what is in the file.
LEMMA ReadInv ==
    ASSUME TypeOK, Idle, MInv, NEW p \in Procs, Read(p)
    PROVE  MInv'
  <1> USE DEF MInv
  <1>1. /\ intact' = intact \cup {p}
        /\ UNCHANGED <<file, headed, torn, chan, buffer, writer, mine, ever, since>>
        /\ mine[p] = {} /\ no_matches[p] = {}
        /\ no_matches'[p] \in {{}, Chunks(file)}
        /\ \A o \in Procs \ {p} : no_matches'[o] = no_matches[o]
        /\ file \in Seq(Bytes) /\ since \subseteq ever /\ intact \subseteq Procs
    BY DEF Read, TypeOK, thread, history, Idle
  <1>2. Sending' /\ Buffered' /\ FilePaired' /\ Joined' /\ Headed'
    BY <1>1 DEF Sending, Buffered, KeysFrom, FilePaired, Joined, OneTorn, Headed, HasVersion
  <1>3. HitsWerePut'
    <2>1. OneTorn => \A f \in Files, q \in Patterns :
             Key(f, q) \in Chunks(file) => <<f, q>> \in ever
      BY <1>1, ChunkPaired DEF FilePaired
    <2>2. \A o \in Procs : no_matches'[o] = no_matches[o] \/ no_matches'[o] = Chunks(file)
                             \/ no_matches'[o] = {}
      BY <1>1
    <2> QED
      BY <1>1, <2>1, <2>2 DEF HitsWerePut, Has, OneTorn
  <1>4. Snapshots'
    BY <1>1 DEF Snapshots
  <1>5. Kept'
    BY <1>1 DEF Kept, InBuffer, InChannel
  <1> QED
    BY <1>2, <1>3, <1>4, <1>5

\* Which buffers begin with a part of a key.
LEMMA TornFirst ==
    ASSUME TypeOK, MInv, NEW o \in Procs, NEW q \in Patterns,
           buffer[o] # <<>>, buffer[o][1] = <<q, "pattern">>
    PROVE  o \in torn
  <1>1. PICK j \in 0 .. 2 : KeysFrom(o, j)
    BY DEF MInv, Buffered
  <1>2. PICK n \in 0 .. Len(buffer[o]) : Keys(buffer[o], j, n, mine[o])
    BY <1>1 DEF KeysFrom
  <1>3. /\ buffer[o] \in Seq(Bytes) /\ mine[o] \in SUBSET Pairs /\ n \in Nat
    BY DEF TypeOK
  <1>4. CASE j = 0
    <2>1. NotPattern(buffer[o][1])
      BY <1>2, <1>3, <1>4, KeysPaired
    <2> QED
      BY <2>1 DEF NotPattern
  <1>5. CASE j # 0
    BY <1>1, <1>5 DEF KeysFrom
  <1> QED
    BY <1>4, <1>5

\* What a write of n bytes takes and leaves, when the process had no write end within
\* a key and does not now, or the file stays headed: whole keys.
LEMMA WholeWritten ==
    ASSUME TypeOK, MInv, NEW p \in Procs, NEW n \in 1 .. Len(buffer[p]),
           p \notin torn \/ Whole(Len(buffer[p])), Whole(Len(buffer[p]) - n)
    PROVE  \E d \in Nat :
              /\ n = 3 * d
              /\ Keys(SubSeq(buffer[p], 1, n), 0, d, mine[p])
              /\ \A f \in Files : buffer[p][n] # <<f, "rest">>
  <1> DEFINE b == buffer[p]
  <1>1. b \in Seq(Bytes) /\ Len(b) \in Nat /\ n \in Nat /\ n <= Len(b) /\ 1 <= n
    BY DEF TypeOK
  <1>2. PICK j \in 0 .. 2 : KeysFrom(p, j)
    BY DEF MInv, Buffered
  <1>3. PICK m \in 0 .. Len(b) : Keys(b, j, m, mine[p])
    BY <1>2 DEF KeysFrom
  <1>4. Len(b) = j + 3 * m
    BY <1>3 DEF Keys
  <1>5. j = 0
    <2>1. CASE p \notin torn
      BY <1>2, <2>1 DEF KeysFrom
    <2>2. CASE Whole(Len(b))
      <3>1. PICK a \in 0 .. Len(b) : Len(b) = 3 * a
        BY <1>1, <2>2, WholeKeyed
      <3> QED
        BY <1>4, <3>1
    <2> QED
      BY <2>1, <2>2
  <1>6. PICK a \in 0 .. Len(b) - n : Len(b) - n = 3 * a
    <2>1. Len(b) - n \in Nat
      BY <1>1
    <2> QED
      BY <2>1, WholeKeyed
  <1> DEFINE d == m - a
  <1>7. d \in Nat /\ n = 3 * d /\ 1 <= 3 * d /\ 3 * d <= Len(b)
    BY <1>1, <1>3, <1>4, <1>5, <1>6
  <1> HIDE DEF d
  <1>8. m \in Nat /\ Keys(b, 0, m, mine[p])
    BY <1>3, <1>5
  <1> HIDE DEF b
  <1>9. /\ Keys(SubSeq(b, 1, n), 0, d, mine[p]) /\ \A f \in Files : b[n] # <<f, "rest">>
    BY <1>1, <1>7, <1>8, KeysTaken
  <1> QED
    BY <1>7, <1>9 DEF b

\* A thread writes the beginning of its buffer, or all of it.
LEMMA WriteInv ==
    ASSUME TypeOK, Idle, MInv, NEW p \in Procs, Write(p)
    PROVE  MInv'
  <1>1. PICK n \in 1 .. Len(buffer[p]) : WriteOf(p, n)
    BY WriteIs DEF TypeOK
  <1> DEFINE b == buffer[p]
             u == SubSeq(b, 1, n)
             t == SubSeq(b, n + 1, Len(b))
  <1>2. /\ b \in Seq(Bytes) /\ mine[p] \in SUBSET Pairs /\ mine[p] \subseteq since
        /\ file \in Seq(Bytes) /\ intact \subseteq Procs /\ DOMAIN buffer = Procs
        /\ DOMAIN writer = Procs
    BY DEF TypeOK, Idle
  <1>3. /\ u \in Seq(Bytes) /\ Len(u) = n /\ \A i \in 1 .. n : u[i] = b[i]
        /\ t \in Seq(Bytes) /\ Len(t) = Len(b) - n
        /\ \A i \in 1 .. Len(b) - n : t[i] = b[n + i]
    BY <1>2, Halves
  <1>4. Paired(b, mine[p])
    BY DEF MInv, Buffered
  <1>5. /\ Paired(u, mine[p])
        /\ \A r : r # <<>> /\ r[Len(r)] = u[n] => Joins(r, t, mine[p])
    BY <1>2, <1>4, HalvesPaired
  <1>6. Paired(t, mine[p])
    BY <1>2, <1>4, HalvesPaired
  <1>7. /\ file' = file \o u /\ buffer'[p] = t
        /\ \A o \in Procs \ {p} : buffer'[o] = buffer[o] /\ writer'[o] = writer[o]
        /\ headed' => headed /\ Whole(Len(b)) /\ Whole(Len(b) - n)
        /\ torn \subseteq torn' /\ (p \in torn' \/ Whole(Len(b) - n))
        /\ writer'[p] = "running" => Len(b) - n = 0
        /\ UNCHANGED <<intact, no_matches, chan, mine, ever, since>>
    BY <1>1, <1>2 DEF WriteOf, history
  <1>8. PICK j \in 0 .. 2 : KeysFrom(p, j)
    BY DEF MInv, Buffered
  <1>9. PICK m \in Nat : Keys(b, j, m, mine[p])
    BY <1>8 DEF KeysFrom
  <1>10. PICK e \in 0 .. 2 : /\ \E k \in 0 .. Len(t) : Keys(t, e, k, mine[p])
                             /\ Whole(Len(t)) <=> e = 0
    <2>1. n \in 1 .. Len(b)
      OBVIOUS
    <2> HIDE DEF b
    <2> QED
      BY <1>2, <1>9, <2>1, KeysLeft
  <1>11. n \in Nat /\ 1 <= n /\ n <= Len(b) /\ Len(b) \in Nat
    BY <1>2
  <1>12. u # <<>> /\ u[1] = b[1] /\ u[n] = b[n] /\ b # <<>>
    <2>1. 1 \in 1 .. n /\ n \in 1 .. n
      BY <1>11
    <2>2. Len(u) # 0 /\ Len(b) # 0
      BY <1>3, <1>11
    <2> QED
      BY <1>3, <2>1, <2>2
  <1>14. ASSUME p \notin torn \/ Whole(Len(b)), Whole(Len(b) - n)
         PROVE  \E d \in Nat : /\ n = 3 * d /\ Keys(u, 0, d, mine[p])
                               /\ \A f \in Files : u[n] # <<f, "rest">>
    BY <1>12, <1>14, WholeWritten
  <1> HIDE DEF u, t, b
  <1>15. file' \in Seq(Bytes) /\ Appended(file, file', u)
    BY <1>2, <1>3, <1>7, ConcatAppended
  <1>16. Chunks(file) \subseteq Chunks(file')
    BY <1>2, <1>15, ChunksAppended
  <1>17. file' # <<>> /\ file'[Len(file')] = u[n]
    <2>1. Len(file') = Len(file) + n /\ n \in 1 .. Len(u)
      BY <1>3, <1>11, <1>15 DEF Appended
    <2>2. file'[Len(file) + n] = u[n]
      BY <2>1, <1>15 DEF Appended
    <2>3. Len(file') # 0
      BY <1>2, <1>11, <2>1
    <2> QED
      BY <2>1, <2>2, <2>3
  <1>18. OneTorn' => OneTorn
    BY <1>7 DEF OneTorn
  <1>19. Sending'
    BY <1>7 DEF MInv, Sending
  <1>20. Buffered'
    <2>1. KeysFrom(p, e)'
      <3>a. Len(t) = Len(b) - n
        BY <1>3
      <3>b. Whole(Len(t)) <=> e = 0
        BY <1>10
      <3>0. Whole(Len(b) - n) <=> e = 0
        BY <3>a, <3>b, Zenon
      <3>1. e # 0 => p \in torn'
        BY <1>7, <3>0
      <3>2. writer'[p] = "running" => e = 0
        <4>1. Whole(0)
          BY WholeKeyed
        <4> QED
          BY <1>7, <3>0, <4>1
      <3>3. buffer'[p] = t /\ mine' = mine
        BY <1>7
      <3>4. \E k \in 0 .. Len(buffer'[p]) : Keys(buffer'[p], e, k, mine'[p])
        BY <1>10, <3>3
      <3> QED
        BY <3>1, <3>2, <3>4 DEF KeysFrom
    <2>2. \A o \in Procs \ {p} : \A k : KeysFrom(o, k) => KeysFrom(o, k)'
      BY <1>7 DEF KeysFrom
    <2>3. Paired(buffer[p], mine[p])'
      BY <1>6, <1>7
    <2> QED
      BY <1>7, <2>1, <2>2, <2>3 DEF MInv, Buffered
  <1>21. FilePaired'
    <2> SUFFICES ASSUME OneTorn' PROVE Paired(file', since)
      BY <1>7 DEF FilePaired
    <2>1. Paired(file, since) /\ Joins(file, b, since)
      BY <1>18 DEF MInv, FilePaired, Joined, b
    <2>2. Joins(file, u, since)
      BY <1>12, <2>1 DEF Joins
    <2>3. Paired(u, since)
      BY <1>2, <1>5, MorePairs
    <2> QED
      BY <1>15, <2>1, <2>2, <2>3, PairedAppended
  <1>22. Joined'
    <2> SUFFICES ASSUME OneTorn', NEW o \in Procs PROVE Joins(file', buffer'[o], since)
      BY <1>7 DEF Joined
    <2>1. CASE o = p
      <3>1. Joins(file', t, mine[p])
        BY <1>5, <1>17
      <3> QED
        BY <1>2, <1>7, <2>1, <3>1 DEF Joins
    <2>2. CASE o # p
      <3> SUFFICES ASSUME buffer[o] # <<>>, NEW f \in Files, NEW q \in Patterns,
                          file'[Len(file')] = <<f, "rest">>, buffer[o][1] = <<q, "pattern">>
                   PROVE  FALSE
        BY <1>7, <2>2 DEF Joins
      <3>1. o \in torn
        BY TornFirst
      <3>2. p \notin torn'
        BY <1>7, <2>2, <3>1 DEF OneTorn
      <3>3. p \notin torn /\ Whole(Len(b) - n)
        BY <1>7, <3>2
      <3> QED
        BY <1>14, <1>17, <3>3
    <2> QED
      BY <2>1, <2>2
  <1>23. HitsWerePut' /\ Snapshots'
    BY <1>7, <1>16, <1>18 DEF MInv, HitsWerePut, Has, Snapshots
  <1>24. Headed'
    <2> SUFFICES ASSUME headed'
                 PROVE  /\ HasVersion(file')
                        /\ \E k \in 0 .. Len(file') : Keys(file', 1, k, since)
      BY <1>7 DEF Headed
    <2>0. PICK k \in 0 .. Len(file) : Keys(file, 1, k, since)
      BY <1>7 DEF MInv, Headed
    <2>1. k \in Nat /\ Keys(file, 1, k, since)
      BY <1>2, <2>0
    <2>2. PICK d \in Nat : n = 3 * d /\ Keys(u, 0, d, mine[p])
      BY <1>7, <1>14
    <2>3. Keys(file', 1, k + d, since)
      BY <1>2, <1>15, <2>1, <2>2, KeysAppended, MorePairs
    <2>4. k + d \in 0 .. Len(file')
      BY <1>15, <2>1, <2>2, <2>3 DEF Keys
    <2>5. HasVersion(file')
      BY <1>2, <1>7, <1>15 DEF MInv, Headed, HasVersion, Appended
    <2> QED
      BY <2>3, <2>4, <2>5
  <1>25. Kept'
    <2> SUFFICES ASSUME headed', NEW o \in intact, NEW x \in mine[o]
                 PROVE  \/ Key(x[1], x[2]) \in Chunks(file')
                        \/ InBuffer(o, x)' \/ InChannel(o, x)'
      BY <1>7, <1>17 DEF Kept
    <2>1. PICK d \in Nat : n = 3 * d
      BY <1>7, <1>14
    <2>2. Key(x[1], x[2]) \in Chunks(file) \/ InBuffer(o, x) \/ InChannel(o, x)
      BY <1>7 DEF MInv, Kept
    <2>3. CASE o # p \/ ~ InBuffer(o, x)
      BY <1>2, <1>7, <1>16, <2>2, <2>3 DEF InBuffer, InChannel
    <2>4. ASSUME o = p, InBuffer(o, x)
          PROVE  Key(x[1], x[2]) \in Chunks(file') \/ InBuffer(p, x)'
      <3>1. PICK k \in Nat : 3 * k + 3 <= Len(b) /\ HasKey(b, 3 * k, x)
        BY <1>2, <2>4 DEF InBuffer, b
      <3>2. CASE k < d
        <4>1. \A c \in {1, 2, 3} : 3 * k + c \in 1 .. n
          BY <2>1, <3>1, <3>2
        <4>2. HasKey(u, 3 * k, x)
          BY <1>3, <3>1, <4>1 DEF HasKey
        <4>3. PICK a \in Nat : Len(file) = 1 + 3 * a
          BY <1>2, <1>7 DEF MInv, Headed, Keys
        <4>4. 3 * k + 3 <= Len(u)
          BY <1>3, <4>1
        <4> QED
          BY <1>2, <1>15, <3>1, <4>2, <4>3, <4>4, KeyAppended
      <3>3. CASE ~ (k < d)
        <4> DEFINE a == k - d
        <4>1. /\ a \in Nat /\ 3 * a + 3 <= Len(t)
              /\ \A c \in {1, 2, 3} : /\ 3 * a + c \in 1 .. Len(b) - n
                                      /\ n + (3 * a + c) = 3 * k + c
          BY <1>3, <1>11, <2>1, <3>1, <3>3
        <4>2. a \in 0 .. Len(t)
          BY <1>3, <1>11, <4>1
        <4> HIDE DEF a
        <4>3. HasKey(t, 3 * a, x)
          BY <1>3, <3>1, <4>1 DEF HasKey
        <4> QED
          BY <1>7, <4>1, <4>2, <4>3 DEF InBuffer
      <3> QED
        BY <3>2, <3>3
    <2> QED
      BY <2>3, <2>4
  <1> QED
    BY <1>19, <1>20, <1>21, <1>22, <1>23, <1>24, <1>25 DEF MInv

\* A write fails: the process is not intact, and what it loses is its own.
LEMMA FailsInv ==
    ASSUME TypeOK, Idle, MInv, NEW p \in Procs, WriteFails(p)
    PROVE  MInv'
  <1>1. /\ intact' = intact \ {p} /\ intact \subseteq Procs
        /\ buffer'[p] = buffer[p] \/ buffer'[p] = <<>>
        /\ chan'[p] = <<>> /\ writer'[p] # "running"
        /\ \A o \in Procs \ {p} : /\ buffer'[o] = buffer[o] /\ chan'[o] = chan[o]
                                   /\ writer'[o] = writer[o]
        /\ UNCHANGED <<file, headed, torn, no_matches, mine, ever, since>>
    BY DEF WriteFails, TypeOK, history
  <1> USE DEF MInv
  <1>2. Sending'
    BY <1>1 DEF Sending
  <1>3. Buffered'
    <2> SUFFICES ASSUME NEW o \in Procs
                 PROVE  (\E j \in 0 .. 2 : KeysFrom(o, j)') /\ Paired(buffer[o], mine[o])'
      BY DEF Buffered
    <2>1. CASE buffer'[o] = buffer[o]
      <3>1. \A j : KeysFrom(o, j) => KeysFrom(o, j)'
        BY <1>1, <2>1 DEF KeysFrom
      <3> QED
        BY <1>1, <2>1, <3>1 DEF Buffered
    <2>2. CASE buffer'[o] = <<>>
      <3>1. KeysFrom(o, 0)'
        BY <1>1, <2>2, EmptyBuffered DEF KeysFrom
      <3> QED
        BY <2>2, <3>1, EmptyBuffered
    <2> QED
      BY <1>1, <2>1, <2>2
  <1>4. FilePaired' /\ Joined'
    <2>1. \A o \in Procs : buffer'[o] = buffer[o] \/ Joins(file, buffer'[o], since)
      BY <1>1, EmptyBuffered
    <2> QED
      BY <1>1, <2>1 DEF FilePaired, Joined, OneTorn
  <1>5. HitsWerePut' /\ Snapshots' /\ Headed'
    BY <1>1 DEF HitsWerePut, Has, OneTorn, Snapshots, Headed, HasVersion
  <1>6. Kept'
    BY <1>1 DEF Kept, InBuffer, InChannel
  <1> QED
    BY <1>2, <1>3, <1>4, <1>5, <1>6

\* What is left of the keys of a channel is still keys.
LEMMA TailParts ==
    ASSUME NEW S, NEW c \in Seq(S), c # <<>>
    PROVE  /\ Head(c) \in S /\ 1 \in DOMAIN c /\ c[1] = Head(c)
           /\ \A i \in DOMAIN Tail(c) : i + 1 \in DOMAIN c /\ Tail(c)[i] = c[i + 1]
           /\ \A i \in DOMAIN c : i # 1 => i - 1 \in DOMAIN Tail(c) /\ Tail(c)[i - 1] = c[i]
  OBVIOUS

\* The manager thread receives a key, for which there is room.
LEMMA RecvInv ==
    ASSUME TypeOK, Idle, MInv, NEW p \in Procs, Recv(p)
    PROVE  MInv'
  <1> DEFINE k == Head(chan[p])
             r == buffer[p]
  <1>1. /\ chan[p] \in Seq(KeysOf(Pairs)) /\ chan[p] # <<>>
        /\ r \in Seq(Bytes) /\ file \in Seq(Bytes) /\ mine[p] \in SUBSET Pairs
        /\ chan' = [chan EXCEPT ![p] = Tail(@)]
        /\ buffer' = [buffer EXCEPT ![p] = r \o k]
        /\ writer[p] = "running"
        /\ UNCHANGED <<file, headed, intact, torn, no_matches, writer, mine, ever, since>>
        /\ DOMAIN chan = Procs /\ DOMAIN buffer = Procs
    BY DEF Recv, TypeOK, disk, history
  <1>2. PICK y \in mine[p] : k = Key(y[1], y[2])
    BY <1>1, TailParts DEF MInv, Sending
  <1>3. /\ k \in Seq(Bytes) /\ Len(k) = 3 /\ HasKey(k, 0, y)
    BY <1>1, <1>2, KeyBytes
  <1>4. Keys(k, 0, 1, mine[p])
    <2>1. 0 .. 1 - 1 = {0} /\ 0 + 3 * 0 = 0 /\ 0 + 3 * 1 = 3
      OBVIOUS
    <2> HIDE DEF k
    <2> QED
      BY <1>3, <2>1 DEF Keys
  <1>5. PICK m \in Nat : Keys(r, 0, m, mine[p])
    <2>1. PICK j \in 0 .. 2 : KeysFrom(p, j)
      BY DEF MInv, Buffered
    <2> QED
      BY <1>1, <2>1 DEF KeysFrom
  <1>6. Paired(r, mine[p])
    BY DEF MInv, Buffered
  <1> HIDE DEF k
  <1>7. Paired(k, mine[p]) /\ NotPattern(k[1])
    BY <1>1, <1>3, <1>4, KeysPaired
  <1>8. r # <<>> => ((r \o k)[1] = r[1] /\ r \o k # <<>>)
    BY <1>1, <1>3
  <1>9. r = <<>> => r \o k = k
    BY <1>1, <1>3, ConcatEmptySeq
  <1>10. r \o k \in Seq(Bytes) /\ Appended(r, r \o k, k)
    BY <1>1, <1>3, ConcatAppended
  <1> DEFINE b == r \o k
  <1>11. /\ buffer'[p] = b
         /\ \A o \in Procs \ {p} : buffer'[o] = buffer[o] /\ chan'[o] = chan[o]
         /\ chan'[p] = Tail(chan[p])
    BY <1>1
  <1> HIDE DEF r, b
  <1>12. Paired(b, mine[p])
    <2>1. Joins(r, k, mine[p])
      BY <1>7 DEF Joins, NotPattern
    <2> QED
      BY <1>6, <1>7, <1>10, <2>1, PairedAppended DEF b
  <1>13. Joins(file, buffer[p], since) => Joins(file, b, since)
    <2>1. CASE r = <<>>
      BY <1>7, <1>9, <2>1 DEF Joins, NotPattern, b
    <2>2. CASE r # <<>>
      BY <1>8, <2>2 DEF Joins, b, r
    <2> QED
      BY <2>1, <2>2
  <1>14. FilePaired' /\ Joined' /\ HitsWerePut' /\ Snapshots' /\ Headed'
    <2>1. FilePaired' /\ HitsWerePut' /\ Snapshots' /\ Headed'
      BY <1>1 DEF MInv, FilePaired, HitsWerePut, Has, OneTorn, Snapshots, Headed, HasVersion
    <2>2. Joined'
      BY <1>1, <1>11, <1>13 DEF MInv, Joined, OneTorn
    <2> QED
      BY <2>1, <2>2
  <1>15. Sending'
    BY <1>1, <1>11, TailParts DEF MInv, Sending
  <1>16. Keys(b, 0, m + 1, mine[p]) /\ m + 1 \in 0 .. Len(b)
    <2>1. Keys(b, 0, m + 1, mine[p])
      BY <1>4, <1>5, <1>10, KeysAppended DEF b
    <2> QED
      BY <1>10, <2>1 DEF Keys, b
  <1>17. Buffered'
    <2>1. KeysFrom(p, 0)'
      BY <1>1, <1>11, <1>16 DEF KeysFrom
    <2>2. \A o \in Procs \ {p} : \A j : KeysFrom(o, j) => KeysFrom(o, j)'
      BY <1>1, <1>11 DEF KeysFrom
    <2>3. 0 \in 0 .. 2
      OBVIOUS
    <2> QED
      BY <1>1, <1>11, <1>12, <2>1, <2>2, <2>3 DEF MInv, Buffered
  <1>18. Kept'
    <2> SUFFICES ASSUME headed' \/ file' = <<>>, NEW o \in intact', NEW x \in mine'[o]
                 PROVE  \/ Key(x[1], x[2]) \in Chunks(file')
                        \/ InBuffer(o, x)' \/ InChannel(o, x)'
      BY DEF Kept
    <2>1. x \in mine[o] /\ o \in Procs
      BY <1>1 DEF TypeOK
    <2>2. Key(x[1], x[2]) \in Chunks(file) \/ InBuffer(o, x) \/ InChannel(o, x)
      BY <1>1, <2>1 DEF MInv, Kept
    <2>3. CASE o # p
      BY <1>1, <1>11, <2>1, <2>2, <2>3 DEF InBuffer, InChannel
    <2>4. ASSUME o = p, InBuffer(p, x) PROVE InBuffer(p, x)'
      <3>1. PICK i \in Nat : 3 * i + 3 <= Len(r) /\ HasKey(r, 3 * i, x)
        BY <1>1, <2>4 DEF InBuffer, r
      <3>2. /\ i \in 0 .. Len(b) /\ 3 * i + 3 <= Len(b)
            /\ \A j \in {1, 2, 3} : b[3 * i + j] = r[3 * i + j]
        BY <1>10, <3>1 DEF Appended, b
      <3>3. HasKey(b, 3 * i, x)
        BY <3>1, <3>2 DEF HasKey
      <3> QED
        BY <1>11, <3>2, <3>3 DEF InBuffer
    <2>5. ASSUME o = p, InChannel(p, x) PROVE InBuffer(p, x)' \/ InChannel(p, x)'
      <3>1. PICK i \in DOMAIN chan[p] : chan[p][i] = Key(x[1], x[2])
        BY <2>5 DEF InChannel
      <3>2. CASE i = 1
        <4>1. k = Key(x[1], x[2])
          BY <1>1, <3>1, <3>2, TailParts DEF k
        <4>2. HasKey(k, 0, x)
          <5>1. x \in Pairs
            BY <1>1, <2>1, <2>5
          <5> QED
            BY <4>1, <5>1, KeyBytes
        <4>3. /\ m \in 0 .. Len(b) /\ 3 * m + 3 <= Len(b)
              /\ \A j \in {1, 2, 3} : b[3 * m + j] = k[0 + j]
          BY <1>3, <1>5, <1>10 DEF Appended, Keys, b
        <4>4. HasKey(b, 3 * m, x)
          BY <4>2, <4>3 DEF HasKey
        <4> QED
          BY <1>11, <4>3, <4>4 DEF InBuffer
      <3>3. CASE i # 1
        <4>1. i - 1 \in DOMAIN Tail(chan[p]) /\ Tail(chan[p])[i - 1] = chan[p][i]
          BY <1>1, <3>1, <3>3, TailParts
        <4> QED
          BY <1>11, <3>1, <4>1 DEF InChannel
      <3> QED
        BY <3>2, <3>3
    <2> QED
      BY <1>1, <2>2, <2>3, <2>4, <2>5
  <1> QED
    BY <1>14, <1>15, <1>17, <1>18 DEF MInv

-----------------------------------------------------------------------------
\* The initial state satisfies the invariant.
LEMMA InitInv == Init => IInv
  <1> SUFFICES ASSUME Init PROVE IInv
    OBVIOUS
  <1>1. /\ file \in {<<>>, <<OldVersion>>, <<Version>>}
        /\ headed => file = <<Version>>
        /\ exists \in BOOLEAN /\ headed \in BOOLEAN
    <2>1. PICK start \in Starts :
             /\ exists = (start # "missing")
             /\ file = CASE start = "missing" -> <<>>
                         [] start = "old" -> <<OldVersion>>
                         [] start = "versioned" -> <<Version>>
             /\ headed = (start = "versioned")
      BY DEF Init
    <2>2. start = "missing" \/ start = "old" \/ start = "versioned"
      BY StartsAssumption
    <2>3. exists \in BOOLEAN /\ headed \in BOOLEAN
      BY <2>1, Zenon
    <2>4. headed => start = "versioned"
      BY <2>1
    <2>5. CASE start = "missing"
      BY <2>1, <2>3, <2>4, <2>5
    <2>6. CASE start = "old"
      BY <2>1, <2>3, <2>4, <2>6
    <2>7. CASE start = "versioned"
      BY <2>1, <2>3, <2>7
    <2> QED
      BY <2>2, <2>5, <2>6, <2>7
  <1>2. TypeOK
    <2>1. Version \in Bytes /\ OldVersion \in Bytes
      BY DEF Bytes
    <2>2. file \in Seq(Bytes)
      <3>1. /\ <<>> \in Seq(Bytes) /\ <<OldVersion>> \in Seq(Bytes)
            /\ <<Version>> \in Seq(Bytes)
        BY <2>1
      <3> QED
        BY <1>1, <3>1
    <2>3. <<>> \in Seq(Bytes) /\ <<>> \in Seq(KeysOf(Pairs)) /\ Len(<<>>) <= Capacity
      BY CapacityAssumption
    <2>4. buffer \in [Procs -> Seq(Bytes)] /\ chan \in [Procs -> Seq(KeysOf(Pairs))]
          /\ \A p \in Procs : Len(buffer[p]) <= Capacity
      BY <2>3 DEF Init
    <2>5. /\ pc \in [Procs -> {"off", "null", "truncating", "versioning", "reading",
                               "opening", "open", "closing"}]
          /\ no_matches \in [Procs -> SUBSET (Bytes \X Bytes \X Bytes)]
          /\ sender \in [Procs -> BOOLEAN]
          /\ writer \in [Procs -> {"none", "running", "flushing", "dropping", "ended"}]
          /\ mine \in [Procs -> SUBSET Pairs]
      BY DEF Init
    <2>6. /\ ever \subseteq Pairs /\ since \subseteq ever /\ intact \subseteq Procs
          /\ torn \subseteq Procs /\ opens \in 0 .. MaxOpens /\ puts \in 0 .. MaxPuts
          /\ tears \in 0 .. MaxTears
      BY BoundsAssumption DEF Init
    <2> QED
      BY <1>1, <2>2, <2>4, <2>5, <2>6 DEF TypeOK
  <1>3. \A p \in Procs : /\ mine[p] = {} /\ chan[p] = <<>> /\ buffer[p] = <<>>
                         /\ no_matches[p] = {} /\ writer[p] = "none"
    BY DEF Init
  <1>4. Idle /\ Sending /\ HitsWerePut
    BY <1>3 DEF Idle, Sending, HitsWerePut, Has
  <1>5. Buffered
    <2>1. \A p \in Procs : KeysFrom(p, 0)
      BY <1>3, EmptyBuffered DEF KeysFrom
    <2> QED
      BY <1>3, <2>1, EmptyBuffered DEF Buffered
  <1>6. FilePaired /\ Joined
    <2>1. file = <<>> \/ file = <<Version>> \/ file = <<OldVersion>>
      BY <1>1
    <2>2. \A b : Paired(<<b>>, since)
      BY DEF Paired
    <2>3. Paired(file, since)
      BY <2>1, <2>2, EmptyBuffered
    <2>4. \A p \in Procs : Joins(file, buffer[p], since)
      BY <1>3, EmptyBuffered
    <2> QED
      BY <2>3, <2>4 DEF FilePaired, Joined
  <1>7. Snapshots /\ Kept
    BY DEF Init, Snapshots, Kept
  <1>8. Headed
    <2>1. Keys(<<Version>>, 1, 0, since) /\ 0 \in 0 .. Len(<<Version>>)
      BY DEF Keys
    <2> QED
      BY <1>1, <2>1 DEF Headed, HasVersion
  <1> QED
    BY <1>2, <1>4, <1>5, <1>6, <1>7, <1>8 DEF IInv, MInv

\* Every step preserves the invariant.
LEMMA NextInv == IInv /\ [Next]_vars => IInv'
  <1> SUFFICES ASSUME IInv, [Next]_vars PROVE IInv'
    OBVIOUS
  <1>0. TypeOK /\ Idle /\ MInv /\ TypeOK' /\ Idle'
    BY TypeNext, IdleNext DEF IInv
  <1>1. ASSUME NEW p \in Procs, Opening(p) PROVE MInv'
    <2>1. CASE Open(p) \/ OpenWriter(p) \/ LeaveNull(p)
      <3>1. buffer[p] = <<>>
        BY <1>0, <2>1 DEF Open, OpenWriter, LeaveNull, Idle
      <3> QED
        BY <1>0, <2>1, <3>1, QuietInv DEF Open, OpenWriter, LeaveNull, disk, thread, TypeOK
    <2>2. CASE Truncate(p)
      BY <1>0, <2>2, TruncateInv
    <2>3. CASE WriteVersion(p)
      BY <1>0, <2>3, WriteVersionInv
    <2>4. CASE Read(p)
      BY <1>0, <2>4, ReadInv
    <2> QED
      BY <1>1, <2>1, <2>2, <2>3, <2>4 DEF Opening
  <1>2. ASSUME NEW p \in Procs, Use(p) PROVE MInv'
    BY <1>0, <1>2, PutInv DEF Use
  <1>3. ASSUME NEW p \in Procs, Manager(p) PROVE MInv'
    <2>1. CASE Drain(p)
      BY <1>0, <2>1, QuietInv DEF Drain, disk, TypeOK
    <2> QED
      BY <1>0, <1>3, <2>1, RecvInv, WriteInv, FailsInv DEF Manager
  <1>4. ASSUME NEW p \in Procs, Close(p) PROVE MInv'
    BY <1>0, <1>4, QuietInv DEF Close, disk, thread
  <1>5. ASSUME NEW p \in Procs, Join(p) PROVE MInv'
    <2>1. /\ chan[p] = <<>> /\ buffer[p] = <<>>
          /\ \A o \in Procs \ {p} : writer'[o] = writer[o]
      BY <1>0, <1>5 DEF Join, Idle, TypeOK
    <2> QED
      BY <1>0, <1>5, <2>1, GoneInv DEF Join, disk
  <1>6. ASSUME NEW p \in Procs, Crash(p) PROVE MInv'
    <2>1. /\ \A o \in Procs \ {p} : /\ chan'[o] = chan[o] /\ buffer'[o] = buffer[o]
                                   /\ writer'[o] = writer[o]
          /\ chan'[p] = <<>> /\ buffer'[p] = <<>>
      BY <1>0, <1>6 DEF Crash, TypeOK
    <2> QED
      BY <1>0, <1>6, <2>1, GoneInv DEF Crash, disk
  <1>7. ASSUME UNCHANGED vars PROVE MInv'
    <2>1. UNCHANGED <<file, headed, intact, torn, no_matches, chan, buffer, writer,
                     history>>
      BY <1>7 DEF vars, history
    <2> QED
      BY <1>0, <2>1, QuietInv
  <1>8. MInv'
    <2>1. \/ \E p \in Procs : \/ Opening(p) \/ Use(p) \/ Manager(p) \/ Close(p)
                              \/ Join(p) \/ Crash(p)
          \/ UNCHANGED vars
      BY DEF Next, Stay
    <2> QED
      BY <2>1, <1>1, <1>2, <1>3, <1>4, <1>5, <1>6, <1>7
  <1> QED
    BY <1>0, <1>8 DEF IInv

\* The inductive invariant holds in every reachable state.
LEMMA Invariance == Spec => []IInv
  BY InitInv, NextInv, PTL DEF Spec

-----------------------------------------------------------------------------
\* TypeOK: the file, the processes and their buffers have the values they are meant
\* to have, and no buffer is ever longer than a BufWriter holds.
THEOREM CacheTyped == Spec => []TypeOK
  BY Invariance, PTL DEF IInv

\* HitsWerePut: has_no_matches says yes only for what some run marked, whatever has
\* happened to the bytes of the file, as long as the writes of no two processes ended
\* within a key.
THEOREM HitsWerePutAlways == Spec => []HitsWerePut
  BY Invariance, PTL DEF IInv, MInv

\* WholeKeys: a file that got its version byte holds whole keys, of pairs that were
\* put, at every moment.
THEOREM WholeKeysAlways == Spec => []WholeKeys
  <1>1. IInv => WholeKeys
    <2> SUFFICES ASSUME IInv, headed
                 PROVE  /\ HasVersion(file) /\ (Len(file) - 1) % Width = 0
                        /\ Chunks(file) \subseteq KeysOf(ever)
      BY DEF WholeKeys
    <2>1. /\ file \in Seq(Bytes) /\ since \subseteq ever /\ HasVersion(file)
      BY DEF IInv, TypeOK, MInv, Headed
    <2>2. PICK n \in Nat : Keys(file, 1, n, since)
      BY <2>1 DEF IInv, MInv, Headed
    <2>3. (Len(file) - 1) % Width = 0
      <3>1. Len(file) - 1 = 3 * n
        BY <2>2 DEF Keys
      <3>2. (3 * n) % 3 = 0
        BY <2>2
      <3> QED
        BY <3>1, <3>2 DEF Width
    <2>4. Chunks(file) \subseteq KeysOf(ever)
      <3> SUFFICES ASSUME NEW k \in Chunks(file) PROVE k \in KeysOf(ever)
        OBVIOUS
      <3>1. PICK i \in Nat :
               /\ 3 * i + 4 <= Len(file)
               /\ k = <<file[3 * i + 2], file[3 * i + 3], file[3 * i + 4]>>
        BY <2>1, ChunksAre
      <3>2. /\ i \in 0 .. n - 1 /\ (1 + 3 * i) + 1 = 3 * i + 2
            /\ (1 + 3 * i) + 2 = 3 * i + 3 /\ (1 + 3 * i) + 3 = 3 * i + 4
        BY <2>2, <3>1 DEF Keys
      <3>3. PICK x \in since : HasKey(file, 1 + 3 * i, x)
        BY <2>2, <3>2 DEF Keys
      <3>4. k = Key(x[1], x[2])
        BY <3>1, <3>2, <3>3 DEF HasKey, Key
      <3> QED
        BY <2>1, <3>3, <3>4 DEF KeysOf
    <2> QED
      BY <2>1, <2>3, <2>4
  <1> QED
    BY <1>1, Invariance, PTL

\* CloseKeepsAll: a process that closes its cache leaves every key it put in the file.
THEOREM CloseKeepsAllAlways == Spec => []CloseKeepsAll
  <1>1. IInv => CloseKeepsAll
    <2> SUFFICES ASSUME IInv, NEW p \in intact, headed, pc[p] = "closing",
                        writer[p] = "ended", NEW x \in mine[p]
                 PROVE  Key(x[1], x[2]) \in Chunks(file)
      BY DEF CloseKeepsAll, KeysOf
    <2>1. chan[p] = <<>> /\ buffer[p] = <<>>
      BY DEF IInv, TypeOK, Idle
    <2>2. ~ InBuffer(p, x) /\ ~ InChannel(p, x)
      BY <2>1 DEF InBuffer, InChannel
    <2> QED
      BY <2>2 DEF IInv, MInv, Kept
  <1> QED
    BY <1>1, Invariance, PTL

\* RefreshForgets: after a refresh nothing is remembered from before it, except what
\* processes that were still open then had put.
THEOREM RefreshForgetsAlways == Spec => []RefreshForgets
  <1>1. IInv => RefreshForgets
    <2> SUFFICES ASSUME IInv, OneTorn, NEW p \in intact, NEW f \in Files, NEW q \in Patterns,
                        Has(no_matches[p], f, q)
                 PROVE  <<f, q>> \in since
      BY DEF RefreshForgets
    <2>1. file \in Seq(Bytes) /\ Paired(file, since) /\ Key(f, q) \in Chunks(file)
      BY DEF IInv, TypeOK, MInv, FilePaired, Snapshots, Has
    <2> QED
      BY <2>1, ChunkPaired
  <1> QED
    BY <1>1, Invariance, PTL
=============================================================================
