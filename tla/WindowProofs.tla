---------------------------- MODULE WindowProofs ----------------------------
(*****************************************************************************)
(* Proofs about what runs beside the window: NewMail, for any accounts, any  *)
(* number of mails and any order of the watchers' looks, of what arrives     *)
(* and of what is deleted; and OAuthLogin, for any number of attempts, of    *)
(* changes of the dialog and of ports.  MailProofs is extended for its       *)
(* lemmas about Retain.                                                      *)
(*****************************************************************************)
EXTENDS MCWindow, MailProofs

-----------------------------------------------------------------------------
(* New mail.                                                               *)

Parts == {"pc", "uidNext", "exists", "count", "notices", "base", "total", "exact"}

\* A watcher as far as its counting goes.
IsWatch(w) ==
    /\ w = [f \in Parts |-> w[f]]
    /\ w.uidNext \in Nat \cup {Unset} /\ w.exists \in Nat \cup {Unset}
    /\ w.base \in Nat \cup {Unset} /\ w.total \in Nat

(***************************************************************************)
(* What keeps CountsOnce: with n mails in the box of k that have arrived,  *)
(* what EXISTS would add still fits in what has arrived since the first    *)
(* look, and UIDNEXT never falls behind what was counted.                  *)
(***************************************************************************)
Counting(w, n, k) ==
    /\ w.base = Unset => w.total = 0 /\ w.uidNext = Unset /\ w.exists = Unset
    /\ w.base # Unset => /\ w.total <= k - w.base
                        /\ w.exists # Unset
                        /\ w.total + (n - w.exists) <= k - w.base
    /\ w.uidNext # Unset => /\ w.base # Unset /\ w.uidNext - 1 <= k
                           /\ w.total <= w.uidNext - 1 - w.base
    /\ w.exact /\ w.base # Unset => /\ w.uidNext # Unset
                                   /\ w.total = w.uidNext - 1 - w.base

CountInv ==
    /\ box = [a \in Mailboxes |-> box[a]] /\ watch = [a \in Mailboxes |-> watch[a]]
    /\ arrived \in [Mailboxes -> Nat]
    /\ \A a \in Mailboxes :
        /\ box[a] \in Seq(Nat)
        /\ IsWatch(watch[a])
        /\ Counting(watch[a], Len(box[a]), arrived[a])

-----------------------------------------------------------------------------
\* One more mail has arrived, or one is gone.
LEMMA ArriveKeepsCounting ==
    ASSUME NEW w, IsWatch(w), NEW n \in Nat, NEW k \in Nat, Counting(w, n, k)
    PROVE  Counting(w, n + 1, k + 1)
BY DEF IsWatch, Counting, Unset

LEMMA ExpungeKeepsCounting ==
    ASSUME NEW w, IsWatch(w), NEW n \in Nat, NEW k \in Nat, Counting(w, n, k), NEW m \in Nat, m <= n
    PROVE  Counting(w, m, k)
BY DEF IsWatch, Counting, Unset

\* A look at the mailbox, by either counter.
LEMMA LookKeepsCounting ==
    ASSUME NEW w, IsWatch(w), NEW a, arrived[a] \in Nat, Len(box[a]) \in Nat,
           Counting(w, Len(box[a]), arrived[a]), NEW label,
           NEW c, c = ByUidNext(w, arrived[a] + 1) \/ c = ByExists(w, Len(box[a]))
    PROVE  /\ IsWatch(Counted(w, c, a, label))
           /\ Counting(Counted(w, c, a, label), Len(box[a]), arrived[a])
<1> DEFINE v == Counted(w, c, a, label)
<1>1. /\ v = [f \in Parts |-> v[f]]
      /\ v.uidNext = c.uidNext /\ v.exists = Len(box[a])
      /\ v.base = IF w.base = Unset THEN arrived[a] ELSE w.base
      /\ v.total = w.total + c.count
      /\ v.exact => w.exact /\ c.uidNext # Unset
  BY DEF Counted, IsWatch, Parts
<1> HIDE DEF v
<1>2. CASE c = ByUidNext(w, arrived[a] + 1)
  <2>1. /\ c.uidNext = arrived[a] + 1
        /\ c.count = IF w.uidNext # Unset /\ arrived[a] + 1 > w.uidNext
                     THEN arrived[a] + 1 - w.uidNext ELSE 0
    BY <1>2 DEF ByUidNext, IsWatch, Unset
  <2>2. /\ w.uidNext \in Nat \cup {-1} /\ w.total \in Nat /\ arrived[a] + 1 \in Nat
        /\ c.count \in Nat
    BY <2>1 DEF IsWatch, Unset
  <2>3. IsWatch(v)  BY <1>1, <2>1, <2>2 DEF IsWatch, Unset
  <2>4. Counting(v, Len(box[a]), arrived[a])
    <3>1. v.base # Unset /\ v.exists # Unset /\ v.base \in Nat
      BY <1>1, <2>1, <2>2 DEF IsWatch, Unset
    <3>2. v.total <= arrived[a] - v.base /\ (v.exact => v.total = arrived[a] - v.base)
      <4>1. CASE w.base = Unset
        <5>1. v.total = 0 /\ v.base = arrived[a]  BY <4>1, <1>1, <2>1 DEF Counting
        <5> QED BY <5>1
      <4>2. CASE w.base # Unset /\ w.uidNext = Unset
        <5>1. v.total = w.total /\ v.base = w.base /\ ~v.exact
          BY <4>2, <1>1, <2>1, <2>2 DEF Counting
        <5> QED BY <4>2, <5>1 DEF Counting
      <4>3. CASE w.base # Unset /\ w.uidNext # Unset
        <5>1. v.total = w.total + (arrived[a] + 1 - w.uidNext) /\ v.base = w.base
          BY <4>3, <1>1, <2>1, <2>2 DEF Counting, Unset
        <5>2. /\ w.total <= w.uidNext - 1 - w.base
              /\ v.exact => w.total = w.uidNext - 1 - w.base
          BY <4>3, <1>1 DEF Counting
        <5>3. w.uidNext \in Nat /\ w.base \in Nat  BY <4>3 DEF IsWatch, Unset
        <5>4. v.total <= arrived[a] - v.base  BY <5>1, <5>2, <5>3, <2>2
        <5>5. v.exact => v.total = arrived[a] - v.base
          <6> HAVE v.exact
          <6>1. w.total = w.uidNext - 1 - w.base  BY <5>2
          <6>2. w.total + (arrived[a] + 1 - w.uidNext) = arrived[a] - w.base
            BY <6>1, <5>3, <2>2
          <6> QED BY <5>1, <6>2
        <5> QED BY <5>4, <5>5
      <4> QED BY <4>1, <4>2, <4>3
    <3>3. v.uidNext = arrived[a] + 1 /\ v.exists = Len(box[a]) /\ v.total \in Nat
      BY <1>1, <2>1, <2>3 DEF IsWatch
    <3>4. v.uidNext # Unset /\ v.uidNext - 1 = arrived[a] /\ Len(box[a]) - v.exists = 0
      BY <3>3 DEF Unset
    <3>5. v.total + (Len(box[a]) - v.exists) <= arrived[a] - v.base
      BY <3>1, <3>2, <3>3, <3>4
    <3> QED BY <3>1, <3>2, <3>4, <3>5 DEF Counting
  <2> QED BY <2>3, <2>4 DEF v
<1>3. CASE c = ByExists(w, Len(box[a]))
  <2>1. /\ c.uidNext = Unset
        /\ c.count = IF w.exists # Unset /\ Len(box[a]) > w.exists
                     THEN Len(box[a]) - w.exists ELSE 0
    BY <1>3 DEF ByExists, IsWatch, Unset
  <2>2. IsWatch(v)  BY <1>1, <2>1 DEF IsWatch, Counting, Unset
  <2>3. Counting(v, Len(box[a]), arrived[a])  BY <1>1, <2>1 DEF IsWatch, Counting, Unset
  <2> QED BY <2>2, <2>3 DEF v
<1> QED BY <1>2, <1>3

\* A watcher whose counters stay as they are.
SameCounters(v, w) ==
    /\ v = [f \in Parts |-> v[f]]
    /\ v.uidNext = w.uidNext /\ v.exists = w.exists
    /\ v.base = w.base /\ v.total = w.total /\ v.exact = w.exact

LEMMA SameCountersKeep ==
    ASSUME NEW v, NEW w, SameCounters(v, w), IsWatch(w), NEW n \in Nat, NEW k \in Nat, Counting(w, n, k)
    PROVE  IsWatch(v) /\ Counting(v, n, k)
BY DEF SameCounters, IsWatch, Counting

\* A step of the watcher of one account.
LEMMA WatchStep ==
    ASSUME CountInv, NEW a \in Mailboxes, NEW v, watch' = [watch EXCEPT ![a] = v],
           UNCHANGED mailVars, IsWatch(v), Counting(v, Len(box[a]), arrived[a])
    PROVE  CountInv'
BY DEF CountInv, mailVars

LEMMA LenBox ==
    ASSUME CountInv, NEW a \in Mailboxes
    PROVE  Len(box[a]) \in Nat /\ arrived[a] \in Nat
BY LenProperties DEF CountInv

\* The parts of a new record of a watcher that keeps its counters.
LEMMA KeptByExcept ==
    ASSUME NEW w, IsWatch(w), NEW at, NEW count, NEW notices
    PROVE  /\ SameCounters([w EXCEPT !.pc = at, !.notices = notices], w)
           /\ SameCounters([w EXCEPT !.pc = at, !.count = count, !.notices = notices], w)
           /\ SameCounters([w EXCEPT !.notices = notices], w)
BY DEF SameCounters, IsWatch, Parts

LEMMA FreshWatch ==
    ASSUME NEW at, NEW n \in Nat, NEW k \in Nat
    PROVE  LET v == [Away EXCEPT !.pc = at]
           IN  IsWatch(v) /\ Counting(v, n, k)
BY DEF Away, IsWatch, Counting, Parts, Unset

LEMMA AwayWatch ==
    ASSUME NEW n \in Nat, NEW k \in Nat
    PROVE  IsWatch(Away) /\ Counting(Away, n, k)
BY DEF Away, IsWatch, Counting, Parts, Unset

LEMMA InitCounts == NoticeInit => CountInv
<1> SUFFICES ASSUME NoticeInit PROVE CountInv  OBVIOUS
<1>1. box = [a \in Mailboxes |-> <<>>] /\ arrived = [a \in Mailboxes |-> 0]
      /\ watch = [a \in Mailboxes |-> Away]
  BY DEF NoticeInit
<1>2. ASSUME NEW a \in Mailboxes
      PROVE  box[a] \in Seq(Nat) /\ IsWatch(watch[a]) /\ Counting(watch[a], Len(box[a]), arrived[a])
  <2>1. box[a] = <<>> /\ watch[a] = Away /\ arrived[a] = 0  BY <1>1
  <2>2. <<>> \in Seq(Nat) /\ Len(<<>>) = 0  OBVIOUS
  <2> QED BY <2>1, <2>2, AwayWatch
<1>3. arrived \in [Mailboxes -> Nat]  BY <1>1
<1> QED BY <1>1, <1>2, <1>3 DEF CountInv

LEMMA ArriveCounts ==
    ASSUME CountInv, NEW a \in Mailboxes, Arrive(a)
    PROVE  CountInv'
<1>1. /\ arrived' = [arrived EXCEPT ![a] = @ + 1]
      /\ box' = [box EXCEPT ![a] = Append(@, arrived[a] + 1)]
      /\ watch' = watch
  BY DEF Arrive
<1>2. arrived' \in [Mailboxes -> Nat]  BY <1>1 DEF CountInv
<1>3. ASSUME NEW b \in Mailboxes
      PROVE  /\ box'[b] \in Seq(Nat) /\ IsWatch(watch'[b])
             /\ Counting(watch'[b], Len(box'[b]), arrived'[b])
  <2>1. CASE b = a
    <3>1. box'[b] = Append(box[b], arrived[b] + 1) /\ arrived'[b] = arrived[b] + 1
      BY <1>1, <2>1 DEF CountInv
    <3>2. box[b] \in Seq(Nat) /\ arrived[b] + 1 \in Nat  BY DEF CountInv
    <3>3. box'[b] \in Seq(Nat) /\ Len(box'[b]) = Len(box[b]) + 1
      BY <3>1, <3>2, AppendProperties
    <3>4. IsWatch(watch[b]) /\ Counting(watch[b], Len(box[b]), arrived[b])  BY DEF CountInv
    <3>5. Counting(watch[b], Len(box[b]) + 1, arrived[b] + 1)
      BY <3>4, LenBox, ArriveKeepsCounting
    <3> QED BY <1>1, <3>1, <3>3, <3>4, <3>5
  <2>2. CASE b # a
    <3>1. box'[b] = box[b] /\ arrived'[b] = arrived[b]  BY <1>1, <2>2 DEF CountInv
    <3> QED BY <1>1, <3>1 DEF CountInv
  <2> QED BY <2>1, <2>2
<1>4. box' = [b \in Mailboxes |-> box'[b]] /\ watch' = [b \in Mailboxes |-> watch'[b]]
  BY <1>1 DEF CountInv
<1> QED BY <1>2, <1>3, <1>4 DEF CountInv

LEMMA ExpungeCounts ==
    ASSUME CountInv, NEW a \in Mailboxes, NEW i, Expunge(a, i)
    PROVE  CountInv'
<1>1. /\ i \in 1 .. Len(box[a]) /\ watch' = watch /\ arrived' = arrived
      /\ box' = [box EXCEPT ![a] = RemoveAt(@, i)]
  BY DEF Expunge
<1>2. ASSUME NEW b \in Mailboxes
      PROVE  box'[b] \in Seq(Nat) /\ Len(box'[b]) \in Nat /\ Len(box'[b]) <= Len(box[b])
  <2>1. box[b] \in Seq(Nat) /\ Len(box[b]) \in Nat  BY LenBox DEF CountInv
  <2>2. CASE b = a
    <3> DEFINE before == SubSeq(box[b], 1, i - 1)
               after == SubSeq(box[b], i + 1, Len(box[b]))
    <3>1. \A j \in 1 .. Len(box[b]) : box[b][j] \in Nat  BY <2>1, ElementOfSeq
    <3>2. i \in Int /\ 1 <= i /\ i <= Len(box[b])  BY <1>1, <2>1, <2>2
    <3>3. before \in Seq(Nat) /\ Len(before) = i - 1
      <4>1. \A j \in 1 .. i - 1 : box[b][j] \in Nat  BY <3>1, <3>2, <2>1
      <4>2. Len(before) = IF 1 <= i - 1 THEN i - 1 - 1 + 1 ELSE 0
        BY <3>2, <4>1, SubSeqProperties
      <4> QED BY <3>2, <4>1, <4>2, SubSeqProperties
    <3>4. after \in Seq(Nat) /\ Len(after) = Len(box[b]) - i
      <4>1. \A j \in i + 1 .. Len(box[b]) : box[b][j] \in Nat  BY <3>1, <3>2, <2>1
      <4>2. Len(after) = IF i + 1 <= Len(box[b]) THEN Len(box[b]) - (i + 1) + 1 ELSE 0
        BY <3>2, <2>1, <4>1, SubSeqProperties
      <4> QED BY <3>2, <2>1, <4>1, <4>2, SubSeqProperties
    <3>5. box'[b] = before \o after  BY <1>1, <2>2 DEF CountInv, RemoveAt
    <3> HIDE DEF before, after
    <3>6. before \o after \in Seq(Nat) /\ Len(before \o after) = Len(before) + Len(after)
      BY <3>3, <3>4, ConcatProperties
    <3>7. Len(box'[b]) = Len(box[b]) - 1  BY <3>2, <3>3, <3>4, <3>5, <3>6, <2>1
    <3> QED BY <3>2, <3>5, <3>6, <3>7, <2>1
  <2>3. CASE b # a
    <3>1. box'[b] = box[b]  BY <1>1, <2>3 DEF CountInv
    <3> QED BY <3>1, <2>1
  <2> QED BY <2>2, <2>3
<1>3. ASSUME NEW b \in Mailboxes
      PROVE  IsWatch(watch[b]) /\ Counting(watch[b], Len(box'[b]), arrived[b])
  <2>1. IsWatch(watch[b]) /\ Counting(watch[b], Len(box[b]), arrived[b])  BY DEF CountInv
  <2> QED BY <2>1, <1>2, LenBox, ExpungeKeepsCounting
<1>4. box' = [b \in Mailboxes |-> box'[b]]  BY <1>1 DEF CountInv
<1> QED BY <1>1, <1>2, <1>3, <1>4 DEF CountInv

\* The steps of the watchers.
LEMMA LookCounts ==
    ASSUME CountInv, NEW a \in Mailboxes, NEW c, NEW label,
           c = ByUidNext(watch[a], arrived[a] + 1) \/ c = ByExists(watch[a], Len(box[a]))
    PROVE  /\ IsWatch(Counted(watch[a], c, a, label))
           /\ Counting(Counted(watch[a], c, a, label), Len(box[a]), arrived[a])
<1>1. IsWatch(watch[a]) /\ Counting(watch[a], Len(box[a]), arrived[a])  BY DEF CountInv
<1> QED BY <1>1, LenBox, LookKeepsCounting

LEMMA ExamineCounts ==
    ASSUME CountInv, NEW a \in Mailboxes, NEW b \in BOOLEAN, Examine(a, b)
    PROVE  CountInv'
<1> DEFINE c == IF b THEN ByUidNext(watch[a], arrived[a] + 1) ELSE ByExists(watch[a], Len(box[a]))
           v == Counted(watch[a], c, a, "fetch")
<1>1. watch' = [watch EXCEPT ![a] = v] /\ UNCHANGED mailVars  BY DEF Examine
<1>2. c = ByUidNext(watch[a], arrived[a] + 1) \/ c = ByExists(watch[a], Len(box[a]))  OBVIOUS
<1> HIDE DEF c
<1>3. IsWatch(v) /\ Counting(v, Len(box[a]), arrived[a])  BY <1>2, LookCounts
<1> QED BY <1>1, <1>3, WatchStep

LEMMA PollCounts ==
    ASSUME CountInv, NEW a \in Mailboxes, NEW failed, PollMaildrop(a, failed)
    PROVE  CountInv'
<1> DEFINE c == ByExists(watch[a], Len(box[a]))
           v == Counted(watch[a], c, a, "notify")
<1>1. PICK notices : watch' = [watch EXCEPT ![a] = [v EXCEPT !.notices = notices]]
  BY DEF PollMaildrop
<1>2. UNCHANGED mailVars  BY DEF PollMaildrop
<1>3. IsWatch(v) /\ Counting(v, Len(box[a]), arrived[a])  BY LookCounts
<1> DEFINE u == [v EXCEPT !.notices = notices]
<1> HIDE DEF v
<1>4. SameCounters(u, v)  BY <1>3, KeptByExcept
<1>5. watch' = [watch EXCEPT ![a] = u]  BY <1>1
<1> HIDE DEF u
<1>6. IsWatch(u) /\ Counting(u, Len(box[a]), arrived[a])
  BY <1>3, <1>4, LenBox, SameCountersKeep
<1> QED BY <1>2, <1>5, <1>6, WatchStep

LEMMA KeptCounts ==
    ASSUME CountInv, NEW a \in Mailboxes, NEW v, SameCounters(v, watch[a]),
           watch' = [watch EXCEPT ![a] = v], UNCHANGED mailVars
    PROVE  CountInv'
<1>1. IsWatch(watch[a]) /\ Counting(watch[a], Len(box[a]), arrived[a])  BY DEF CountInv
<1>2. IsWatch(v) /\ Counting(v, Len(box[a]), arrived[a])  BY <1>1, LenBox, SameCountersKeep
<1> QED BY <1>2, WatchStep

LEMMA FetchCounts ==
    ASSUME CountInv, NEW a \in Mailboxes, NEW ok, FetchNotices(a, ok)
    PROVE  CountInv'
<1>1. PICK notices : watch' = [watch EXCEPT ![a].pc = "notify", ![a].notices = notices]
  BY DEF FetchNotices
<1> DEFINE v == [watch[a] EXCEPT !.pc = "notify", !.notices = notices]
<1>2. watch' = [watch EXCEPT ![a] = v]  BY <1>1 DEF CountInv
<1>3. SameCounters(v, watch[a])  BY KeptByExcept DEF CountInv
<1>4. UNCHANGED mailVars  BY DEF FetchNotices
<1> HIDE DEF v
<1> QED BY <1>2, <1>3, <1>4, KeptCounts

LEMMA NotifyCounts ==
    ASSUME CountInv, NEW a \in Mailboxes, Notify(a)
    PROVE  CountInv'
<1> DEFINE v == [watch[a] EXCEPT !.pc = "idle", !.count = 0, !.notices = <<>>]
<1>1. watch' = [watch EXCEPT ![a].pc = "idle", ![a].count = 0, ![a].notices = <<>>]
  BY DEF Notify
<1>2. watch' = [watch EXCEPT ![a] = v]  BY <1>1 DEF CountInv
<1>3. SameCounters(v, watch[a])  BY KeptByExcept DEF CountInv
<1>4. UNCHANGED mailVars  BY DEF Notify
<1> HIDE DEF v
<1> QED BY <1>2, <1>3, <1>4, KeptCounts

LEMMA StartCounts ==
    ASSUME CountInv, NEW a \in Mailboxes, StartWatch(a) \/ LeaveWatch(a)
    PROVE  CountInv'
<1>1. PICK v \in {[Away EXCEPT !.pc = "idle"], Away} : watch' = [watch EXCEPT ![a] = v]
  BY DEF StartWatch, LeaveWatch
<1>2. UNCHANGED mailVars  BY DEF StartWatch, LeaveWatch
<1>3. IsWatch(v) /\ Counting(v, Len(box[a]), arrived[a])
  BY LenBox, FreshWatch, AwayWatch
<1> QED BY <1>1, <1>2, <1>3, WatchStep

\* The window and the list of accounts touch neither a mailbox nor a watcher.
LEMMA OthersCount ==
    ASSUME CountInv, Window \/ UNCHANGED noticeVars \/ \E a \in Mailboxes : ListAccount(a)
    PROVE  CountInv'
<1>1. UNCHANGED <<box, arrived, watch>>
  BY DEF Window, Focus, Blur, Take, Open, Expire, SetNotify, Click, ListAccount,
         noticeVars, mailVars, appVars, windowVars
<1> QED BY <1>1 DEF CountInv

LEMMA StepCounts == CountInv /\ [NoticeNext]_noticeVars => CountInv'
<1> SUFFICES ASSUME CountInv, [NoticeNext]_noticeVars PROVE CountInv'  OBVIOUS
<1>1. CASE \E a \in Mailboxes : Server(a)
  BY <1>1, ArriveCounts, ExpungeCounts DEF Server
<1>2. CASE \E a \in Mailboxes : Watcher(a)
  BY <1>2, StartCounts, NotifyCounts, ExamineCounts, FetchCounts, PollCounts DEF Watcher
<1>3. CASE Window \/ UNCHANGED noticeVars \/ \E a \in Mailboxes : ListAccount(a)
  BY <1>3, OthersCount
<1> QED BY <1>1, <1>2, <1>3 DEF NoticeNext

LEMMA CountingCounts == CountInv => CountsOnce
<1> SUFFICES ASSUME CountInv, NEW a \in Mailboxes, watch[a].base # Unset
             PROVE  /\ watch[a].total <= arrived[a] - watch[a].base
                    /\ watch[a].exact => watch[a].total = watch[a].uidNext - 1 - watch[a].base
  BY DEF CountsOnce
<1>1. Counting(watch[a], Len(box[a]), arrived[a])  BY DEF CountInv
<1> QED BY <1>1 DEF Counting

(***************************************************************************)
(* CountsOnce for any accounts, POP3 or IMAP, any number of mails and any  *)
(* mix of looks by UIDNEXT and by EXISTS: no mail is counted twice, and    *)
(* while UIDNEXT is sent none is missed (watcher.rs, mailbox_new_count).   *)
(***************************************************************************)
THEOREM NoMailCountedTwice == NoticeSpec => []CountsOnce
BY InitCounts, StepCounts, CountingCounts, PTL DEF NoticeSpec

-----------------------------------------------------------------------------
(* The login dialog.                                                       *)

TaskFields == {"pc", "gen", "provider", "code", "ok"}
DialogFields == {"gen", "provider", "tokens"}

\* The login service has been told that the user agrees to the attempt a.
Agreed(provider, a) == IF provider = "google" THEN a \in spent ELSE device[a] = "approved"

(***************************************************************************)
(* An attempt is no younger than the dialog; one that is as young as the   *)
(* dialog has its provider; and it stands where its own flow can lead.     *)
(***************************************************************************)
TaskOK(v, a) ==
    /\ v = [f \in TaskFields |-> v[f]]
    /\ v.gen \in Nat /\ v.gen <= dialog.gen
    /\ v.gen = dialog.gen /\ v.pc # "none" => v.provider = dialog.provider
    /\ v.pc \in {"accept", "redeem"} => v.provider = "google"
    /\ v.pc \in {"sleep", "poll"} => v.provider = "microsoft"
    /\ v.pc = "granted" => Agreed(v.provider, a)

\* The tokens of the dialog came from an attempt that is over and still the last.
TokensOK ==
    dialog.tokens # None =>
        /\ dialog.tokens \in Attempts
        /\ task[dialog.tokens].pc = "over"
        /\ task[dialog.tokens].gen = dialog.gen
        /\ task[dialog.tokens].provider = dialog.provider
        /\ Agreed(task[dialog.tokens].provider, dialog.tokens)

LoginInv ==
    /\ dialog = [f \in DialogFields |-> dialog[f]] /\ dialog.gen \in Nat
    /\ task = [a \in Attempts |-> task[a]] /\ device = [a \in Attempts |-> device[a]]
    /\ \A a \in Attempts : TaskOK(task[a], a)
    /\ TokensOK
    /\ OwnCodeOnly

-----------------------------------------------------------------------------
LEMMA InitLogin == LoginInit => LoginInv
<1> SUFFICES ASSUME LoginInit PROVE LoginInv  OBVIOUS
<1>1. /\ dialog = [gen |-> 0, provider |-> "google", tokens |-> None]
      /\ task = [a \in Attempts |-> Idle] /\ device = [a \in Attempts |-> "none"]
      /\ sent = {}
  BY DEF LoginInit
<1>2. dialog = [f \in DialogFields |-> dialog[f]] /\ dialog.gen = 0 /\ dialog.tokens = None
  BY <1>1 DEF DialogFields
<1>3. ASSUME NEW a \in Attempts PROVE TaskOK(task[a], a)
  <2>1. task[a] = Idle  BY <1>1
  <2> QED BY <1>2, <2>1 DEF TaskOK, TaskFields, Idle
<1> QED BY <1>1, <1>2, <1>3 DEF LoginInv, TokensOK, OwnCodeOnly

\* An attempt that is on its way takes a step, and the dialog does not change.
LEMMA TaskStep ==
    ASSUME LoginInv, NEW a \in Attempts, NEW v, task' = [task EXCEPT ![a] = v],
           UNCHANGED dialog, task[a].pc \notin {"none", "over"},
           v = [f \in TaskFields |-> v[f]],
           v.gen = task[a].gen, v.provider = task[a].provider,
           v.pc # "none",
           v.pc \in {"accept", "redeem"} => v.provider = "google",
           v.pc \in {"sleep", "poll"} => v.provider = "microsoft",
           v.pc = "granted" => Agreed(v.provider, a)',
           spent \subseteq spent',
           device' = [b \in Attempts |-> device'[b]],
           \A b \in Attempts \ {a} : device'[b] = device[b],
           OwnCodeOnly'
    PROVE  LoginInv'
<1>1. TaskOK(task[a], a)'
  <2>1. task'[a] = v /\ dialog' = dialog  BY DEF LoginInv
  <2>2. TaskOK(task[a], a)  BY DEF LoginInv
  <2> QED BY <2>1, <2>2 DEF TaskOK
<1>2. ASSUME NEW b \in Attempts, b # a PROVE TaskOK(task[b], b)'
  <2>1. task'[b] = task[b] /\ device'[b] = device[b] /\ dialog' = dialog
    BY <1>2 DEF LoginInv
  <2>2. TaskOK(task[b], b)  BY DEF LoginInv
  <2> QED BY <2>1, <2>2 DEF TaskOK, Agreed
<1>3. TokensOK'
  <2> SUFFICES ASSUME dialog.tokens # None PROVE TokensOK'  BY DEF TokensOK
  <2> DEFINE t == dialog.tokens
  <2>1. t \in Attempts /\ t # a  BY DEF LoginInv, TokensOK
  <2>2. task'[t] = task[t] /\ device'[t] = device[t]  BY <2>1 DEF LoginInv
  <2> QED BY <2>1, <2>2 DEF LoginInv, TokensOK, Agreed
<1>4. task' = [b \in Attempts |-> task'[b]]  BY DEF LoginInv
<1> QED BY <1>1, <1>2, <1>3, <1>4 DEF LoginInv

\* What such a step is when only the place of the attempt changes.
LEMMA Moved ==
    ASSUME LoginInv, NEW a \in Attempts, NEW label, Proceed(a, label)
    PROVE  LET v == [task[a] EXCEPT !.pc = label]
           IN  /\ task' = [task EXCEPT ![a] = v]
               /\ v = [f \in TaskFields |-> v[f]]
               /\ v.gen = task[a].gen /\ v.provider = task[a].provider /\ v.pc = label
BY DEF Proceed, LoginInv, TaskOK, TaskFields

LEMMA GotoStep ==
    ASSUME LoginInv, NEW a \in Attempts, NEW label, Proceed(a, label),
           UNCHANGED dialog, task[a].pc \notin {"none", "over"},
           label # "none",
           label \in {"accept", "redeem"} => task[a].provider = "google",
           label \in {"sleep", "poll"} => task[a].provider = "microsoft",
           label = "granted" => Agreed(task[a].provider, a)',
           spent \subseteq spent',
           device' = [b \in Attempts |-> device'[b]],
           \A b \in Attempts \ {a} : device'[b] = device[b],
           UNCHANGED sent
    PROVE  LoginInv'
<1> DEFINE v == [task[a] EXCEPT !.pc = label]
<1>1. /\ task' = [task EXCEPT ![a] = v] /\ v = [f \in TaskFields |-> v[f]]
      /\ v.gen = task[a].gen /\ v.provider = task[a].provider /\ v.pc = label
  BY Moved
<1> HIDE DEF v
<1>2. OwnCodeOnly'  BY DEF LoginInv, OwnCodeOnly
<1> QED BY <1>1, <1>2, TaskStep

LEMMA BeginLogin ==
    ASSUME LoginInv, NEW a \in Attempts, Begin(a)
    PROVE  LoginInv'
<1>1. /\ dialog' = [dialog EXCEPT !.gen = @ + 1, !.tokens = None]
      /\ task' = [task EXCEPT ![a] = [Idle EXCEPT !.gen = dialog.gen + 1,
                                                  !.provider = dialog.provider, !.pc = "begin"]]
      /\ UNCHANGED <<spent, device, sent>>
  BY DEF Begin, loginVars
<1>2. /\ dialog' = [f \in DialogFields |-> dialog'[f]]
      /\ dialog'.gen = dialog.gen + 1 /\ dialog'.provider = dialog.provider
      /\ dialog'.tokens = None
  BY <1>1 DEF LoginInv, DialogFields
<1>3. dialog.gen \in Nat /\ dialog'.gen \in Nat  BY <1>2 DEF LoginInv
<1>4. TaskOK(task[a], a)'
  <2>1. task'[a] = [Idle EXCEPT !.gen = dialog.gen + 1, !.provider = dialog.provider, !.pc = "begin"]
    BY <1>1 DEF LoginInv
  <2> DEFINE v == task'[a]
  <2>2. /\ v = [f \in TaskFields |-> v[f]] /\ v.gen = dialog.gen + 1
        /\ v.provider = dialog.provider /\ v.pc = "begin"
    BY <2>1 DEF TaskFields, Idle
  <2> HIDE DEF v
  <2>3. v.gen \in Nat /\ v.gen <= dialog'.gen  BY <1>2, <1>3, <2>2
  <2>4. v.provider = dialog'.provider  BY <1>2, <2>2
  <2> QED BY <2>2, <2>3, <2>4 DEF v, TaskOK
<1>5. ASSUME NEW b \in Attempts, b # a PROVE TaskOK(task[b], b)'
  <2>1. task'[b] = task[b] /\ device'[b] = device[b]  BY <1>1, <1>5 DEF LoginInv
  <2>2. TaskOK(task[b], b)  BY DEF LoginInv
  <2>3. /\ task[b].gen \in Nat /\ task[b].gen <= dialog'.gen
        /\ task[b].gen # dialog'.gen
    BY <1>2, <1>3, <2>2 DEF TaskOK
  <2>4. task[b].pc = "granted" => Agreed(task[b].provider, b)'
    BY <1>1, <2>1, <2>2 DEF TaskOK, Agreed
  <2> QED BY <2>1, <2>2, <2>3, <2>4 DEF TaskOK, Agreed
<1>6. TokensOK' /\ OwnCodeOnly'  BY <1>1, <1>2 DEF LoginInv, TokensOK, OwnCodeOnly
<1>7. task' = [b \in Attempts |-> task'[b]]  BY <1>1 DEF LoginInv
<1> QED BY <1>1, <1>2, <1>3, <1>4, <1>5, <1>6, <1>7 DEF LoginInv

LEMMA ChangeLogin ==
    ASSUME LoginInv, NEW p, Change(p)
    PROVE  LoginInv'
<1>1. /\ dialog' = [gen |-> dialog.gen + 1, provider |-> p, tokens |-> None]
      /\ UNCHANGED <<task, spent, device, sent>>
  BY DEF Change, loginVars
<1>2. /\ dialog' = [f \in DialogFields |-> dialog'[f]]
      /\ dialog'.gen = dialog.gen + 1 /\ dialog'.tokens = None
  BY <1>1 DEF DialogFields
<1>3. dialog.gen \in Nat /\ dialog'.gen \in Nat  BY <1>2 DEF LoginInv
<1>4. ASSUME NEW b \in Attempts PROVE TaskOK(task[b], b)'
  <2>1. TaskOK(task[b], b)  BY DEF LoginInv
  <2>2. task[b].gen < dialog'.gen  BY <1>2, <1>3, <2>1 DEF TaskOK
  <2> QED BY <1>1, <1>3, <2>1, <2>2 DEF TaskOK, Agreed
<1> QED BY <1>1, <1>2, <1>3, <1>4 DEF LoginInv, TokensOK, OwnCodeOnly

LEMMA GrantLogin ==
    ASSUME LoginInv, NEW a \in Attempts, Grant(a)
    PROVE  LoginInv'
<1>1. /\ task[a].pc = "granted" /\ task[a].gen = dialog.gen
      /\ dialog' = [dialog EXCEPT !.tokens = a] /\ Proceed(a, "over")
      /\ UNCHANGED <<spent, device, sent>>
  BY DEF Grant, Current, loginVars
<1>2. /\ dialog' = [f \in DialogFields |-> dialog'[f]]
      /\ dialog'.gen = dialog.gen /\ dialog'.provider = dialog.provider /\ dialog'.tokens = a
  BY <1>1 DEF LoginInv, DialogFields
<1> DEFINE v == [task[a] EXCEPT !.pc = "over"]
<1>3. /\ task' = [task EXCEPT ![a] = v] /\ v = [f \in TaskFields |-> v[f]]
      /\ v.gen = task[a].gen /\ v.provider = task[a].provider /\ v.pc = "over"
  BY <1>1, Moved
<1> HIDE DEF v
<1>4. task'[a] = v /\ task' = [b \in Attempts |-> task'[b]]  BY <1>3 DEF LoginInv
<1>5. TaskOK(task[a], a)  BY DEF LoginInv
<1>6. TaskOK(task[a], a)'
  BY <1>1, <1>2, <1>3, <1>4, <1>5 DEF TaskOK
<1>7. ASSUME NEW b \in Attempts, b # a PROVE TaskOK(task[b], b)'
  <2>1. task'[b] = task[b]  BY <1>3, <1>7 DEF LoginInv
  <2>2. TaskOK(task[b], b)  BY DEF LoginInv
  <2> QED BY <1>1, <1>2, <2>1, <2>2 DEF TaskOK, Agreed
<1>8. TokensOK'
  BY <1>1, <1>2, <1>3, <1>4, <1>5 DEF TaskOK, TokensOK, Agreed
<1> QED BY <1>1, <1>2, <1>4, <1>6, <1>7, <1>8 DEF LoginInv, OwnCodeOnly

\* The code of its own page is accepted.
LEMMA AcceptedLogin ==
    ASSUME LoginInv, NEW a \in Attempts, NEW call, Accepted(a, call)
    PROVE  LoginInv'
<1>1. /\ task[a].pc = "accept" /\ call.of = a
      /\ task' = [task EXCEPT ![a].pc = "redeem", ![a].code = call.of]
      /\ sent' = sent \cup {<<a, call.of>>}
      /\ UNCHANGED <<dialog, device, spent>>
  BY DEF Accepted, dialogVars
<1> DEFINE v == [task[a] EXCEPT !.pc = "redeem", !.code = call.of]
<1>2. TaskOK(task[a], a)  BY DEF LoginInv
<1>3. /\ task' = [task EXCEPT ![a] = v] /\ v = [f \in TaskFields |-> v[f]]
      /\ v.gen = task[a].gen /\ v.provider = task[a].provider /\ v.pc = "redeem"
  BY <1>1, <1>2 DEF LoginInv, TaskOK, TaskFields
<1>4. task[a].provider = "google"  BY <1>1, <1>2 DEF TaskOK
<1>5. OwnCodeOnly'  BY <1>1 DEF LoginInv, OwnCodeOnly
<1> HIDE DEF v
<1>6. device' = [b \in Attempts |-> device'[b]]  BY <1>1 DEF LoginInv
<1> QED BY <1>1, <1>3, <1>4, <1>5, <1>6, TaskStep

LEMMA FlowLogin ==
    ASSUME LoginInv, NEW a \in Attempts,
           \/ Quit(a) \/ OpenAndFinish(a) \/ Timeout(a) \/ RedeemFails(a)
           \/ BeginFails(a) \/ Ask(a) \/ (\E p \in Ports : BeginBrowser(a, p))
           \/ \E call \in calls[a] : Refused(a, call)
    PROVE  LoginInv'
<1>1. device' = device /\ dialog' = dialog /\ sent' = sent /\ spent \subseteq spent'
  BY DEF Quit, OpenAndFinish, Timeout, RedeemFails, BeginFails, Ask, BeginBrowser, Refused,
         Fail, Close, dialogVars, loginVars
<1>2. TaskOK(task[a], a) /\ device = [b \in Attempts |-> device[b]]  BY DEF LoginInv
<1>3. PICK label \in {"over", "accept", "begun", "poll"} :
        /\ Proceed(a, label) /\ task[a].pc \notin {"none", "over"}
        /\ label = "accept" => task[a].provider = "google"
        /\ label = "poll" => task[a].pc = "sleep"
  BY DEF Quit, OpenAndFinish, Timeout, RedeemFails, BeginFails, Ask, BeginBrowser, Refused, Fail
<1>4. label = "poll" => task[a].provider = "microsoft"  BY <1>2, <1>3 DEF TaskOK
<1> QED BY <1>1, <1>2, <1>3, <1>4, GotoStep

LEMMA RedeemLogin ==
    ASSUME LoginInv, NEW a \in Attempts, Redeem(a)
    PROVE  LoginInv'
<1>1. /\ task[a].pc = "redeem" /\ spent' = spent \cup {a} /\ Proceed(a, "granted")
      /\ UNCHANGED <<dialog, device, sent>>
  BY DEF Redeem, dialogVars
<1>2. TaskOK(task[a], a) /\ device = [b \in Attempts |-> device[b]]  BY DEF LoginInv
<1>3. task[a].provider = "google"  BY <1>1, <1>2 DEF TaskOK
<1>4. Agreed(task[a].provider, a)'
  <2>1. task'[a].provider = "google"
    BY <1>1, <1>3, Moved DEF LoginInv
  <2> QED BY <1>1, <2>1 DEF Agreed
<1> QED BY <1>1, <1>2, <1>3, <1>4, GotoStep DEF Agreed

LEMMA DeviceLogin ==
    ASSUME LoginInv, NEW a \in Attempts, BeginDevice(a) \/ Poll(a)
    PROVE  LoginInv'
<1>1. TaskOK(task[a], a) /\ device = [b \in Attempts |-> device[b]]  BY DEF LoginInv
<1>2. CASE BeginDevice(a)
  <2>1. /\ task[a].pc = "begin" /\ task[a].provider = "microsoft" /\ Proceed(a, "sleep")
        /\ device' = [device EXCEPT ![a] = "pending"]
        /\ UNCHANGED <<dialog, spent, sent>>
    BY <1>2 DEF BeginDevice, dialogVars
  <2>2. /\ device' = [b \in Attempts |-> device'[b]]
        /\ \A b \in Attempts \ {a} : device'[b] = device[b]
    BY <1>1, <2>1
  <2> QED BY <2>1, <2>2, GotoStep
<1>3. CASE Poll(a)
  <2>1. task[a].pc = "poll" /\ UNCHANGED <<dialog, device, spent, sent>>
    BY <1>3 DEF Poll, dialogVars, loginVars
  <2>2. task[a].provider = "microsoft"  BY <1>1, <2>1 DEF TaskOK
  <2>3. PICK label \in {"sleep", "granted", "over"} :
          Proceed(a, label) /\ (label = "granted" => device[a] = "approved")
    BY <1>3 DEF Poll
  <2>4. task'[a].provider = "microsoft"  BY <2>2, <2>3, Moved DEF LoginInv
  <2>5. label = "granted" => Agreed(task[a].provider, a)'  BY <2>1, <2>3, <2>4 DEF Agreed
  <2> QED BY <1>1, <2>1, <2>2, <2>3, <2>5, GotoStep
<1> QED BY <1>2, <1>3

\* The user enters the code elsewhere; the browser calls; and nothing happens.
LEMMA EnterLogin ==
    ASSUME LoginInv, NEW a \in Attempts, NEW r, Enter(a, r)
    PROVE  LoginInv'
<1>1. /\ device[a] = "pending" /\ device' = [device EXCEPT ![a] = r]
      /\ UNCHANGED <<dialog, task, spent, sent>>
  BY DEF Enter, dialogVars
<1>2. ASSUME NEW b \in Attempts, NEW provider, Agreed(provider, b) PROVE Agreed(provider, b)'
  BY <1>1, <1>2 DEF LoginInv, Agreed
<1>3. ASSUME NEW b \in Attempts PROVE TaskOK(task[b], b)'
  BY <1>1, <1>2 DEF LoginInv, TaskOK
<1>4. TokensOK'  BY <1>1, <1>2 DEF LoginInv, TokensOK
<1> QED BY <1>1, <1>3, <1>4 DEF LoginInv, OwnCodeOnly

LEMMA OtherLogin ==
    ASSUME LoginInv, (\E a \in Attempts : Browser(a)) \/ Rest \/ UNCHANGED oauthVars
    PROVE  LoginInv'
<1>1. UNCHANGED <<dialog, task, device, spent, sent>>
  BY DEF Browser, Answer, Preconnect, Rest, oauthVars, dialogVars
<1> QED BY <1>1 DEF LoginInv, TaskOK, TokensOK, Agreed, OwnCodeOnly

LEMMA StepLogin == LoginInv /\ [LoginNext]_oauthVars => LoginInv'
<1> SUFFICES ASSUME LoginInv, [LoginNext]_oauthVars PROVE LoginInv'  OBVIOUS
<1>1. ASSUME NEW a \in Attempts, Login(a) PROVE LoginInv'
  BY <1>1, BeginLogin, GrantLogin, AcceptedLogin, FlowLogin, RedeemLogin, DeviceLogin DEF Login
<1>2. ASSUME NEW a \in Attempts, NEW r, Enter(a, r) PROVE LoginInv'
  BY <1>2, EnterLogin
<1>3. CASE \E p \in Providers : Change(p)
  BY <1>3, ChangeLogin
<1>4. CASE (\E a \in Attempts : Browser(a)) \/ Rest \/ UNCHANGED oauthVars
  BY <1>4, OtherLogin
<1> QED BY <1>1, <1>2, <1>3, <1>4 DEF LoginNext

LEMMA LoginTokens == LoginInv => TokensOfLastLogin
<1> SUFFICES ASSUME LoginInv, dialog.tokens # None PROVE TokensOfLastLogin
  BY DEF TokensOfLastLogin
<1> DEFINE a == dialog.tokens
<1>1. /\ a \in Attempts /\ task[a].gen = dialog.gen /\ task[a].provider = dialog.provider
      /\ Agreed(task[a].provider, a)
  BY DEF LoginInv, TokensOK
<1>2. \A b \in Attempts : task[b].gen <= task[a].gen
  BY <1>1 DEF LoginInv, TaskOK
<1> QED BY <1>1, <1>2 DEF TokensOfLastLogin, Agreed

(***************************************************************************)
(* TokensOfLastLogin for any number of attempts and changes of the dialog: *)
(* a late answer never becomes the credentials of another account          *)
(* (AccountModal.tsx, startDeviceFlow and pollGen).                        *)
(***************************************************************************)
THEOREM LateAnswersIgnored == LoginSpec => []TokensOfLastLogin
BY InitLogin, StepLogin, LoginTokens, PTL DEF LoginSpec

\* OwnCodeOnly for any number of attempts and ports: the code that is sent to the
\* token endpoint is of the page that this attempt opened (oauth.rs, the state check
\* of finish_browser_flow).
THEOREM OnlyOwnCodeSent == LoginSpec => []OwnCodeOnly
<1>1. LoginInv => OwnCodeOnly  BY DEF LoginInv
<1> QED BY InitLogin, StepLogin, <1>1, PTL DEF LoginSpec

-----------------------------------------------------------------------------
(* The listeners.                                                          *)

(***************************************************************************)
(* An attempt has a listener from begin_browser_flow on until its flow is  *)
(* finished; a flow that was begun and given up by the dialog keeps it.    *)
(***************************************************************************)
Listens(a) == a \in flows \/ task[a].pc \in {"accept", "redeem"}

PortOK(a) ==
    /\ task[a].pc \in TaskLabels
    /\ port[a] \in Ports \cup {None}
    /\ Listens(a) <=> port[a] # None
    /\ a \in flows => task[a].pc \in {"begun", "over"}
    /\ task[a].pc = "begun" => a \in flows

OnePort == \A a, b \in Attempts : port[a] = port[b] /\ port[a] # None => a = b

PortInv ==
    /\ LoginInv
    /\ port = [a \in Attempts |-> port[a]]
    /\ \A a \in Attempts : PortOK(a)
    /\ OnePort

\* An attempt goes from one place to another, and only its listener may change.
LEMMA PortStep ==
    ASSUME PortInv, LoginInv', NEW a \in Attempts,
           task' = [task EXCEPT ![a] = task'[a]], PortOK(a)',
           \A b \in Attempts \ {a} : b \in flows' <=> b \in flows,
           \/ port' = port \/ port' = [port EXCEPT ![a] = None]
           \/ \E p \in Ports \ Bound : port' = [port EXCEPT ![a] = p]
    PROVE  PortInv'
<1>1. /\ task = [b \in Attempts |-> task[b]] /\ port = [b \in Attempts |-> port[b]]
      /\ \A b \in Attempts : PortOK(b)
  BY DEF PortInv, LoginInv
<1>2. PICK p : /\ port' = [port EXCEPT ![a] = p]
               /\ p # None => \A b \in Attempts \ {a} : port[b] # p
  <2>1. CASE port' = port
    <3>1. port' = [port EXCEPT ![a] = port[a]]  BY <1>1, <2>1
    <3> QED BY <3>1 DEF PortInv, OnePort
  <2>2. CASE port' = [port EXCEPT ![a] = None]  BY <2>2
  <2>3. CASE \E p \in Ports \ Bound : port' = [port EXCEPT ![a] = p]  BY <2>3 DEF Bound
  <2> QED BY <2>1, <2>2, <2>3
<1>3. port' = [b \in Attempts |-> port'[b]] /\ port'[a] = p
  BY <1>1, <1>2
<1>4. ASSUME NEW b \in Attempts, b # a PROVE PortOK(b)' /\ port'[b] = port[b]
  <2>1. task'[b] = task[b] /\ port'[b] = port[b] /\ (b \in flows' <=> b \in flows)
    BY <1>1, <1>2, <1>4
  <2>2. PortOK(b)  BY <1>1
  <2> QED BY <2>1, <2>2 DEF PortOK, Listens
<1>5. OnePort'
  <2> SUFFICES ASSUME NEW b \in Attempts, NEW c \in Attempts,
                      port'[b] = port'[c], port'[b] # None
               PROVE  b = c
    BY DEF OnePort
  <2>1. CASE b # a /\ c # a  BY <1>4, <2>1 DEF PortInv, OnePort
  <2>2. CASE b = a /\ c # a  BY <1>2, <1>3, <1>4, <2>2
  <2>3. CASE b # a /\ c = a  BY <1>2, <1>3, <1>4, <2>3
  <2> QED BY <2>1, <2>2, <2>3
<1> QED BY <1>3, <1>4, <1>5 DEF PortInv

LEMMA LoginPorts ==
    ASSUME PortInv, LoginInv', NEW a \in Attempts, Login(a)
    PROVE  PortInv'
<1>1. /\ task = [b \in Attempts |-> task[b]] /\ port = [b \in Attempts |-> port[b]]
      /\ TaskOK(task[a], a) /\ PortOK(a)
  BY DEF PortInv, LoginInv
<1>2. CASE Begin(a)
  <2>1. /\ task[a].pc = "none" /\ task' = [task EXCEPT ![a] = task'[a]] /\ task'[a].pc = "begin"
        /\ UNCHANGED <<flows, port>>
    BY <1>1, <1>2 DEF Begin, Idle, loginVars
  <2>2. PortOK(a)'  BY <1>1, <2>1 DEF PortOK, Listens, TaskLabels
  <2> QED BY <2>1, <2>2, PortStep
<1>3. ASSUME NEW label, Proceed(a, label)
      PROVE  task' = [task EXCEPT ![a] = task'[a]] /\ task'[a].pc = label
  <2>1. task'[a] = [task[a] EXCEPT !.pc = label]  BY <1>1, <1>3 DEF Proceed
  <2>2. task[a] = [f \in TaskFields |-> task[a][f]]  BY <1>1 DEF TaskOK
  <2>3. task'[a].pc = label  BY <2>1, <2>2 DEF TaskFields
  <2> QED BY <1>1, <1>3, <2>3 DEF Proceed
<1>4. CASE \E p \in Ports : BeginBrowser(a, p)
  <2>1. PICK p \in Ports \ Bound :
          /\ task[a].pc = "begin" /\ port' = [port EXCEPT ![a] = p]
          /\ flows' = flows \cup {a} /\ Proceed(a, "begun")
    BY <1>4 DEF BeginBrowser
  <2>2. p # None /\ port'[a] = p  BY <1>1, <2>1, LoginAssumption
  <2>3. PortOK(a)'  BY <1>3, <2>1, <2>2 DEF PortOK, Listens, TaskLabels
  <2> QED BY <1>3, <2>1, <2>3, PortStep
<1>5. CASE OpenAndFinish(a)
  <2>1. task[a].pc = "begun" /\ Proceed(a, "accept") /\ flows' = flows \ {a} /\ port' = port
    BY <1>5 DEF OpenAndFinish
  <2>2. PortOK(a)'  BY <1>1, <1>3, <2>1 DEF PortOK, Listens, TaskLabels
  <2> QED BY <1>3, <2>1, <2>2, PortStep
<1>6. CASE \E call \in calls[a] : Accepted(a, call)
  <2>1. /\ task[a].pc = "accept" /\ task' = [task EXCEPT ![a] = task'[a]]
        /\ task'[a].pc = "redeem" /\ UNCHANGED <<flows, port>>
    BY <1>1, <1>6 DEF Accepted, TaskOK, TaskFields
  <2>2. PortOK(a)'  BY <1>1, <2>1 DEF PortOK, Listens, TaskLabels
  <2> QED BY <2>1, <2>2, PortStep
<1>7. CASE \/ Timeout(a) \/ Redeem(a) \/ RedeemFails(a) \/ \E call \in calls[a] : Refused(a, call)
  <2>1. PICK label \in {"granted", "over"} :
          /\ task[a].pc \in {"accept", "redeem"} /\ Proceed(a, label)
          /\ port' = [port EXCEPT ![a] = None] /\ flows' = flows
    BY <1>7 DEF Timeout, Redeem, RedeemFails, Refused, Fail, Close
  <2>2. port'[a] = None /\ a \notin flows  BY <1>1, <2>1 DEF PortOK
  <2>3. PortOK(a)'  BY <1>3, <2>1, <2>2 DEF PortOK, Listens, TaskLabels
  <2> QED BY <1>3, <2>1, <2>3, PortStep
<1>8. CASE \/ Quit(a) \/ Grant(a) \/ BeginDevice(a) \/ BeginFails(a) \/ Ask(a) \/ Poll(a)
  <2>1. PICK label \in {"over", "sleep", "poll", "granted"} :
          /\ Proceed(a, label) /\ UNCHANGED <<flows, port>>
          /\ task[a].pc \in {"begin", "begun", "sleep", "granted", "poll"}
          /\ task[a].pc = "begun" => label = "over"
    BY <1>8 DEF Quit, Grant, BeginDevice, BeginFails, Ask, Poll, loginVars
  <2>2. PortOK(a)'  BY <1>1, <1>3, <2>1 DEF PortOK, Listens, TaskLabels
  <2> QED BY <1>3, <2>1, <2>2, PortStep
<1> QED BY <1>2, <1>4, <1>5, <1>6, <1>7, <1>8 DEF Login

LEMMA PortStays == PortInv /\ [LoginNext]_oauthVars => PortInv'
<1> SUFFICES ASSUME PortInv, [LoginNext]_oauthVars PROVE PortInv'  OBVIOUS
<1>1. LoginInv'  BY StepLogin DEF PortInv
<1>2. ASSUME NEW a \in Attempts, Login(a) PROVE PortInv'  BY <1>1, <1>2, LoginPorts
<1>3. CASE \/ \E a \in Attempts : Browser(a) \/ \E r \in {"approved", "declined", "expired"} : Enter(a, r)
           \/ (\E p \in Providers : Change(p)) \/ Rest \/ UNCHANGED oauthVars
  <2>1. UNCHANGED <<task, flows, port>>
    BY <1>3 DEF Browser, Answer, Preconnect, Enter, Change, Rest, oauthVars, loginVars
  <2> QED BY <1>1, <2>1 DEF PortInv, PortOK, Listens, OnePort
<1> QED BY <1>2, <1>3 DEF LoginNext

(***************************************************************************)
(* LoginTypeOK for any number of attempts and any ports: a flow that       *)
(* nobody has finished has a listener, as has one that is being finished,  *)
(* no other attempt has one, and no port has two.                          *)
(***************************************************************************)
THEOREM OneListenerPerPort == LoginSpec => []LoginTypeOK
<1>1. LoginInit => PortInv
  <2> SUFFICES ASSUME LoginInit PROVE PortInv  OBVIOUS
  <2>1. LoginInv  BY InitLogin
  <2>2. /\ port = [a \in Attempts |-> None] /\ flows = {}
        /\ \A a \in Attempts : task[a].pc = "none"
    BY DEF LoginInit, Idle
  <2> QED BY <2>1, <2>2 DEF PortInv, PortOK, Listens, OnePort, TaskLabels
<1>2. PortInv => LoginTypeOK
  BY DEF PortInv, PortOK, Listens, OnePort, LoginTypeOK, LoginInv, TokensOK
<1> QED BY <1>1, <1>2, PortStays, PTL DEF LoginSpec

-----------------------------------------------------------------------------
(* From a notice to the mail that the window opens.                        *)

\* Of two banners that the window opens, the first is the older one, except on macOS,
\* where they are clicked in any order.
Before(x, y) == x # y /\ (platform # "mac" => x < y)

(***************************************************************************)
(* What keeps the banners apart on their way: of n banners, those that can *)
(* still be clicked, the one that is due, the one the window was told, and *)
(* those it has opened.  The number 0 stands for none.                     *)
(***************************************************************************)
InLine(n, clickable, due, told, done) ==
    /\ n \in Nat /\ due \in 0 .. n /\ told \in 0 .. n
    /\ clickable \subseteq 1 .. n /\ due \notin clickable /\ told \notin clickable
    /\ platform # "mac" => clickable = {}
    /\ due # 0 /\ told # 0 => Before(told, due)
    /\ done \in Seq(Nat)
    /\ \A i \in 1 .. Len(done) :
        /\ done[i] \in (1 .. n) \ clickable
        /\ due # 0 => Before(done[i], due)
        /\ told # 0 => Before(done[i], told)
    /\ \A i, j \in 1 .. Len(done) : i < j => Before(done[i], done[j])

Due == IF pending = <<>> THEN 0 ELSE pending[1].banner
ToldBanner == IF pulling = "answered" THEN answer ELSE 0
Banners == [account : Mailboxes, mails : Seq(Nat)]

BannerInv ==
    /\ banners \in Seq(Banners)
    /\ pending # <<>> => \E b \in 1 .. Len(banners), fresh \in BOOLEAN :
                            pending = <<[banner |-> b, fresh |-> fresh]>>
    /\ InLine(Len(banners), targets, Due, ToldBanner, opened)

\* The mails that a watcher knows of have arrived, and it has something to fetch.
KnownMails(w, b, k) ==
    /\ b \in Seq(1 .. k) /\ w.notices \in Seq(1 .. k)
    /\ w.pc \in {"away", "idle", "fetch", "notify"} /\ w.count \in Nat
    /\ w.pc \in {"fetch", "notify"} => w.count > 0

NoticeInv ==
    /\ CountInv /\ BannerInv
    /\ \A a \in Mailboxes : KnownMails(watch[a], box[a], arrived[a])

-----------------------------------------------------------------------------
\* What the window does with a banner.
LEMMA ShownInLine ==
    ASSUME NEW n, NEW c, NEW due, NEW told, NEW done, InLine(n, c, due, told, done)
    PROVE  /\ platform = "mac" => InLine(n + 1, c \cup {n + 1}, due, told, done)
           /\ platform # "mac" => InLine(n + 1, c, n + 1, told, done)
<1>1. n \in Nat /\ n + 1 \in Nat /\ \A x : x \in 1 .. n + 1 <=> x \in 1 .. n \/ x = n + 1
  BY DEF InLine
<1>2. \A x \in 1 .. n : x < n + 1  BY <1>1
<1>3. n + 1 \notin 0 .. n /\ n + 1 # 0  BY <1>1
<1>4. 0 .. n \subseteq 0 .. n + 1 /\ n + 1 \in 0 .. n + 1  BY <1>1
<1>5. \A x \in 0 .. n : x # 0 => x \in 1 .. n  BY <1>1
<1>6. CASE platform = "mac"
  <2>1. c \cup {n + 1} \subseteq 1 .. n + 1  BY <1>1 DEF InLine
  <2>2. due \notin c \cup {n + 1} /\ told \notin c \cup {n + 1}  BY <1>3 DEF InLine
  <2>3. \A i \in 1 .. Len(done) : done[i] \in (1 .. n + 1) \ (c \cup {n + 1})
    BY <1>1, <1>2 DEF InLine
  <2> QED BY <1>1, <1>4, <1>6, <2>1, <2>2, <2>3 DEF InLine
<1>7. CASE platform # "mac"
  <2>1. c = {}  BY <1>7 DEF InLine
  <2>2. told # 0 => Before(told, n + 1)  BY <1>2, <1>3, <1>5 DEF InLine, Before
  <2>3. \A i \in 1 .. Len(done) : done[i] \in (1 .. n + 1) \ c /\ Before(done[i], n + 1)
    BY <1>1, <1>2, <1>3, <2>1 DEF InLine, Before
  <2> QED BY <1>1, <1>4, <1>7, <2>1, <2>2, <2>3 DEF InLine
<1> QED BY <1>6, <1>7

LEMMA ClickedInLine ==
    ASSUME NEW n, NEW c, NEW due, NEW told, NEW done, InLine(n, c, due, told, done), NEW b \in c
    PROVE  InLine(n, c \ {b}, b, told, done)
<1>1. b \in 1 .. n /\ b \in 0 .. n /\ b # 0 /\ platform = "mac"  BY DEF InLine
<1>2. told # 0 => Before(told, b)  BY <1>1 DEF InLine, Before
<1>3. \A i \in 1 .. Len(done) : done[i] \in (1 .. n) \ (c \ {b}) /\ Before(done[i], b)
  BY <1>1 DEF InLine, Before
<1> QED BY <1>1, <1>2, <1>3 DEF InLine

LEMMA TakenInLine ==
    ASSUME NEW n, NEW c, NEW due, NEW told, NEW done, InLine(n, c, due, told, done),
           NEW t \in {0, due}
    PROVE  InLine(n, c, 0, t, done)
<1>1. 0 \notin c /\ 0 \in 0 .. n  BY DEF InLine
<1> QED BY <1>1 DEF InLine

LEMMA OpenedInLine ==
    ASSUME NEW n, NEW c, NEW due, NEW told, NEW done, InLine(n, c, due, told, done),
           NEW d, d = IF told = 0 THEN done ELSE Append(done, told)
    PROVE  InLine(n, c, due, 0, d)
<1>1. 0 \notin c /\ 0 \in 0 .. n  BY DEF InLine
<1>2. CASE told = 0  BY <1>1, <1>2 DEF InLine
<1>3. CASE told # 0
  <2>1. /\ done \in Seq(Nat) /\ told \in Nat /\ told \in (1 .. n) \ c /\ Len(done) \in Nat
        /\ d = Append(done, told)
    BY <1>3 DEF InLine
  <2>2. /\ d \in Seq(Nat) /\ Len(d) = Len(done) + 1 /\ d[Len(done) + 1] = told
        /\ \A i \in 1 .. Len(done) : d[i] = done[i]
    BY <2>1
  <2>3. \A i : i \in 1 .. Len(d) <=> i \in 1 .. Len(done) \/ i = Len(done) + 1
    BY <2>1, <2>2
  <2>4. ASSUME NEW i \in 1 .. Len(d)
        PROVE  d[i] \in (1 .. n) \ c /\ (due # 0 => Before(d[i], due))
    BY <1>3, <2>1, <2>2, <2>3 DEF InLine
  <2>5. ASSUME NEW i \in 1 .. Len(d), NEW j \in 1 .. Len(d), i < j PROVE Before(d[i], d[j])
    <3>1. i \in 1 .. Len(done)  BY <2>1, <2>2, <2>3, <2>5
    <3>2. CASE j \in 1 .. Len(done)
      <4>1. d[i] = done[i] /\ d[j] = done[j]  BY <2>2, <3>1, <3>2
      <4> QED BY <2>5, <3>1, <3>2, <4>1 DEF InLine
    <3>3. CASE j = Len(done) + 1
      <4>1. d[i] = done[i] /\ d[j] = told  BY <2>2, <3>1, <3>3
      <4> QED BY <1>3, <3>1, <4>1 DEF InLine
    <3> QED BY <2>3, <3>2, <3>3
  <2> QED BY <1>1, <2>2, <2>4, <2>5 DEF InLine
<1> QED BY <1>2, <1>3

\* The same queue on the same platform.
LEMMA StillInLine ==
    ASSUME platform' = platform, NEW n, NEW c, NEW due, NEW told, NEW done, InLine(n, c, due, told, done)
    PROVE  InLine(n, c, due, told, done)'
BY DEF InLine, Before

\* What is needed of a step: the queue after it, by its parts.
LEMMA BannerStep ==
    ASSUME platform' = platform, banners' \in Seq(Banners),
           pending' = <<>> \/ \E b \in 1 .. Len(banners'), fresh \in BOOLEAN :
                                pending' = <<[banner |-> b, fresh |-> fresh]>>,
           InLine(Len(banners'), targets', Due', ToldBanner', opened')
    PROVE  BannerInv'
<1>1. PICK n, c, due, told, done :
        n = Len(banners') /\ c = targets' /\ due = Due' /\ told = ToldBanner' /\ done = opened'
  OBVIOUS
<1>2. InLine(n, c, due, told, done)  BY <1>1
<1>3. InLine(n, c, due, told, done)'  BY <1>2, StillInLine
<1>4. InLine(Len(banners), targets, Due, ToldBanner, opened)'  BY <1>1, <1>3
<1> QED BY <1>4 DEF BannerInv

LEMMA OnePending ==
    ASSUME NEW b, NEW fresh
    PROVE  LET p == <<[banner |-> b, fresh |-> fresh]>>
           IN  p # <<>> /\ p[1].banner = b /\ p[1] = [banner |-> b, fresh |-> fresh]
OBVIOUS

LEMMA StaleRecord ==
    ASSUME NEW b, NEW fresh
    PROVE  [[banner |-> b, fresh |-> fresh] EXCEPT !.fresh = FALSE] = [banner |-> b, fresh |-> FALSE]
<1>1. PICK r : r = [banner |-> b, fresh |-> fresh]  OBVIOUS
<1>2. PICK q : q = [r EXCEPT !.fresh = FALSE]  OBVIOUS
<1>3. r = [f \in {"banner", "fresh"} |-> r[f]] /\ r.banner = b  BY <1>1
<1>4. q = [f \in {"banner", "fresh"} |-> q[f]] /\ q.banner = b /\ q.fresh = FALSE
  BY <1>2, <1>3
<1>5. q = [banner |-> b, fresh |-> FALSE]  BY <1>4
<1> QED BY <1>1, <1>2, <1>5

LEMMA NotifyBanner ==
    ASSUME NoticeInv, NEW a \in Mailboxes, Notify(a)
    PROVE  BannerInv'
<1>1. /\ banners \in Seq(Banners) /\ Len(banners) \in Nat
      /\ pending # <<>> => \E b \in 1 .. Len(banners), fresh \in BOOLEAN :
                              pending = <<[banner |-> b, fresh |-> fresh]>>
      /\ InLine(Len(banners), targets, Due, ToldBanner, opened)
  BY DEF NoticeInv, BannerInv, InLine
<1>2. UNCHANGED <<platform, pulling, answer, opened>>  BY DEF Notify, appVars, windowVars
<1>3. ToldBanner' = ToldBanner  BY <1>2 DEF ToldBanner
<1>4. CASE UNCHANGED <<banners, pending, targets>>
  <2>1. Due' = Due  BY <1>4 DEF Due
  <2> QED BY <1>1, <1>2, <1>3, <1>4, <2>1, BannerStep
<1>5. CASE ~ UNCHANGED <<banners, pending, targets>>
  <2>1. PICK e : e = [account |-> a, mails |-> watch[a].notices]  OBVIOUS
  <2>2. /\ banners' = Append(banners, e)
        /\ platform = "mac" => pending' = pending /\ targets' = targets \cup {Len(banners) + 1}
        /\ platform # "mac" => /\ pending' = <<[banner |-> Len(banners) + 1, fresh |-> TRUE]>>
                               /\ targets' = targets
    BY <1>5, <2>1 DEF Notify
  <2>3. watch[a].notices \in Seq(Nat)
    <3>1. watch[a].notices \in Seq(1 .. arrived[a])  BY DEF NoticeInv, KnownMails
    <3>2. 1 .. arrived[a] \subseteq Nat  OBVIOUS
    <3> QED BY <3>1, <3>2, SeqMonotonic
  <2>4. banners' \in Seq(Banners) /\ Len(banners') = Len(banners) + 1
    BY <1>1, <2>1, <2>2, <2>3 DEF Banners
  <2>5. CASE platform = "mac"
    <3>1. Due' = Due  BY <2>2, <2>5 DEF Due
    <3>2. InLine(Len(banners) + 1, targets \cup {Len(banners) + 1}, Due, ToldBanner, opened)
      BY <1>1, <2>5, ShownInLine
    <3>4. InLine(Len(banners'), targets', Due', ToldBanner', opened')
      BY <1>2, <1>3, <2>2, <2>4, <2>5, <3>1, <3>2
    <3>3. 1 .. Len(banners) \subseteq 1 .. Len(banners')  BY <1>1, <2>4
    <3> QED BY <1>1, <1>2, <2>2, <2>4, <2>5, <3>3, <3>4, BannerStep
  <2>6. CASE platform # "mac"
    <3>1. Due' = Len(banners) + 1  BY <2>2, <2>6, OnePending DEF Due
    <3>2. InLine(Len(banners'), targets', Due', ToldBanner', opened')
      BY <1>1, <1>2, <1>3, <2>2, <2>4, <2>6, <3>1, ShownInLine
    <3>3. Len(banners) + 1 \in 1 .. Len(banners')  BY <1>1, <2>4
    <3> QED BY <1>2, <2>2, <2>4, <2>6, <3>2, <3>3, BannerStep
  <2> QED BY <2>5, <2>6
<1> QED BY <1>4, <1>5

LEMMA WindowBanner ==
    ASSUME NoticeInv, Window
    PROVE  BannerInv'
<1>1. /\ banners \in Seq(Banners) /\ Len(banners) \in Nat
      /\ pending # <<>> => \E b \in 1 .. Len(banners), fresh \in BOOLEAN :
                              pending = <<[banner |-> b, fresh |-> fresh]>>
      /\ InLine(Len(banners), targets, Due, ToldBanner, opened)
  BY DEF NoticeInv, BannerInv, InLine
<1>2. platform' = platform /\ banners' = banners
  BY DEF Window, Focus, Blur, Take, Open, Expire, SetNotify, Click, appVars
<1>3. Pull /\ answer' = answer => ToldBanner' = ToldBanner
  BY DEF Pull, ToldBanner
<1>4. CASE Focus
  <2>1. UNCHANGED <<targets, pending, opened, answer>> /\ Pull  BY <1>4 DEF Focus
  <2>2. Due' = Due  BY <2>1 DEF Due
  <2> QED BY <1>1, <1>2, <1>3, <2>1, <2>2, BannerStep
<1>5. CASE Blur \/ SetNotify
  <2>1. UNCHANGED <<targets, pending, opened, pulling, answer>>
    BY <1>5 DEF Blur, SetNotify, windowVars
  <2>2. Due' = Due /\ ToldBanner' = ToldBanner  BY <2>1 DEF Due, ToldBanner
  <2> QED BY <1>1, <1>2, <2>1, <2>2, BannerStep
<1>6. ASSUME NEW b, Click(b) PROVE BannerInv'
  <2>1. /\ b \in targets /\ targets' = targets \ {b} /\ Pull /\ UNCHANGED <<opened, answer>>
        /\ pending' = <<[banner |-> b, fresh |-> TRUE]>>
    BY <1>6 DEF Click
  <2>2. Due' = b  BY <2>1, OnePending DEF Due
  <2>3. InLine(Len(banners'), targets', Due', ToldBanner', opened')
    BY <1>1, <1>2, <1>3, <2>1, <2>2, ClickedInLine
  <2>4. b \in 1 .. Len(banners')  BY <1>1, <1>2, <2>1 DEF InLine
  <2> QED BY <1>1, <1>2, <2>1, <2>3, <2>4, BannerStep
<1>7. CASE Take
  <2>1. /\ pending' = <<>> /\ pulling' = "answered" /\ UNCHANGED <<targets, opened>>
        /\ answer' = IF pending # <<>> /\ pending[1].fresh THEN pending[1].banner ELSE 0
    BY <1>7 DEF Take
  <2>2. Due' = 0 /\ ToldBanner' \in {0, Due}  BY <2>1 DEF Due, ToldBanner
  <2>3. InLine(Len(banners'), targets', Due', ToldBanner', opened')
    BY <1>1, <1>2, <2>1, <2>2, TakenInLine
  <2> QED BY <1>1, <1>2, <2>1, <2>3, BannerStep
<1>8. CASE Open
  <2>1. /\ pulling = "answered" /\ pulling' = "idle" /\ UNCHANGED <<targets, pending>>
        /\ opened' = IF answer = 0 THEN opened ELSE Append(opened, answer)
    BY <1>8 DEF Open
  <2>2. Due' = Due /\ ToldBanner = answer /\ ToldBanner' = 0  BY <2>1 DEF Due, ToldBanner
  <2>3. InLine(Len(banners'), targets', Due', ToldBanner', opened')
    BY <1>1, <1>2, <2>1, <2>2, OpenedInLine
  <2> QED BY <1>1, <1>2, <2>1, <2>3, BannerStep
<1>9. CASE Expire
  <2>1. /\ pending # <<>> /\ pending' = <<[pending[1] EXCEPT !.fresh = FALSE]>>
        /\ UNCHANGED <<targets, opened, pulling, answer>>
    BY <1>9 DEF Expire, windowVars
  <2>2. PICK b \in 1 .. Len(banners), fresh \in BOOLEAN : pending = <<[banner |-> b, fresh |-> fresh]>>
    BY <1>1, <2>1
  <2>3. [pending[1] EXCEPT !.fresh = FALSE] = [banner |-> b, fresh |-> FALSE]
    <3>1. pending[1] = [banner |-> b, fresh |-> fresh]  BY <2>2, OnePending
    <3> QED BY <3>1, StaleRecord
  <2>4. pending' = <<[banner |-> b, fresh |-> FALSE]>>  BY <2>1, <2>3
  <2>5. Due' = Due /\ ToldBanner' = ToldBanner  BY <2>1, <2>2, <2>4, OnePending DEF Due, ToldBanner
  <2> QED BY <1>1, <1>2, <2>1, <2>4, <2>5, BannerStep
<1> QED BY <1>4, <1>5, <1>6, <1>7, <1>8, <1>9 DEF Window

LEMMA OthersBanner ==
    ASSUME NoticeInv, UNCHANGED <<platform, banners, pending, targets, pulling, answer, opened>>
    PROVE  BannerInv'
BY DEF NoticeInv, BannerInv, InLine, Before, Due, ToldBanner

-----------------------------------------------------------------------------
\* The mails that a watcher knows of.
LEMMA SliceType ==
    ASSUME NEW S, NEW s \in Seq(S), NEW i \in Nat, NEW j \in Nat, j <= Len(s), i >= 1
    PROVE  SubSeq(s, i, j) \in Seq(S)
<1>1. \A k \in 1 .. Len(s) : s[k] \in S  BY ElementOfSeq
<1>2. \A k \in i .. j : k \in 1 .. Len(s)  OBVIOUS
<1>3. \A k \in i .. j : s[k] \in S  BY <1>1, <1>2
<1> QED BY <1>3, SubSeqProperties

LEMMA NewestType ==
    ASSUME NEW S, NEW s \in Seq(S), NEW n \in Nat
    PROVE  Newest(s, n) \in Seq(S)
<1>1. Len(s) \in Nat /\ Len(s) - Least(n, Len(s)) + 1 \in Nat /\ Len(s) - Least(n, Len(s)) + 1 >= 1
  BY DEF Least
<1> QED BY <1>1, SliceType DEF Newest

LEMMA ReverseType ==
    ASSUME NEW S, NEW s \in Seq(S)
    PROVE  Reverse(s) \in Seq(S)
<1>1. Len(s) \in Nat /\ \A k \in 1 .. Len(s) : s[k] \in S  BY ElementOfSeq
<1>2. \A i \in 1 .. Len(s) : Len(s) - i + 1 \in 1 .. Len(s)  BY <1>1
<1>3. Reverse(s) \in [1 .. Len(s) -> S]  BY <1>1, <1>2 DEF Reverse
<1> QED BY <1>1, <1>3

LEMMA NoticesType ==
    ASSUME NEW S, NEW s \in Seq(S), NEW a
    PROVE  Notices(a, s) \in Seq(S)
BY ReverseType, RetainType DEF Notices

LEMMA RemovedType ==
    ASSUME NEW S, NEW s \in Seq(S), NEW i \in 1 .. Len(s)
    PROVE  RemoveAt(s, i) \in Seq(S)
<1>1. PICK b, e : b = SubSeq(s, 1, i - 1) /\ e = SubSeq(s, i + 1, Len(s))  OBVIOUS
<1>2. Len(s) \in Nat /\ i - 1 \in Nat /\ i + 1 \in Nat /\ i - 1 <= Len(s) /\ i + 1 >= 1  OBVIOUS
<1>3. b \in Seq(S) /\ e \in Seq(S)  BY <1>1, <1>2, SliceType
<1>4. RemoveAt(s, i) = b \o e  BY <1>1 DEF RemoveAt
<1> QED BY <1>3, <1>4, ConcatProperties

\* A step of one watcher.
LEMMA KnownStep ==
    ASSUME NoticeInv, NEW a \in Mailboxes, NEW v, watch' = [watch EXCEPT ![a] = v],
           UNCHANGED mailVars, KnownMails(v, box[a], arrived[a])
    PROVE  \A b \in Mailboxes : KnownMails(watch[b], box[b], arrived[b])'
<1> SUFFICES ASSUME NEW b \in Mailboxes PROVE KnownMails(watch[b], box[b], arrived[b])'  OBVIOUS
<1>1. /\ box' = box /\ arrived' = arrived /\ watch'[b] = IF b = a THEN v ELSE watch[b]
  BY DEF mailVars, NoticeInv, CountInv
<1>2. KnownMails(watch[b], box[b], arrived[b])  BY DEF NoticeInv
<1> QED BY <1>1, <1>2 DEF KnownMails

LEMMA LookKnown ==
    ASSUME NoticeInv, NEW a \in Mailboxes, NEW label, label \in {"fetch", "notify"},
           NEW c, c = ByUidNext(watch[a], arrived[a] + 1) \/ c = ByExists(watch[a], Len(box[a]))
    PROVE  KnownMails(Counted(watch[a], c, a, label), box[a], arrived[a]) /\ c.count \in Nat
<1>1. PICK w : w = watch[a]  OBVIOUS
<1>2. IsWatch(w) /\ KnownMails(w, box[a], arrived[a])  BY <1>1 DEF NoticeInv, CountInv
<1>3. arrived[a] \in Nat /\ Len(box[a]) \in Nat  BY LenBox DEF NoticeInv
<1>4. c.count \in Nat
  <2>1. CASE c = ByUidNext(watch[a], arrived[a] + 1)
    <3>1. c.count = IF w.uidNext # Unset /\ arrived[a] + 1 > w.uidNext
                    THEN arrived[a] + 1 - w.uidNext ELSE 0
      <4>1. c = ByUidNext(w, arrived[a] + 1)  BY <1>1, <2>1
      <4> QED BY <1>2, <1>3, <4>1 DEF ByUidNext, IsWatch, Unset
    <3>2. w.uidNext \in Nat \cup {Unset}  BY <1>2 DEF IsWatch
    <3> QED BY <1>3, <3>1, <3>2
  <2>2. CASE c = ByExists(watch[a], Len(box[a]))
    <3>1. c.count = IF w.exists # Unset /\ Len(box[a]) > w.exists
                    THEN Len(box[a]) - w.exists ELSE 0
      BY <1>1, <2>2 DEF ByExists
    <3>2. w.exists \in Nat \cup {Unset}  BY <1>2 DEF IsWatch
    <3> QED BY <1>3, <3>1, <3>2
  <2> QED BY <2>1, <2>2
<1>5. PICK v : v = Counted(w, c, a, label)  OBVIOUS
<1>6. /\ v.notices = w.notices /\ v.count = c.count
      /\ v.pc = IF c.count > 0 THEN label ELSE "idle"
  BY <1>2, <1>5 DEF Counted, IsWatch, Parts
<1>7. KnownMails(v, box[a], arrived[a])  BY <1>2, <1>4, <1>6 DEF KnownMails
<1> QED BY <1>1, <1>4, <1>5, <1>7

LEMMA WatcherKnows ==
    ASSUME NoticeInv, NEW a \in Mailboxes, Watcher(a)
    PROVE  \A b \in Mailboxes : KnownMails(watch[b], box[b], arrived[b])'
<1>1. UNCHANGED mailVars
  BY DEF Watcher, StartWatch, LeaveWatch, Notify, Examine, FetchNotices, PollMaildrop
<1>2. PICK w : w = watch[a]  OBVIOUS
<1>3. /\ IsWatch(w) /\ KnownMails(w, box[a], arrived[a])
      /\ watch = [b \in Mailboxes |-> watch[b]]
  BY <1>2 DEF NoticeInv, CountInv
<1>4. CASE StartWatch(a) \/ LeaveWatch(a)
  <2>1. PICK v \in {[Away EXCEPT !.pc = "idle"], Away} : watch' = [watch EXCEPT ![a] = v]
    BY <1>4 DEF StartWatch, LeaveWatch
  <2>2. v.notices = <<>> /\ v.count = 0 /\ v.pc \in {"away", "idle"}  BY DEF Away
  <2>3. KnownMails(v, box[a], arrived[a])  BY <1>3, <2>2 DEF KnownMails
  <2> QED BY <1>1, <2>1, <2>3, KnownStep
<1>5. CASE Notify(a)
  <2>1. PICK v : v = [w EXCEPT !.pc = "idle", !.count = 0, !.notices = <<>>]  OBVIOUS
  <2>2. watch' = [watch EXCEPT ![a] = v]  BY <1>2, <1>3, <1>5, <2>1 DEF Notify
  <2>3. v.notices = <<>> /\ v.count = 0 /\ v.pc = "idle"  BY <1>3, <2>1 DEF IsWatch, Parts
  <2>4. KnownMails(v, box[a], arrived[a])  BY <1>3, <2>3 DEF KnownMails
  <2> QED BY <1>1, <2>2, <2>4, KnownStep
<1>6. ASSUME NEW sends \in BOOLEAN, Examine(a, sends)
      PROVE  \A b \in Mailboxes : KnownMails(watch[b], box[b], arrived[b])'
  <2>1. PICK c : /\ c = ByUidNext(watch[a], arrived[a] + 1) \/ c = ByExists(watch[a], Len(box[a]))
                 /\ watch' = [watch EXCEPT ![a] = Counted(watch[a], c, a, "fetch")]
    BY <1>6 DEF Examine
  <2>2. KnownMails(Counted(watch[a], c, a, "fetch"), box[a], arrived[a])  BY <2>1, LookKnown
  <2> QED BY <1>1, <2>1, <2>2, KnownStep
<1>7. ASSUME NEW ok \in BOOLEAN, FetchNotices(a, ok)
      PROVE  \A b \in Mailboxes : KnownMails(watch[b], box[b], arrived[b])'
  <2>1. PICK n : n = IF ok THEN Notices(a, Newest(box[a], Least(watch[a].count, NoticeCap))) ELSE <<>>
    OBVIOUS
  <2>2. PICK v : v = [w EXCEPT !.pc = "notify", !.notices = n]  OBVIOUS
  <2>3. watch' = [watch EXCEPT ![a] = v] /\ w.pc = "fetch"
    BY <1>2, <1>3, <1>7, <2>1, <2>2 DEF FetchNotices
  <2>4. v.notices = n /\ v.count = w.count /\ v.pc = "notify"  BY <1>3, <2>2 DEF IsWatch, Parts
  <2>5. n \in Seq(1 .. arrived[a])
    <3>1. Least(watch[a].count, NoticeCap) \in Nat
      BY <1>2, <1>3, NoticeAssumption DEF KnownMails, Least
    <3>2. box[a] \in Seq(1 .. arrived[a])  BY <1>3 DEF KnownMails
    <3>3. Notices(a, Newest(box[a], Least(watch[a].count, NoticeCap))) \in Seq(1 .. arrived[a])
      BY <3>1, <3>2, NewestType, NoticesType
    <3>4. CASE ok  BY <2>1, <3>3, <3>4
    <3>5. CASE ~ok
      <4>1. n = <<>>  BY <2>1, <3>5
      <4> QED BY <4>1
    <3> QED BY <3>4, <3>5
  <2>6. KnownMails(v, box[a], arrived[a])  BY <1>3, <2>3, <2>4, <2>5 DEF KnownMails
  <2> QED BY <1>1, <2>3, <2>6, KnownStep
<1>8. ASSUME NEW failed, PollMaildrop(a, failed)
      PROVE  \A b \in Mailboxes : KnownMails(watch[b], box[b], arrived[b])'
  <2>1. PICK c : c = ByExists(watch[a], Len(box[a]))  OBVIOUS
  <2>2. PICK newest : newest = Newest(box[a], Least(c.count, NoticeCap))  OBVIOUS
  <2>3. PICK n : n = Notices(a, Retain(newest, failed))  OBVIOUS
  <2>4. PICK u : u = Counted(watch[a], c, a, "notify")  OBVIOUS
  <2>5. PICK v : v = [u EXCEPT !.notices = n]  OBVIOUS
  <2>6. watch' = [watch EXCEPT ![a] = v]
    BY <1>8, <2>1, <2>2, <2>3, <2>4, <2>5 DEF PollMaildrop
  <2>7. KnownMails(u, box[a], arrived[a]) /\ c.count \in Nat  BY <2>1, <2>4, LookKnown
  <2>8. IsWatch(u)  BY <2>1, <2>4, LookCounts DEF NoticeInv
  <2>9. v.notices = n /\ v.count = u.count /\ v.pc = u.pc  BY <2>5, <2>8 DEF IsWatch, Parts
  <2>10. n \in Seq(1 .. arrived[a])
    <3>1. Least(c.count, NoticeCap) \in Nat  BY <2>7, NoticeAssumption DEF Least
    <3>2. newest \in Seq(1 .. arrived[a])  BY <2>2, <2>7, <3>1, NewestType DEF KnownMails
    <3> QED BY <2>3, <3>2, RetainType, NoticesType
  <2>11. KnownMails(v, box[a], arrived[a])  BY <2>7, <2>9, <2>10 DEF KnownMails
  <2> QED BY <1>1, <2>6, <2>11, KnownStep
<1> QED BY <1>4, <1>5, <1>6, <1>7, <1>8 DEF Watcher

LEMMA ServerKnows ==
    ASSUME NoticeInv, NEW a \in Mailboxes, Server(a)
    PROVE  \A b \in Mailboxes : KnownMails(watch[b], box[b], arrived[b])'
<1> SUFFICES ASSUME NEW b \in Mailboxes PROVE KnownMails(watch[b], box[b], arrived[b])'  OBVIOUS
<1>1. /\ KnownMails(watch[b], box[b], arrived[b]) /\ arrived \in [Mailboxes -> Nat]
      /\ box = [m \in Mailboxes |-> box[m]]
  BY DEF NoticeInv, CountInv
<1>2. CASE Arrive(a)
  <2>1. /\ arrived' = [arrived EXCEPT ![a] = @ + 1] /\ watch' = watch
        /\ box' = [box EXCEPT ![a] = Append(@, arrived[a] + 1)]
    BY <1>2 DEF Arrive
  <2>2. CASE b # a
    <3>1. box'[b] = box[b] /\ arrived'[b] = arrived[b]  BY <1>1, <2>1, <2>2
    <3> QED BY <1>1, <2>1, <3>1
  <2>3. CASE b = a
    <3>1. PICK k, s, n : k = arrived[b] /\ s = box[b] /\ n = watch[b].notices  OBVIOUS
    <3>2. k \in Nat /\ arrived'[b] = k + 1 /\ box'[b] = Append(s, k + 1)
      BY <1>1, <2>1, <2>3, <3>1
    <3>3. 1 .. k \subseteq 1 .. k + 1 /\ k + 1 \in 1 .. k + 1  BY <3>2
    <3>4. s \in Seq(1 .. k + 1) /\ n \in Seq(1 .. k + 1)
      BY <1>1, <3>1, <3>3, SeqMonotonic DEF KnownMails
    <3>5. box'[b] \in Seq(1 .. k + 1)  BY <3>2, <3>3, <3>4, AppendProperties
    <3> QED BY <1>1, <2>1, <3>1, <3>2, <3>4, <3>5 DEF KnownMails
  <2> QED BY <2>2, <2>3
<1>3. CASE \E i \in 1 .. MaxMail : Expunge(a, i)
  <2>1. PICK i \in 1 .. Len(box[a]) :
          arrived' = arrived /\ watch' = watch /\ box' = [box EXCEPT ![a] = RemoveAt(@, i)]
    BY <1>3 DEF Expunge
  <2>2. box'[b] \in Seq(1 .. arrived[b])
    <3>1. box[b] \in Seq(1 .. arrived[b])  BY <1>1 DEF KnownMails
    <3>2. box'[b] = IF b = a THEN RemoveAt(box[a], i) ELSE box[b]  BY <1>1, <2>1
    <3> QED BY <3>1, <3>2, RemovedType
  <2> QED BY <1>1, <2>1, <2>2 DEF KnownMails
<1> QED BY <1>2, <1>3 DEF Server

LEMMA NoticeStays == NoticeInv /\ [NoticeNext]_noticeVars => NoticeInv'
<1> SUFFICES ASSUME NoticeInv, [NoticeNext]_noticeVars PROVE NoticeInv'  OBVIOUS
<1>1. CountInv'  BY StepCounts DEF NoticeInv
<1>2. ASSUME NEW a \in Mailboxes, Server(a) PROVE NoticeInv'
  <2>1. UNCHANGED <<platform, banners, pending, targets, pulling, answer, opened>>
    BY <1>2 DEF Server, Arrive, Expunge, appVars, windowVars
  <2> QED BY <1>1, <1>2, <2>1, OthersBanner, ServerKnows DEF NoticeInv
<1>3. ASSUME NEW a \in Mailboxes, Watcher(a) PROVE NoticeInv'
  <2>1. CASE Notify(a)  BY <1>1, <1>3, <2>1, NotifyBanner, WatcherKnows DEF NoticeInv
  <2>2. CASE ~Notify(a)
    <3>1. UNCHANGED <<platform, banners, pending, targets, pulling, answer, opened>>
      BY <1>3, <2>2 DEF Watcher, StartWatch, LeaveWatch, Examine, FetchNotices, PollMaildrop,
                        appVars, windowVars
    <3> QED BY <1>1, <1>3, <3>1, OthersBanner, WatcherKnows DEF NoticeInv
  <2> QED BY <2>1, <2>2
<1>4. ASSUME UNCHANGED <<box, arrived, watch>>
      PROVE  \A a \in Mailboxes : KnownMails(watch[a], box[a], arrived[a])'
  BY <1>4 DEF NoticeInv, KnownMails
<1>5. CASE Window
  <2>1. UNCHANGED <<box, arrived, watch>>
    BY <1>5 DEF Window, Focus, Blur, Take, Open, Expire, SetNotify, Click, mailVars
  <2> QED BY <1>1, <1>4, <1>5, <2>1, WindowBanner DEF NoticeInv
<1>6. CASE UNCHANGED noticeVars \/ \E a \in Mailboxes : ListAccount(a)
  <2>1. UNCHANGED <<box, arrived, watch, platform, banners, pending, targets, pulling, answer, opened>>
    BY <1>6 DEF ListAccount, noticeVars, mailVars, appVars, windowVars
  <2> QED BY <1>1, <1>4, <2>1, OthersBanner DEF NoticeInv
<1> QED BY <1>2, <1>3, <1>5, <1>6 DEF NoticeNext

(***************************************************************************)
(* NoticeTypeOK for any accounts, platform, numbers of mails and banners:  *)
(* a notice is about a mail that has arrived, the window opens the mail of *)
(* a banner that was shown, never the same one twice, and where showing a  *)
(* banner records its mail never an older one after a newer one            *)
(* (notify.rs, take_pending_notification_target; mac_notify.rs).           *)
(***************************************************************************)
THEOREM BannersOpenOnce == NoticeSpec => []NoticeTypeOK
<1>1. NoticeInit => NoticeInv
  <2> SUFFICES ASSUME NoticeInit PROVE NoticeInv  OBVIOUS
  <2>1. CountInv  BY InitCounts
  <2>2. PICK e : e = <<>>  OBVIOUS
  <2>3. \A S : e \in Seq(S) /\ Len(e) = 0  BY <2>2
  <2>4. /\ banners = e /\ pending = e /\ targets = {} /\ opened = e /\ Due = 0 /\ ToldBanner = 0
    BY <2>2 DEF NoticeInit, Due, ToldBanner
  <2>5. InLine(0, {}, 0, 0, e)  BY <2>3 DEF InLine
  <2>6. BannerInv  BY <2>2, <2>3, <2>4, <2>5 DEF BannerInv
  <2>7. ASSUME NEW a \in Mailboxes PROVE KnownMails(watch[a], box[a], arrived[a])
    <3>1. box[a] = e /\ watch[a] = Away  BY <2>2 DEF NoticeInit
    <3>2. Away.notices = e /\ Away.count = 0 /\ Away.pc = "away"  BY <2>2 DEF Away
    <3> QED BY <2>3, <3>1, <3>2 DEF KnownMails
  <2> QED BY <2>1, <2>6, <2>7 DEF NoticeInv
<1>2. NoticeInv => NoticeTypeOK
  <2> SUFFICES ASSUME NoticeInv PROVE NoticeTypeOK  OBVIOUS
  <2>1. InLine(Len(banners), targets, Due, ToldBanner, opened)  BY DEF NoticeInv, BannerInv
  <2>2. ASSUME NEW a \in Mailboxes
        PROVE  /\ watch[a].pc \in {"away", "idle", "fetch", "notify"}
               /\ \A i \in 1 .. Len(watch[a].notices) : watch[a].notices[i] \in 1 .. arrived[a]
               /\ watch[a].pc = "notify" => watch[a].count > 0
    BY ElementOfSeq DEF NoticeInv, KnownMails
  <2>3. pulling = "answered" => answer \in 0 .. Len(banners)  BY <2>1 DEF InLine, ToldBanner
  <2>4. /\ targets \subseteq 1 .. Len(banners)
        /\ \A i \in 1 .. Len(opened) : opened[i] \in 1 .. Len(banners)
        /\ \A i, j \in 1 .. Len(opened) :
            i < j => opened[i] # opened[j] /\ (platform # "mac" => opened[i] < opened[j])
    BY <2>1 DEF InLine, Before
  <2> QED BY <2>2, <2>3, <2>4 DEF NoticeTypeOK
<1> QED BY <1>1, <1>2, NoticeStays, PTL DEF NoticeSpec

-----------------------------------------------------------------------------
(* The mail list.                                                          *)

(***************************************************************************)
(* What keeps the list right: a request that is current was begun for the  *)
(* view that is drawn, or by a command that was slower than the user.      *)
(***************************************************************************)
OfDrawn == \A q \in inFlight : q.current /\ ~q.stray => q.view = drawn

ListInv == ListTypeOK /\ LoadingAnswered /\ OfDrawn

-----------------------------------------------------------------------------
\* A new request is the only current one, and well formed.
LEMMA BeginsRequest ==
    ASSUME inFlight \subseteq ListRequest,
           NEW kind \in {"load", "more"}, NEW v \in Views, NEW at \in {"cached", "older"},
           NEW stray \in BOOLEAN, BeginRequest(kind, v, at, stray)
    PROVE  /\ inFlight' \subseteq ListRequest
           /\ \A q \in inFlight' : q.current => q.view = v /\ q.stray = stray
           /\ \E q \in inFlight' : q.current /\ q.at = at
<1> DEFINE new == [kind |-> kind, view |-> v, current |-> TRUE, stray |-> stray, at |-> at]
<1>1. new \in ListRequest /\ new.current /\ new.view = v /\ new.stray = stray /\ new.at = at
  BY DEF ListRequest
<1>2. ASSUME NEW q \in Superseded PROVE q \in ListRequest /\ ~q.current
  <2>1. PICK p \in inFlight : q = [p EXCEPT !.current = FALSE]  BY <1>2 DEF Superseded
  <2>2. p \in ListRequest  OBVIOUS
  <2> QED BY <2>1, <2>2 DEF ListRequest
<1>3. inFlight' = Superseded \cup {new}  BY DEF BeginRequest
<1> QED BY <1>1, <1>2, <1>3

\* An answer after which the request q goes on, or is over, begins no request.
LEMMA AnswersRequest ==
    ASSUME inFlight \subseteq ListRequest, NEW q \in inFlight,
           Over(q) \/ \E at \in {"sync", "again", "older", "list", "last"} : GoOn(q, at)
    PROVE  /\ inFlight' \subseteq ListRequest
           /\ \A p \in inFlight' : \E o \in inFlight :
                p.current = o.current /\ p.stray = o.stray /\ p.view = o.view
           /\ \A p \in inFlight : p # q => p \in inFlight'
<1>1. CASE Over(q)  BY <1>1 DEF Over
<1>2. ASSUME NEW at \in {"sync", "again", "older", "list", "last"}, GoOn(q, at)
      PROVE  /\ inFlight' \subseteq ListRequest
             /\ \A p \in inFlight' : \E o \in inFlight :
                  p.current = o.current /\ p.stray = o.stray /\ p.view = o.view
             /\ \A p \in inFlight : p # q => p \in inFlight'
  <2> DEFINE n == [q EXCEPT !.at = at]
  <2>1. q \in ListRequest  OBVIOUS
  <2>2. n \in ListRequest /\ n.current = q.current /\ n.stray = q.stray /\ n.view = q.view
    BY <2>1 DEF ListRequest
  <2>3. inFlight' = (inFlight \ {q}) \cup {n}  BY <1>2 DEF GoOn
  <2> QED BY <2>2, <2>3
<1> QED BY <1>1, <1>2

-----------------------------------------------------------------------------
\* The steps of the user.
LEMMA ListUserStep == ListInv /\ ListUser => ListInv'
<1> SUFFICES ASSUME ListInv, ListUser PROVE ListInv'  OBVIOUS
<1> USE DEF ListInv
<1>1. ASSUME NEW v \in Views, SelectView(v) PROVE ListInv'
  <2>1. /\ inFlight' \subseteq ListRequest
        /\ \A q \in inFlight' : q.current => q.view = v /\ q.stray = FALSE
        /\ \E q \in inFlight' : q.current /\ q.at = "cached"
    BY <1>1, BeginsRequest DEF SelectView, ListTypeOK
  <2> QED BY <1>1, <2>1 DEF SelectView, ListTypeOK, LoadingAnswered, OfDrawn
<1>2. ASSUME NEW v \in Views, Leave(v) PROVE ListInv'
  BY <1>2 DEF Leave, ListTypeOK, LoadingAnswered, OfDrawn, indicatorVars
<1>3. CASE Draw
  <2>1. /\ inFlight' \subseteq ListRequest
        /\ \A q \in inFlight' : q.current => q.view = folder /\ q.stray = FALSE
        /\ \E q \in inFlight' : q.current /\ q.at = "cached"
    BY <1>3, BeginsRequest DEF Draw, ListTypeOK
  <2> QED BY <1>3, <2>1 DEF Draw, ListTypeOK, LoadingAnswered, OfDrawn
<1>4. ASSUME NEW v \in Views, LoadMessages(v), UNCHANGED notice, deed' \in {deed, Nowhere}
      PROVE  ListInv'
  <2> DEFINE stray == {folder, drawn} # {v}
  <2>1. stray \in BOOLEAN  OBVIOUS
  <2>2. BeginRequest("load", v, "cached", stray)  BY <1>4 DEF LoadMessages
  <2>3. /\ inFlight' \subseteq ListRequest
        /\ \A q \in inFlight' : q.current => q.view = v /\ q.stray = stray
        /\ \E q \in inFlight' : q.current /\ q.at = "cached"
    <3> HIDE DEF stray
    <3> QED BY <2>1, <2>2, BeginsRequest DEF ListTypeOK
  <2>4. ~stray => drawn = v  OBVIOUS
  <2> HIDE DEF stray
  <2> QED BY <1>4, <2>3, <2>4 DEF LoadMessages, ListTypeOK, LoadingAnswered, OfDrawn, shownVars
<1>5. CASE Refresh  BY <1>5, <1>4 DEF Refresh, ListTypeOK
<1>6. CASE LoadMore
  <2>1. drawn \in Views /\ BeginRequest("more", drawn, "older", FALSE)
    BY <1>6 DEF LoadMore, ListTypeOK
  <2>2. /\ inFlight' \subseteq ListRequest
        /\ \A q \in inFlight' : q.current => q.view = drawn /\ q.stray = FALSE
    BY <2>1, BeginsRequest DEF ListTypeOK
  <2> QED BY <1>6, <2>2 DEF LoadMore, ListTypeOK, LoadingAnswered, OfDrawn, shownVars
<1>7. CASE SoftRefresh
  <2> DEFINE n == [kind |-> "soft", view |-> drawn, current |-> TRUE, stray |-> FALSE, at |-> "last"]
  <2>1. n \in ListRequest /\ n.view = drawn  BY <1>7 DEF SoftRefresh, ListTypeOK, ListRequest
  <2>2. inFlight' = inFlight \cup {n}  BY <1>7 DEF SoftRefresh
  <2> HIDE DEF n
  <2> QED BY <1>7, <2>1, <2>2
      DEF SoftRefresh, ListTypeOK, LoadingAnswered, OfDrawn, shownVars, indicatorVars
<1>8. CASE Act \/ ActFails
  BY <1>8 DEF Act, ActFails, ListTypeOK, LoadingAnswered, OfDrawn, shownVars, indicatorVars
<1>9. CASE Acted  BY <1>9, <1>4 DEF Acted, ListTypeOK
<1> QED BY <1>1, <1>2, <1>3, <1>5, <1>6, <1>7, <1>8, <1>9 DEF ListUser

\* The answers; none but that to the first reading ends one that is waited for.
LEMMA ListAnswerStep ==
    ASSUME ListInv, NEW q \in inFlight, ListAnswer(q)
    PROVE  ListInv'
<1> USE DEF ListInv
<1>1. q \in ListRequest  BY DEF ListTypeOK
<1>2. Over(q) \/ \E at \in {"sync", "again", "older", "list", "last"} : GoOn(q, at)
  BY DEF ListAnswer, TooLate, Older, Cached, Synced, ReadAgain, OlderListed, LastListed,
         MoreFetched, MoreListed
<1> DEFINE Kept ==
      /\ UNCHANGED <<folder, drawn, deed, notice>>
      /\ list' \in {list, q.view}
      /\ loading' \in BOOLEAN /\ syncing' \in BOOLEAN /\ loadingMore' \in BOOLEAN
      /\ loading' => loading /\ ~(q.current /\ q.at = "cached")
<1>3. Kept
  <2> USE DEF ListTypeOK, shownVars, indicatorVars, Waits, Show
  <2>1. CASE TooLate(q)  BY <2>1 DEF TooLate
  <2>2. CASE Older(q)  BY <2>2 DEF Older
  <2>3. ASSUME NEW ok \in BOOLEAN, Cached(q, ok) PROVE Kept  BY <2>3 DEF Cached
  <2>4. ASSUME NEW ok \in BOOLEAN, Synced(q, ok) PROVE Kept
    <3>1. syncing' \in {syncing, FALSE}  BY <2>4 DEF Synced
    <3>2. UNCHANGED <<folder, drawn, list, deed, notice, loading, loadingMore>> /\ q.at # "cached"
      BY <2>4 DEF Synced
    <3> QED BY <3>1, <3>2
  <2>5. ASSUME NEW ok \in BOOLEAN, ReadAgain(q, ok) PROVE Kept  BY <2>5 DEF ReadAgain
  <2>6. ASSUME NEW ok \in BOOLEAN, OlderListed(q, ok) \/ LastListed(q, ok) PROVE Kept
    BY <2>6 DEF OlderListed, LastListed
  <2>7. ASSUME NEW ok \in BOOLEAN, MoreFetched(q, ok) PROVE Kept
    <3>1. loadingMore' \in {loadingMore, FALSE}  BY <2>7 DEF MoreFetched
    <3>2. UNCHANGED <<folder, drawn, list, deed, notice, loading, syncing>> /\ q.at # "cached"
      BY <2>7 DEF MoreFetched
    <3> QED BY <3>1, <3>2
  <2>8. ASSUME NEW ok \in BOOLEAN, MoreListed(q, ok) PROVE Kept  BY <2>8 DEF MoreListed
  <2> QED BY <2>1, <2>2, <2>3, <2>4, <2>5, <2>6, <2>7, <2>8 DEF ListAnswer
<1>4. /\ inFlight' \subseteq ListRequest
      /\ \A p \in inFlight' : \E o \in inFlight :
            p.current = o.current /\ p.stray = o.stray /\ p.view = o.view
      /\ \A p \in inFlight : p # q => p \in inFlight'
  BY <1>2, AnswersRequest DEF ListTypeOK
<1>5. q.view \in Views  BY <1>1 DEF ListRequest
<1>6. ListTypeOK'  BY <1>3, <1>4, <1>5 DEF ListTypeOK
<1>7. LoadingAnswered'  BY <1>3, <1>4 DEF LoadingAnswered
<1>8. OfDrawn'  BY <1>3, <1>4 DEF OfDrawn
<1> QED BY <1>6, <1>7, <1>8

\* The opening of a notification.
LEMMA ListNoticeStep == ListInv /\ ListNotice => ListInv'
<1> SUFFICES ASSUME ListInv, ListNotice PROVE ListInv'  OBVIOUS
<1> USE DEF ListInv
<1>1. ASSUME NEW v \in Views, OpenNotification(v) PROVE ListInv'
  BY <1>1 DEF OpenNotification, Opening, ListTypeOK, LoadingAnswered, OfDrawn
<1>4. ASSUME NEW v \in Views, Relocate(v) PROVE ListInv'
  <2>1. notice.view \in Views /\ notice.from \in Views
    BY <1>4 DEF Relocate, NoNotice, ListTypeOK
  <2> QED BY <1>4, <2>1 DEF Relocate, Opening, ListTypeOK, LoadingAnswered, OfDrawn
<1>2. CASE Locate \/ LocateMisses \/ LocateAgain
  BY <1>2 DEF Locate, LocateMisses, LocateAgain, Opening, NoNotice, ListTypeOK, LoadingAnswered,
              OfDrawn, indicatorVars
<1>3. CASE NoticeDone
  BY <1>3 DEF NoticeDone, NoNotice, ListTypeOK, LoadingAnswered, OfDrawn, shownVars
<1> QED BY <1>1, <1>2, <1>3, <1>4 DEF ListNotice

LEMMA ListInvStays == ListInv /\ [ListNext]_listVars => ListInv'
<1> SUFFICES ASSUME ListInv, [ListNext]_listVars PROVE ListInv'  OBVIOUS
<1>1. CASE UNCHANGED listVars
  BY <1>1 DEF ListInv, ListTypeOK, LoadingAnswered, OfDrawn, listVars, shownVars, indicatorVars
<1> QED BY <1>1, ListUserStep, ListAnswerStep, ListNoticeStep DEF ListNext

LEMMA ListInvHolds == ListSpec => []ListInv
<1>1. ListInit => ListInv
  BY DEF ListInit, ListInv, ListTypeOK, LoadingAnswered, OfDrawn
<1> QED BY <1>1, ListInvStays, PTL DEF ListSpec

(***************************************************************************)
(* LoadingAnswered: "reading the local cache" is never left on (App.tsx,   *)
(* loadMessages, openNotificationMail), however many requests, commands    *)
(* and changes of the view there are.                                      *)
(***************************************************************************)
THEOREM LoadingEnds == ListSpec => []LoadingAnswered
BY ListInvHolds, PTL DEF ListInv

\* The types of the list.
THEOREM ListTypes == ListSpec => []ListTypeOK
BY ListInvHolds, PTL DEF ListInv

(***************************************************************************)
(* StaleAnswersDropped, for any views and any number of requests: what     *)
(* LatestRequest promises (latestRequest.ts; loadCached), but for commands *)
(* and notifications that the user did not wait for.                       *)
(***************************************************************************)
THEOREM LateListsDropped == ListSpec => StaleAnswersDropped
<1>1. ListInv /\ [ListNext]_listVars =>
        [list' \notin {list, Nowhere} =>
            \/ list' \in {drawn, notice.view}
            \/ \E q \in inFlight : q.current /\ q.stray /\ q.view = list']_listVars
  <2> SUFFICES ASSUME ListInv, ListNext, list' \notin {list, Nowhere}
               PROVE  \/ list' \in {drawn, notice.view}
                      \/ \E q \in inFlight : q.current /\ q.stray /\ q.view = list'
    OBVIOUS
  <2>1. ~ListUser
    BY DEF ListUser, SelectView, Leave, Draw, Refresh, LoadMore, SoftRefresh, Act, Acted, ActFails,
           LoadMessages, shownVars
  <2>2. CASE ListNotice
    BY <2>2 DEF ListNotice, OpenNotification, Relocate, Locate, LocateMisses, LocateAgain,
                NoticeDone, shownVars
  <2>3. ASSUME NEW q \in inFlight, ListAnswer(q)
        PROVE  q.current /\ list' = q.view
    BY <2>3 DEF ListAnswer, TooLate, Older, Cached, Synced, ReadAgain, OlderListed, LastListed,
         MoreFetched, MoreListed, Show, shownVars
  <2> QED BY <2>1, <2>2, <2>3 DEF ListNext, ListInv, OfDrawn
<1> QED BY <1>1, ListInvHolds, PTL DEF ListSpec, StaleAnswersDropped

-----------------------------------------------------------------------------
(* The scenes together.                                                    *)

\* A behaviour of MCWindow is one of each module: what is proved of NewMail, OAuthLogin
\* and MailList holds there.
THEOREM ScenesKeepTheirSpecs == WindowSpec => NoticeSpec /\ LoginSpec /\ ListSpec
<1>1. WindowInit => NoticeInit /\ LoginInit /\ ListInit  BY DEF WindowInit
<1>2. [WindowNext]_windowSpecVars =>
          [NoticeNext]_noticeVars /\ [LoginNext]_oauthVars /\ [ListNext]_listVars
  BY DEF WindowNext, WatchNext, DialogNext, BrowseNext, windowSpecVars
<1> QED BY <1>1, <1>2, PTL DEF WindowSpec, NoticeSpec, LoginSpec, ListSpec

\* The types of the scenes, the order of the banners that are opened and the listeners
\* of the logins (WindowTypeOK).
THEOREM WindowTypes == WindowSpec => []WindowTypeOK
BY ScenesKeepTheirSpecs, BannersOpenOnce, OneListenerPerPort, ListTypes, PTL DEF WindowTypeOK

=============================================================================
