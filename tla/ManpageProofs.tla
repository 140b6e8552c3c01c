---------------------------- MODULE ManpageProofs ----------------------------
(* The page is shown in order for any number of paragraphs.  The permission  *)
(* to show is one token: it is in the hands of the thread that shows or has  *)
(* shown, or in the one semaphore that is up, and the number of paragraphs   *)
(* shown says which.                                                         *)
EXTENDS Manpage, TLAPS

Pc == {"start", "wait", "show", "post", "exited"}

TypeOK == /\ pid \in [Thread -> 0 .. NumParagraphs]
          /\ pc \in [Thread -> Pc]
          /\ sems \in [Paragraph -> Nat]
          /\ page \in Seq(Paragraph)

\* No two threads have one paragraph.
Dealt == \A t, u \in Thread : pid[t] = pid[u] /\ pid[t] # NumParagraphs => t = u

\* A thread has a paragraph once it has asked.
Asked == \A t \in Thread : pc[t] = "start" <=> pid[t] = NumParagraphs

\* What is on the page has been shown by its thread.
ShownBy == \A i \in 1 .. Len(page) :
               \E t \in Thread : pid[t] = i - 1 /\ pc[t] \in {"post", "exited"}

\* Thread t has the token.
Has(t) == pc[t] \in {"show", "post"}

Token ==
    /\ \A t \in Thread : pc[t] = "show" => pid[t] = Len(page)
    /\ \A t \in Thread : pc[t] = "post" => pid[t] = Len(page) - 1
    /\ \A t \in Thread : Has(t) => \A p \in Paragraph : sems[p] = 0
    /\ \A t, u \in Thread : Has(t) /\ Has(u) => t = u
    /\ \A p \in Paragraph : sems[p] # 0 => sems[p] = 1 /\ p = Len(page) - 1

IInv == TypeOK /\ Dealt /\ Asked /\ ShownBy /\ Token /\ InOrder

LEMMA Facts ==
    /\ NumParagraphs \in Nat /\ NumParagraphs > 0 /\ Thread = Paragraph
    /\ \A p \in Paragraph : p \in Nat /\ p < NumParagraphs
BY NumParagraphsAssumption DEF Paragraph, Thread

LEMMA InitIInv == Init => IInv
BY Facts DEF Init, IInv, TypeOK, Pc, Dealt, Asked, ShownBy, Token, Has, InOrder

LEMMA AskStep == ASSUME IInv, NEW t \in Thread, getParagraphId(t) PROVE IInv'
<1>1. PICK p \in Paragraph : (\A u \in Thread : pid[u] # p) /\ pid' = [pid EXCEPT ![t] = p]
  BY DEF getParagraphId
<1>2. pc[t] = "start" /\ pc' = [pc EXCEPT ![t] = "wait"] /\ sems' = sems /\ page' = page
  BY DEF getParagraphId, Go
<1>3. /\ pid'[t] = p /\ pc'[t] = "wait"
      /\ \A u \in Thread \ {t} : pid'[u] = pid[u] /\ pc'[u] = pc[u]
  BY <1>1, <1>2 DEF IInv, TypeOK
<1>4. TypeOK' BY <1>1, <1>2, Facts DEF IInv, TypeOK, Pc
<1>5. Dealt' /\ Asked' BY <1>1, <1>3, Facts DEF IInv, Dealt, Asked
<1>6. ShownBy' BY <1>2, <1>3 DEF IInv, ShownBy
<1>7. Token' /\ InOrder' BY <1>2, <1>3 DEF IInv, Token, Has, InOrder
<1> QED BY <1>4, <1>5, <1>6, <1>7 DEF IInv

\* A thread that is let through holds the token: the semaphore it found up was
\* the only one, and the first thread has come before anything was shown.
LEMMA WaitStep == ASSUME IInv, NEW t \in Thread, Wait(t) PROVE IInv'
<1>1. /\ pc[t] = "wait" /\ pc' = [pc EXCEPT ![t] = "show"] /\ pid' = pid /\ page' = page
      /\ pid[t] > 0 => sems[pid[t] - 1] > 0
      /\ sems' = IF pid[t] > 0 THEN [sems EXCEPT ![pid[t] - 1] = @ - 1] ELSE sems
  BY DEF Wait, Go
<1>2. pc'[t] = "show" /\ \A u \in Thread \ {t} : pc'[u] = pc[u]
  BY <1>1 DEF IInv, TypeOK
<1>3. pid[t] \in Paragraph /\ (pid[t] > 0 => pid[t] - 1 \in Paragraph)
  <2>1. pid[t] \in 0 .. NumParagraphs /\ pid[t] # NumParagraphs
    BY <1>1 DEF IInv, TypeOK, Asked
  <2> QED BY <2>1, Facts DEF Paragraph
<1>4. /\ pid[t] = Len(page) /\ \A u \in Thread : ~Has(u)
      /\ \A p \in Paragraph : sems'[p] = 0
  <2>1. CASE pid[t] > 0
    <3>0. PICK r \in Paragraph : r = pid[t] - 1 /\ sems[r] # 0 /\ sems[r] > 0
      BY <1>1, <1>3, <2>1 DEF IInv, TypeOK
    <3>1. /\ pid[t] - 1 \in Paragraph /\ sems[pid[t] - 1] = 1 /\ pid[t] = Len(page)
          /\ \A u \in Thread : ~Has(u)
      <4>1. sems[r] = 1 /\ r = Len(page) - 1 BY <3>0 DEF IInv, Token
      <4>2. \A u \in Thread : ~Has(u) BY <3>0 DEF IInv, Token
      <4>3. Len(page) \in Nat /\ pid[t] \in Nat BY <1>3, Facts DEF IInv, TypeOK
      <4> QED BY <3>0, <4>1, <4>2, <4>3
    <3>2. \A p \in Paragraph : sems[p] # 0 => p = pid[t] - 1
      BY <3>1, Facts DEF IInv, Token
    <3> QED BY <1>1, <2>1, <3>1, <3>2 DEF IInv, TypeOK
  <2>2. CASE pid[t] = 0
    <3>1. Len(page) = 0
      <4>1. ASSUME Len(page) # 0 PROVE FALSE
        <5>1. 1 \in 1 .. Len(page) BY <4>1 DEF IInv, TypeOK
        <5>2. PICK u \in Thread : pid[u] = 0 /\ pc[u] \in {"post", "exited"}
          BY <5>1 DEF IInv, ShownBy
        <5>3. u = t BY <2>2, <5>2, Facts DEF IInv, Dealt
        <5> QED BY <1>1, <5>2, <5>3
      <4> QED BY <4>1
    <3>2. \A p \in Paragraph : sems[p] = 0 BY <3>1, Facts DEF IInv, Token
    <3>3. ASSUME NEW u \in Thread, Has(u) PROVE FALSE
      <4>1. pid[u] = 0 BY <3>1, <3>3, Facts DEF IInv, TypeOK, Token, Has
      <4> QED BY <1>1, <2>2, <3>3, <4>1, Facts DEF IInv, Dealt, Has
    <3> QED BY <1>1, <2>2, <3>1, <3>2, <3>3
  <2> QED BY <1>3, <2>1, <2>2, Facts
<1>5. TypeOK'
  <2>1. sems' \in [Paragraph -> Nat]
    BY <1>1, <1>3, Facts DEF IInv, TypeOK
  <2> QED BY <1>1, <2>1 DEF IInv, TypeOK, Pc
<1>6. Dealt' /\ Asked' BY <1>1, <1>2 DEF IInv, Dealt, Asked
<1>7. ShownBy' BY <1>1, <1>2 DEF IInv, ShownBy
<1>8. Token' BY <1>1, <1>2, <1>4 DEF IInv, Token, Has
<1>9. InOrder' BY <1>1 DEF IInv, InOrder
<1> QED BY <1>5, <1>6, <1>7, <1>8, <1>9 DEF IInv

LEMMA ShowStep == ASSUME IInv, NEW t \in Thread, showParagraph(t) PROVE IInv'
<1>1. /\ pc[t] = "show" /\ pc' = [pc EXCEPT ![t] = "post"] /\ pid' = pid /\ sems' = sems
      /\ page' = Append(page, pid[t])
  BY DEF showParagraph, Go
<1>2. pc'[t] = "post" /\ \A u \in Thread \ {t} : pc'[u] = pc[u]
  BY <1>1 DEF IInv, TypeOK
<1>3. pid[t] = Len(page) /\ pid[t] \in Paragraph
  BY <1>1, Facts DEF IInv, TypeOK, Token, Asked, Paragraph
<1>4. /\ page' \in Seq(Paragraph) /\ Len(page') = Len(page) + 1 /\ Len(page) \in Nat
      /\ \A i \in 1 .. Len(page) : page'[i] = page[i]
      /\ page'[Len(page) + 1] = Len(page)
  BY <1>1, <1>3 DEF IInv, TypeOK
<1>5. TypeOK' BY <1>1, <1>4 DEF IInv, TypeOK, Pc
<1>6. Dealt' /\ Asked' BY <1>1, <1>2 DEF IInv, Dealt, Asked
<1>7. ShownBy'
  <2> SUFFICES ASSUME NEW i \in 1 .. Len(page) + 1
               PROVE  \E u \in Thread : pid'[u] = i - 1 /\ pc'[u] \in {"post", "exited"}
    BY <1>4 DEF ShownBy
  <2>1. CASE i = Len(page) + 1 BY <1>1, <1>2, <1>3, <1>4, <2>1
  <2>2. CASE i \in 1 .. Len(page) BY <1>1, <1>2, <2>2 DEF IInv, ShownBy
  <2> QED BY <1>4, <2>1, <2>2
<1>8. Token'
  <2>1. \A u \in Thread : Has(u) => u = t BY <1>1 DEF IInv, Token, Has
  <2>2. \A p \in Paragraph : sems[p] = 0 BY <1>1 DEF IInv, Token, Has
  <2> QED BY <1>1, <1>2, <1>3, <1>4, <2>1, <2>2 DEF Token, Has
<1>9. InOrder' BY <1>4 DEF IInv, InOrder
<1> QED BY <1>5, <1>6, <1>7, <1>8, <1>9 DEF IInv

LEMMA PostStep == ASSUME IInv, NEW t \in Thread, Post(t) PROVE IInv'
<1>1. /\ pc[t] = "post" /\ pc' = [pc EXCEPT ![t] = "exited"] /\ pid' = pid /\ page' = page
      /\ sems' = IF pid[t] < NumParagraphs - 1 THEN [sems EXCEPT ![pid[t]] = @ + 1] ELSE sems
  BY DEF Post, Go
<1>2. pc'[t] = "exited" /\ \A u \in Thread \ {t} : pc'[u] = pc[u]
  BY <1>1 DEF IInv, TypeOK
<1>3. /\ pid[t] = Len(page) - 1 /\ pid[t] \in Paragraph /\ \A p \in Paragraph : sems[p] = 0
      /\ \A u \in Thread : Has(u) => u = t
  <2>1. pid[t] \in 0 .. NumParagraphs /\ pid[t] # NumParagraphs
    BY <1>1 DEF IInv, TypeOK, Asked
  <2>2. pid[t] \in Paragraph BY <2>1, Facts DEF Paragraph
  <2>3. Has(t) BY <1>1 DEF Has
  <2> QED BY <1>1, <2>2, <2>3 DEF IInv, Token
<1>4. TypeOK' BY <1>1, <1>3 DEF IInv, TypeOK, Pc
<1>5. Dealt' /\ Asked' BY <1>1, <1>2 DEF IInv, Dealt, Asked
<1>6. ShownBy' BY <1>1, <1>2 DEF IInv, ShownBy
<1>7. Token'
  <2>1. \A p \in Paragraph : sems'[p] # 0 => sems'[p] = 1 /\ p = pid[t]
    BY <1>1, <1>3 DEF IInv, TypeOK
  <2> QED BY <1>1, <1>2, <1>3, <2>1 DEF Token, Has
<1>8. InOrder' BY <1>1 DEF IInv, InOrder
<1> QED BY <1>4, <1>5, <1>6, <1>7, <1>8 DEF IInv

LEMMA NextIInv == IInv /\ [Next]_vars => IInv'
<1> SUFFICES ASSUME IInv, [Next]_vars PROVE IInv'
  OBVIOUS
<1>1. CASE JoinAndDestroy \/ UNCHANGED vars
  BY <1>1 DEF JoinAndDestroy, vars, IInv, TypeOK, Dealt, Asked, ShownBy, Token, Has, InOrder
<1> QED BY <1>1, AskStep, WaitStep, ShowStep, PostStep DEF Next

\* The page is shown in order, for any number of paragraphs and whichever
\* thread is given each.
THEOREM PageInOrder == Spec => []InOrder
<1>1. IInv => InOrder BY DEF IInv
<1> QED BY <1>1, InitIInv, NextIInv, PTL DEF Spec
=============================================================================
