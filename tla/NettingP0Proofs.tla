-------------------------- MODULE NettingP0Proofs ---------------------------
(***************************************************************************)
(* What holds of the netting of every scenario, with any number of orders, *)
(* clients and days, any window and any values.                            *)
(***************************************************************************)
EXTENDS NettingP0, FiniteSetTheorems, TLAPS

Valores == [Ordens -> 0..ValorMaximo]

-----------------------------------------------------------------------------
(* Sums                                                                      *)

\* The units of a set of orders can be counted.
LEMMA SomaNat ==
    ASSUME NEW p \in Valores, NEW S \in SUBSET Ordens
    PROVE  IsFiniteSet(Unidades(p, S)) /\ Soma(p, S) \in Nat
<1>1. IsFiniteSet(S)
  BY FS_Subset, NettingAssumption DEF NettingAssumption
<1>2. IsFiniteSet(1..ValorMaximo)
  BY FS_Interval, NettingAssumption DEF NettingAssumption
<1>3. IsFiniteSet(S \X (1..ValorMaximo))
  BY <1>1, <1>2, FS_Product
<1>4. IsFiniteSet(Unidades(p, S))
  BY <1>3, FS_Subset DEF Unidades
<1> QED
  BY <1>4, FS_CardinalityType DEF Soma

\* Fewer orders hold less.
LEMMA SomaMonotone ==
    ASSUME NEW p \in Valores, NEW T \in SUBSET Ordens, NEW S \in SUBSET T
    PROVE  Soma(p, S) <= Soma(p, T)
<1>1. Unidades(p, S) \subseteq Unidades(p, T)
  BY DEF Unidades
<1>2. IsFiniteSet(Unidades(p, T))
  BY SomaNat
<1> QED
  BY <1>1, <1>2, FS_Subset DEF Soma

\* The sum over a set depends on the values in it.
LEMMA SomaSame ==
    ASSUME NEW p, NEW q, NEW S, \A o \in S : p[o] = q[o]
    PROVE  Soma(p, S) = Soma(q, S)
<1>1. Unidades(p, S) = Unidades(q, S)
  BY DEF Unidades
<1> QED
  BY <1>1 DEF Soma

\* Orders with nothing pending do not count.
LEMMA SomaPositive ==
    ASSUME NEW p \in Valores, NEW S \in SUBSET Ordens, NEW T \in SUBSET S,
           \A o \in S \ T : p[o] = 0
    PROVE  Soma(p, S) = Soma(p, T)
<1>1. ASSUME NEW u \in Unidades(p, S)
      PROVE  u \in Unidades(p, T)
  <2>1. u \in S \X (1..ValorMaximo) /\ u[2] <= p[u[1]]
    BY <1>1 DEF Unidades
  <2>2. u[1] \in S /\ u[2] \in 1..ValorMaximo /\ p[u[1]] \in Int
    BY <2>1 DEF Valores
  <2>3. ASSUME u[1] \notin T
        PROVE  FALSE
    <3>1. p[u[1]] = 0
      BY <2>2, <2>3
    <3>2. u[2] <= 0
      BY <2>1, <3>1
    <3> QED
      BY <2>2, <3>2, NettingAssumption DEF NettingAssumption
  <2> QED
    BY <2>1, <2>3 DEF Unidades
<1>2. Unidades(p, T) \subseteq Unidades(p, S)
  BY DEF Unidades
<1>3. Unidades(p, S) = Unidades(p, T)
  BY <1>1, <1>2
<1> QED
  BY <1>3 DEF Soma

\* A sum is zero when nothing is pending, and only then.
LEMMA SomaZero ==
    ASSUME NEW p \in Valores, NEW S \in SUBSET Ordens
    PROVE  Soma(p, S) = 0 <=> \A o \in S : p[o] = 0
<1>1. Soma(p, S) = 0 <=> Unidades(p, S) = {}
  BY SomaNat, FS_EmptySet DEF Soma
<1>2. ASSUME NEW o \in S, p[o] # 0
      PROVE  <<o, 1>> \in Unidades(p, S)
  BY <1>2, NettingAssumption DEF Unidades, Valores, NettingAssumption
<1>3. ASSUME \A o \in S : p[o] = 0, NEW u \in Unidades(p, S)
      PROVE  FALSE
  BY <1>3 DEF Unidades
<1> QED
  BY <1>1, <1>2, <1>3

\* One order adds its value.
LEMMA SomaSplit ==
    ASSUME NEW p \in Valores, NEW S \in SUBSET Ordens, NEW x \in S
    PROVE  Soma(p, S) = Soma(p, S \ {x}) + p[x]
<1> DEFINE A == Unidades(p, S \ {x})
           B == {x} \X (1..p[x])
<1>1. p[x] \in 0..ValorMaximo
  BY DEF Valores
<1>2. Unidades(p, S) = A \cup B
  <2>1. ASSUME NEW u \in S \X (1..ValorMaximo), u[2] <= p[u[1]]
        PROVE  u \in A \cup B
    <3>1. CASE u[1] = x
      BY <2>1, <3>1, <1>1
    <3>2. CASE u[1] # x
      BY <2>1, <3>2 DEF Unidades
    <3> QED
      BY <3>1, <3>2
  <2>2. ASSUME NEW u \in B
        PROVE  u \in Unidades(p, S)
    BY <1>1, NettingAssumption DEF Unidades, NettingAssumption
  <2>3. A \subseteq Unidades(p, S)
    BY DEF Unidades
  <2>4. Unidades(p, S) \subseteq A \cup B
    BY <2>1 DEF Unidades
  <2> QED
    BY <2>2, <2>3, <2>4
<1>3. A \cap B = {}
  BY DEF Unidades
<1>4. IsFiniteSet(A) /\ Cardinality(A) \in Nat
  BY SomaNat DEF Soma
<1>5. IsFiniteSet({x}) /\ Cardinality({x}) = 1
  BY FS_Singleton
<1>6. IsFiniteSet(1..p[x]) /\ Cardinality(1..p[x]) = p[x]
  <2>1. p[x] \in Nat
    BY <1>1, NettingAssumption DEF NettingAssumption
  <2>2. /\ IsFiniteSet(1..p[x])
        /\ Cardinality(1..p[x]) = IF 1 > p[x] THEN 0 ELSE p[x] - 1 + 1
    BY <2>1, FS_Interval
  <2> QED
    BY <2>1, <2>2
<1>7. IsFiniteSet(B) /\ Cardinality(B) = p[x]
  <2>1. IsFiniteSet(B) /\ Cardinality(B) = Cardinality({x}) * Cardinality(1..p[x])
    BY <1>5, <1>6, FS_Product
  <2> QED
    BY <2>1, <1>1, <1>5, <1>6
<1>8. Cardinality(A \cup B) = Cardinality(A) + Cardinality(B)
  <2> HIDE DEF A, B
  <2>1. Cardinality(A \cup B) = Cardinality(A) + Cardinality(B) - Cardinality(A \cap B)
    BY <1>4, <1>7, FS_Union
  <2> QED
    BY <2>1, <1>1, <1>3, <1>4, <1>7, FS_EmptySet
<1> QED
  BY <1>2, <1>7, <1>8 DEF Soma

\* When one value changes, the sum changes by as much.
LEMMA SomaUpdate ==
    ASSUME NEW p \in Valores, NEW q \in Valores, NEW S \in SUBSET Ordens, NEW x \in S,
           \A o \in S \ {x} : q[o] = p[o]
    PROVE  Soma(q, S) + p[x] = Soma(p, S) + q[x]
<1>1. Soma(q, S \ {x}) = Soma(p, S \ {x})
  BY SomaSame
<1>2. Soma(p, S) = Soma(p, S \ {x}) + p[x] /\ Soma(q, S) = Soma(q, S \ {x}) + q[x]
  BY SomaSplit
<1>3. Soma(p, S \ {x}) \in Nat /\ p[x] \in Nat /\ q[x] \in Nat
  BY SomaNat, NettingAssumption DEF Valores, NettingAssumption
<1> QED
  BY <1>1, <1>2, <1>3

-----------------------------------------------------------------------------
(* The inductive invariant                                                   *)

Conhecida(o) == ordem[o].conhecida < dia \/ (ordem[o].conhecida = dia /\ pc # "dia")

\* The batch holds known orders that are not yet overdue, and all those with
\* something pending.
Batch ==
    \A o \in Ordens :
        /\ o \in abertas => Conhecida(o) /\ ordem[o].limite >= dia
        /\ Conhecida(o) /\ o \notin abertas => pendente[o] = 0

\* Where the function is in the horizon; nothing was raised.
Control ==
    /\ pc \in {"dia", "casa", "consome", "fecha"} => dia <= HorizonteDias
    /\ pc \in {"confere", "fim"} => dia = HorizonteDias + 1 /\ abertas = {}
    /\ pc # "falhou"
    /\ WindowHolds
    /\ (pc = "consome" /\ casamento.cliente = Nenhum) \/ pc = "fecha" => clientes = {}

\* The match under way: what the queue still has to give fits in it; while it has
\* something to give it holds every order with something left; and the match is as
\* large as one of its sides.
Match ==
    LET m   == casamento
        out == Soma(pendente, Fila(m.cliente, "OUT"))
        in  == Soma(pendente, Fila(m.cliente, "IN"))
    IN  pc = "consome" =>
          /\ m.fila \subseteq Fila(m.cliente, m.direcao)
          /\ m.restante > 0 => m.fila = Fila(m.cliente, m.direcao)
          /\ m.restante <= Soma(pendente, m.fila)
          /\ m.direcao = "OUT" => m.valor <= in /\ (out = m.restante \/ in = m.valor)
          /\ m.direcao = "IN" => out = 0 \/ in = m.restante

\* No client but the one being matched, and those still to be, has both sides open.
Sides ==
    \A c \in Clientes :
        pc \in {"casa", "consome"} /\ Fila(c, "OUT") # {} /\ Fila(c, "IN") # {} =>
          c \in clientes \/ (pc = "consome" /\ c = casamento.cliente)

Lado(direcao) == {o \in abertas : ordem[o].direcao = direcao}

\* What each side of the match has given short of the matched volume.
Falta(direcao) ==
    CASE pc # "consome" -> 0
      [] pc = "consome" /\ casamento.direcao = direcao -> casamento.restante
      [] pc = "consome" /\ casamento.direcao # direcao ->
           IF direcao = "IN" THEN casamento.valor ELSE 0

\* The books of the cycle: a side is what was matched of it and what is left of it.
Balance ==
    /\ pc \in {"casa", "consome", "fecha"} =>
         /\ Soma(pendente, Lado("OUT")) + ciclo.casado = ciclo.out + Falta("OUT")
         /\ Soma(pendente, Lado("IN")) + ciclo.casado = ciclo.in + Falta("IN")
    /\ pc = "fecha" \/ (pc = "consome" /\ casamento.cliente = Nenhum) =>
         ciclo.casado = Menor(ciclo.out, ciclo.in)

Casado ==
    [o \in Ordens |-> alocado[o]["INTRA_CLIENTE"] + alocado[o]["INTER_CLIENTE"]]

Todas(direcao) == {o \in Ordens : ordem[o].direcao = direcao}

\* The books of the whole run: both sides were matched alike.
Matched ==
    Soma(Casado, Todas("OUT")) + Falta("OUT") = Soma(Casado, Todas("IN")) + Falta("IN")

IInv ==
    /\ TypeOK /\ Conservation /\ DueExact
    /\ Batch /\ Control /\ Match /\ Sides /\ Balance /\ Matched
    /\ MatchedIsMinimum

-----------------------------------------------------------------------------
(* What the types say                                                        *)

\* The scenario is made of orders, known before they fall due.
LEMMA OrdemIs ==
    ASSUME TypeOK, NEW o \in Ordens
    PROVE  /\ ordem[o] \in Ordem /\ ordem[o].cliente \in Clientes
           /\ ordem[o].direcao \in Direcoes /\ ordem[o].valor \in 1..ValorMaximo
           /\ ordem[o].conhecida \in 0..HorizonteDias /\ ordem[o].limite \in Dias
           /\ ordem[o].conhecida \in Int /\ ordem[o].limite \in Int
           /\ ordem[o].conhecida <= ordem[o].limite
<1>1. ordem \in [Ordens -> Ordem] /\ ordem[o].conhecida <= ordem[o].limite
  BY NettingAssumption DEF TypeOK, NettingAssumption
<1>2. ordem[o] \in Ordem
  BY <1>1
<1>3. ordem[o].conhecida \in 0..HorizonteDias /\ ordem[o].limite \in Dias
  BY <1>2 DEF Ordem
<1>4. ordem[o].conhecida \in Int /\ ordem[o].limite \in Int
  BY <1>3 DEF Dias
<1> QED
  BY <1>1, <1>2, <1>3, <1>4 DEF Ordem

\* What is pending is a sum to be counted; the queues and sides are sets of orders.
LEMMA SetsAre ==
    ASSUME TypeOK
    PROVE  /\ pendente \in Valores
           /\ abertas \subseteq Ordens
           /\ \A c, d : Fila(c, d) \subseteq Ordens /\ Fila(c, d) \subseteq abertas
           /\ \A d : Lado(d) \subseteq Ordens /\ Todas(d) \subseteq Ordens
           /\ Vencidas \subseteq abertas /\ Saem \subseteq abertas
BY DEF TypeOK, Valores, Fila, FilaDe, Lado, Todas, Vencidas, Saem

\* Numbers of the constants.
LEMMA Numbers ==
    /\ HorizonteDias \in Nat /\ JanelaDias \in Nat /\ JanelaDias >= 1
    /\ ValorMaximo \in Nat /\ UltimoDia \in Nat /\ HorizonteDias <= UltimoDia
BY NettingAssumption DEF NettingAssumption

\* U is made of two batches that have no order in common.
Partem(U, S, T) == U = S \cup T /\ S \cap T = {}

\* The orders of S that a scenario c puts on a day.
Conta(c, S, d) == Cardinality({o \in S : c[o].limite = d})

\* Counts of orders due on a day, for two batches that have no order in common.
LEMMA ContaJoin ==
    ASSUME NEW c, NEW U, NEW S \in SUBSET Ordens, NEW T \in SUBSET Ordens,
           Partem(U, S, T), NEW d
    PROVE  /\ Conta(c, S, d) \in Nat /\ Conta(c, T, d) \in Nat
           /\ Conta(c, U, d) = Conta(c, S, d) + Conta(c, T, d)
<1> DEFINE A == {o \in S : c[o].limite = d}
           B == {o \in T : c[o].limite = d}
           C == {o \in U : c[o].limite = d}
<1>1. IsFiniteSet(Ordens)
  BY NettingAssumption DEF NettingAssumption
<1>2. IsFiniteSet(A) /\ IsFiniteSet(B)
  BY <1>1, FS_Subset
<1>3. Cardinality(A) \in Nat /\ Cardinality(B) \in Nat
  BY <1>2, FS_CardinalityType
<1>4. C = A \cup B /\ A \cap B = {}
  BY DEF Partem
<1>5. Cardinality(A \cup B) = Cardinality(A) + Cardinality(B) - Cardinality(A \cap B)
  <2> HIDE DEF A, B
  <2> QED
    BY <1>2, FS_Union
<1>6. Cardinality(C) = Cardinality(A) + Cardinality(B)
  <2>1. Cardinality(A \cap B) = 0
    BY <1>4, FS_EmptySet
  <2>2. Cardinality(C) = Cardinality(A \cup B)
    BY <1>4
  <2> HIDE DEF A, B, C
  <2> QED
    BY <1>3, <1>5, <2>1, <2>2
<1> QED
  BY <1>3, <1>6 DEF Conta

\* No order of a batch is due on a day whose count is zero.
LEMMA VencendoZero ==
    ASSUME NEW S \in SUBSET Ordens, NEW d, Vencendo(S, d) = 0
    PROVE  \A o \in S : ordem[o].limite # d
<1> DEFINE A == {o \in S : ordem[o].limite = d}
<1>1. IsFiniteSet(A)
  BY NettingAssumption, FS_Subset DEF NettingAssumption
<1>2. A = {}
  <2> HIDE DEF A
  <2>1. Cardinality(A) = 0
    BY DEF Vencendo, A
  <2> QED
    BY <1>1, <2>1, FS_EmptySet
<1> QED
  BY <1>2

\* The matched part of an order is a value.
LEMMA CasadoIs ==
    ASSUME TypeOK, Conservation
    PROVE  Casado \in Valores
<1> SUFFICES ASSUME NEW o \in Ordens
             PROVE  Casado[o] \in 0..ValorMaximo
  BY DEF Casado, Valores
<1>1. /\ alocado[o]["INTRA_CLIENTE"] \in Nat /\ alocado[o]["INTER_CLIENTE"] \in Nat
      /\ alocado[o]["REMETIDO"] \in Nat /\ pendente[o] \in 0..ValorMaximo
  BY DEF TypeOK, Tipos, Origens
<1>2. Total(o) + pendente[o] = ordem[o].valor /\ ordem[o].valor \in 1..ValorMaximo
  BY OrdemIs DEF Conservation
<1> QED
  BY <1>1, <1>2, Numbers DEF Total, Casado

-----------------------------------------------------------------------------
(* The day                                                                   *)

\* The orders that arrive were not in the batch, and are counted.
LEMMA Arrivals ==
    ASSUME IInv, Dia
    PROVE  /\ abertas' = abertas \cup Chegam /\ abertas' \subseteq Ordens
           /\ \A d \in Dias : vencem'[d] = Vencendo(abertas', d) /\ vencem'[d] \in Nat
           /\ vencem' = [d \in Dias |-> vencem'[d]]
           /\ \A o \in Ordens :
                o \in abertas' <=> o \in abertas \/ ordem[o].conhecida = dia
           /\ \A o \in abertas' : ordem[o].conhecida <= dia /\ ordem[o].limite >= dia
<1>1. /\ pc = "dia" /\ abertas' = abertas \cup Chegam
      /\ vencem' = [d \in Dias |-> vencem[d] + Vencendo(Chegam, d)]
  BY DEF Dia
<1>2. TypeOK /\ abertas \subseteq Ordens /\ Chegam \subseteq Ordens
  BY DEF IInv, TypeOK, Chegam
<1>3. \A o \in abertas : ordem[o].conhecida < dia /\ ordem[o].limite >= dia
  BY <1>1, <1>2 DEF IInv, Batch, Conhecida
<1>4. dia \in Int
  BY <1>2 DEF TypeOK
<1>5. Partem(abertas', abertas, Chegam)
  BY <1>1, <1>3, <1>4 DEF Chegam, Partem
<1>6. \A d \in Dias : vencem'[d] = Vencendo(abertas', d) /\ vencem'[d] \in Nat
  <2> SUFFICES ASSUME NEW d \in Dias
               PROVE  vencem'[d] = Vencendo(abertas', d) /\ vencem'[d] \in Nat
    OBVIOUS
  <2>1. vencem[d] = Vencendo(abertas, d) /\ vencem'[d] = vencem[d] + Vencendo(Chegam, d)
    BY <1>1 DEF IInv, DueExact
  <2>2. /\ Vencendo(abertas, d) \in Nat /\ Vencendo(Chegam, d) \in Nat
        /\ Vencendo(abertas', d) = Vencendo(abertas, d) + Vencendo(Chegam, d)
    <3>1. /\ Conta(ordem, abertas, d) \in Nat /\ Conta(ordem, Chegam, d) \in Nat
          /\ Conta(ordem, abertas', d) = Conta(ordem, abertas, d) + Conta(ordem, Chegam, d)
      BY <1>2, <1>5, ContaJoin
    <3> QED
      BY <3>1 DEF Conta, Vencendo
  <2> QED
    BY <1>1, <2>1, <2>2
<1>7. \A o \in Chegam : ordem[o].conhecida <= dia /\ ordem[o].limite >= dia
  BY <1>2, <1>4, OrdemIs DEF Chegam
<1> QED
  BY <1>1, <1>2, <1>3, <1>4, <1>6, <1>7, OrdemIs DEF Chegam

\* What a day does to the rest: it begins a cycle, or passes.
LEMMA DiaKeeps ==
    ASSUME IInv, Dia
    PROVE  IInv'
<1> DEFINE A == abertas \cup Chegam
           fecha == A # {} /\ DeveFechar(vencem'[dia] > 0)
<1>1. TypeOK /\ pendente \in Valores /\ A \subseteq Ordens /\ pc = "dia"
  BY SetsAre DEF IInv, Dia, Chegam
<1>2. /\ ordem' = ordem /\ pendente' = pendente /\ fechamento' = fechamento
      /\ casamento' = casamento /\ alocado' = alocado /\ ciclos' = ciclos
  BY DEF Dia
<1>3. /\ abertas' = A
      /\ \A d \in Dias : vencem'[d] = Vencendo(A, d)
      /\ vencem' \in [Dias -> Nat]
      /\ \A o \in Ordens : o \in A <=> o \in abertas \/ ordem[o].conhecida = dia
      /\ \A o \in A : ordem[o].conhecida <= dia /\ ordem[o].limite >= dia
  BY Arrivals
<1>4. dia \in Nat /\ dia <= HorizonteDias /\ dia \in Dias
  BY <1>1, Numbers DEF IInv, Control, TypeOK, Dias
<1>5. Conservation' /\ MatchedIsMinimum'
  BY <1>2 DEF IInv, Conservation, Total, MatchedIsMinimum
<1>6. DueExact'
  BY <1>2, <1>3 DEF DueExact, Vencendo
<1>7. CASE fecha
  <2>1. /\ pc' = "casa" /\ dia' = dia
        /\ clientes' = {c \in Clientes : FilaDe(A, c, "OUT") # {} /\ FilaDe(A, c, "IN") # {}}
        /\ ciclo' = [out |-> Bruto(A, "OUT"), in |-> Bruto(A, "IN"), casado |-> 0]
    BY <1>3, <1>7 DEF Dia
  <2>2. /\ Bruto(A, "OUT") = Soma(pendente, {o \in A : ordem[o].direcao = "OUT"})
        /\ Bruto(A, "IN") = Soma(pendente, {o \in A : ordem[o].direcao = "IN"})
        /\ Bruto(A, "OUT") \in Nat /\ Bruto(A, "IN") \in Nat
    BY <1>1, SomaNat DEF Bruto
  <2>3. TypeOK'
    BY <1>1, <1>2, <1>3, <2>1, <2>2 DEF TypeOK
  <2>4. Batch'
    BY <1>2, <1>3, <1>4, <2>1 DEF IInv, Batch, Conhecida
  <2>5. Control'
    BY <1>4, <2>1 DEF Control, WindowHolds
  <2>6. Match'
    BY <2>1 DEF Match
  <2>7. Sides'
    BY <1>2, <1>3, <2>1 DEF Sides, Fila, FilaDe
  <2>8. Balance'
    <3>1. /\ Soma(pendente, Lado("OUT"))' = Bruto(A, "OUT")
          /\ Soma(pendente, Lado("IN"))' = Bruto(A, "IN")
      BY <1>2, <1>3, <2>2 DEF Soma, Unidades, Lado
    <3>2. Falta("OUT")' = 0 /\ Falta("IN")' = 0
      BY <2>1 DEF Falta
    <3> QED
      BY <2>1, <2>2, <3>1, <3>2 DEF Balance
  <2>9. Matched'
    <3>1. Falta("OUT")' = Falta("OUT") /\ Falta("IN")' = Falta("IN")
      BY <1>1, <2>1 DEF Falta
    <3> QED
      BY <1>2, <3>1 DEF IInv, Matched, Casado, Todas, Soma, Unidades
  <2> QED
    BY <1>5, <1>6, <2>3, <2>4, <2>5, <2>6, <2>7, <2>8, <2>9 DEF IInv
<1>8. CASE ~fecha
  <2>1. /\ dia' = dia + 1 /\ pc' = IF dia = HorizonteDias THEN "confere" ELSE "dia"
        /\ clientes' = clientes /\ ciclo' = ciclo
    BY <1>3, <1>8 DEF Dia, ProximoDia
  <2>2. \A o \in A : ordem[o].limite # dia /\ dia - fechamento < JanelaDias /\ dia # HorizonteDias
    <3>1. SUFFICES ASSUME A # {}
                   PROVE  /\ \A o \in A : ordem[o].limite # dia
                          /\ dia - fechamento < JanelaDias /\ dia # HorizonteDias
      OBVIOUS
    <3>2. /\ ~(vencem'[dia] > 0) /\ ~(dia - fechamento >= JanelaDias)
          /\ dia # HorizonteDias
      BY <1>8, <3>1 DEF DeveFechar, JanelaCompleta
    <3>3. Vencendo(A, dia) = 0
      <4>1. vencem'[dia] \in Nat /\ vencem'[dia] = Vencendo(A, dia)
        BY <1>3, <1>4
      <4> QED
        BY <3>2, <4>1
    <3>4. fechamento \in Int
      BY <1>1 DEF TypeOK
    <3> QED
      BY <1>1, <1>4, <3>2, <3>3, <3>4, VencendoZero, Numbers
  <2>3. TypeOK'
    BY <1>1, <1>2, <1>3, <1>4, <2>1, Numbers DEF TypeOK
  <2>4. Batch'
    <3> SUFFICES ASSUME NEW o \in Ordens
                 PROVE  /\ o \in A => Conhecida(o)' /\ ordem[o].limite >= dia'
                        /\ Conhecida(o)' /\ o \notin A => pendente[o] = 0
      BY <1>2, <1>3 DEF Batch
    <3>1. ordem[o].conhecida \in 0..HorizonteDias /\ ordem[o].limite \in Int
      BY <1>1, OrdemIs
    <3>2. Conhecida(o)' <=> ordem[o].conhecida <= dia
      BY <1>2, <1>4, <2>1, <3>1, Numbers DEF Conhecida
    <3>3. o \in A => Conhecida(o)' /\ ordem[o].limite >= dia'
      BY <1>3, <1>4, <2>1, <2>2, <3>1, <3>2
    <3>4. ASSUME Conhecida(o)', o \notin A
          PROVE  pendente[o] = 0
      <4>1. Conhecida(o) /\ o \notin abertas
        BY <1>1, <1>3, <1>4, <3>1, <3>2, <3>4 DEF Conhecida
      <4> QED
        BY <4>1 DEF IInv, Batch
    <3> QED
      BY <3>3, <3>4
  <2>5. Control'
    BY <1>1, <1>2, <1>3, <1>4, <2>1, <2>2, Numbers DEF Control, WindowHolds, TypeOK
  <2>6. Match' /\ Sides'
    BY <2>1 DEF Match, Sides
  <2>7. Balance'
    BY <2>1 DEF Balance
  <2>8. Matched'
    <3>1. Falta("OUT")' = Falta("OUT") /\ Falta("IN")' = Falta("IN")
      BY <1>1, <2>1 DEF Falta
    <3> QED
      BY <1>2, <3>1 DEF IInv, Matched, Casado, Todas, Soma, Unidades
  <2> QED
    BY <1>5, <1>6, <2>3, <2>4, <2>5, <2>6, <2>7, <2>8 DEF IInv
<1> QED
  BY <1>7, <1>8

-----------------------------------------------------------------------------
(* The matches                                                               *)

\* A side holds what its queue of all the clients holds.
LEMMA SideIsQueue ==
    ASSUME TypeOK, NEW d
    PROVE  Soma(pendente, Lado(d)) = Soma(pendente, Fila(Nenhum, d))
<1>1. pendente \in Valores /\ Lado(d) \in SUBSET Ordens
  BY SetsAre
<1>2. Fila(Nenhum, d) \in SUBSET Lado(d)
  BY DEF Fila, FilaDe, Lado
<1>3. ASSUME NEW o \in Lado(d) \ Fila(Nenhum, d)
      PROVE  pendente[o] = 0
  <2>1. ~(pendente[o] > 0)
    BY <1>3 DEF Fila, FilaDe, Lado
  <2>2. pendente[o] \in 0..ValorMaximo
    BY <1>1, <1>3 DEF Valores
  <2> QED
    BY <2>1, <2>2, Numbers
<1> QED
  BY <1>1, <1>2, <1>3, SomaPositive

\* What the beginning of a match leaves: the volume fits both sides, and is one of them.
LEMMA ComecaKeeps ==
    ASSUME IInv, pc = "casa", NEW quem \in Clientes \cup {Nenhum}, Comeca(quem),
           clientes' = clientes \ {quem}, quem = Nenhum => clientes = {},
           UNCHANGED <<ordem, pendente, abertas, vencem, dia, fechamento, alocado, ciclos>>
    PROVE  IInv'
<1> DEFINE out == Soma(pendente, Fila(quem, "OUT"))
           in  == Soma(pendente, Fila(quem, "IN"))
           valor == Menor(out, in)
<1>1. /\ ordem' = ordem /\ pendente' = pendente /\ abertas' = abertas /\ vencem' = vencem
      /\ dia' = dia /\ fechamento' = fechamento /\ alocado' = alocado /\ ciclos' = ciclos
  OBVIOUS
<1>2. /\ casamento' = [cliente |-> quem, direcao |-> "OUT", fila |-> Fila(quem, "OUT"),
                       restante |-> valor, valor |-> valor]
      /\ ciclo' = [ciclo EXCEPT !.casado = @ + valor]
      /\ pc' = "consome"
  BY DEF Comeca
<1>3. TypeOK /\ pendente \in Valores /\ Fila(quem, "OUT") \in SUBSET Ordens
      /\ Fila(quem, "IN") \in SUBSET Ordens
  BY SetsAre DEF IInv
<1>4. out \in Nat /\ in \in Nat
  BY <1>3, SomaNat
<1>5. valor \in Nat /\ valor <= out /\ valor <= in /\ (valor = out \/ valor = in)
  BY <1>4 DEF Menor
<1>6. ciclo \in [out : Nat, in : Nat, casado : Nat]
  BY <1>3 DEF TypeOK
<1>7. ciclo'.out = ciclo.out /\ ciclo'.in = ciclo.in /\ ciclo'.casado = ciclo.casado + valor
  BY <1>2, <1>6
<1>8. \A c, d : Fila(c, d)' = Fila(c, d) /\ Lado(d)' = Lado(d)
  BY <1>1 DEF Fila, FilaDe, Lado
<1>10. /\ Soma(pendente', Fila(quem, "OUT")') = out
       /\ Soma(pendente', Fila(quem, "IN")') = in
       /\ Soma(pendente', Lado("OUT")') = Soma(pendente, Lado("OUT"))
       /\ Soma(pendente', Lado("IN")') = Soma(pendente, Lado("IN"))
  BY <1>1, <1>8
<1>11. TypeOK'
  <2>1. casamento' \in [cliente : Clientes \cup {Nenhum}, direcao : Direcoes,
                        fila : SUBSET Ordens, restante : Nat, valor : Nat]
    <3> HIDE DEF valor
    <3> QED
      BY <1>2, <1>3, <1>5 DEF Direcoes
  <2>2. ciclo' \in [out : Nat, in : Nat, casado : Nat]
    <3> HIDE DEF valor
    <3> QED
      BY <1>2, <1>5, <1>6
  <2> QED
    BY <1>1, <1>2, <1>3, <2>1, <2>2 DEF TypeOK
<1>12. Conservation' /\ MatchedIsMinimum'
  BY <1>1 DEF IInv, Conservation, Total, MatchedIsMinimum
<1>13. DueExact'
  BY <1>1 DEF IInv, DueExact, Vencendo
<1>14. Batch' /\ Control'
  BY <1>1, <1>2, <1>3 DEF IInv, Batch, Conhecida, Control, WindowHolds
<1>15. Match'
  <2>1. /\ casamento'.fila = Fila(quem, "OUT") /\ casamento'.cliente = quem
        /\ casamento'.restante = valor /\ casamento'.valor = valor
        /\ casamento'.direcao = "OUT"
    BY <1>2
  <2> HIDE DEF valor, out, in
  <2> QED
    BY <1>1, <1>4, <1>5, <1>8, <1>10, <2>1 DEF Match, out
<1>16. Sides'
  BY <1>1, <1>2, <1>8 DEF IInv, Sides
<1>17. Balance'
  <2>1. Falta("OUT")' = valor /\ Falta("IN")' = valor
    BY <1>2 DEF Falta
  <2>2. /\ Soma(pendente, Lado("OUT")) + ciclo.casado = ciclo.out
        /\ Soma(pendente, Lado("IN")) + ciclo.casado = ciclo.in
    <3>1. Falta("OUT") = 0 /\ Falta("IN") = 0
      BY DEF Falta
    <3> QED
      BY <1>6, <3>1 DEF IInv, Balance
  <2>3. Soma(pendente, Lado("OUT")) \in Nat /\ Soma(pendente, Lado("IN")) \in Nat
    BY <1>3, SetsAre, SomaNat
  <2>4. /\ Soma(pendente', Lado("OUT")') + ciclo'.casado = ciclo'.out + Falta("OUT")'
        /\ Soma(pendente', Lado("IN")') + ciclo'.casado = ciclo'.in + Falta("IN")'
    <3> HIDE DEF valor
    <3> QED
      BY <1>5, <1>6, <1>7, <1>10, <2>1, <2>2, <2>3
  <2>5. ASSUME quem = Nenhum
        PROVE  ciclo'.casado = Menor(ciclo'.out, ciclo'.in)
    <3>1. out = Soma(pendente, Lado("OUT")) /\ in = Soma(pendente, Lado("IN"))
      BY <1>3, <2>5, SideIsQueue
    <3>2. ciclo.out = out + ciclo.casado /\ ciclo.in = in + ciclo.casado
      BY <2>2, <3>1, <1>6
    <3> HIDE DEF out, in
    <3> QED
      BY <1>4, <1>6, <1>7, <3>2 DEF Menor
  <2> QED
    BY <1>2, <2>4, <2>5 DEF Balance
<1>18. Matched'
  <2>1. Falta("OUT")' = valor /\ Falta("IN")' = valor /\ Falta("OUT") = 0 /\ Falta("IN") = 0
    BY <1>2 DEF Falta
  <2>2. Casado' = Casado /\ \A d : Todas(d)' = Todas(d)
    BY <1>1 DEF Casado, Todas
  <2>3. Soma(Casado, Todas("OUT")) = Soma(Casado, Todas("IN"))
    <3>1. \A d : Soma(Casado, Todas(d)) \in Nat
      BY <1>3, SetsAre, CasadoIs, SomaNat DEF IInv
    <3> QED
      BY <2>1, <3>1 DEF IInv, Matched
  <2> QED
    BY <2>1, <2>2, <2>3 DEF Matched
<1> QED
  BY <1>11, <1>12, <1>13, <1>14, <1>15, <1>16, <1>17, <1>18 DEF IInv

\* A turn of the loop of _consumir_casamento for order o.
Gasta(o) ==
    /\ pc = "consome" /\ casamento.restante > 0 /\ o \in casamento.fila
    /\ pendente' = [pendente EXCEPT ![o] = @ - Usa(o)]
    /\ alocado' = [alocado EXCEPT ![o][Origem] = @ + Usa(o)]
    /\ casamento' = [casamento EXCEPT !.fila = @ \ {o}, !.restante = @ - Usa(o)]
    /\ ordem' = ordem /\ abertas' = abertas /\ vencem' = vencem /\ dia' = dia
    /\ fechamento' = fechamento /\ pc' = pc /\ clientes' = clientes
    /\ ciclo' = ciclo /\ ciclos' = ciclos

\* What one order gives: the change of what is pending of it, and of nothing else.
LEMMA Gives ==
    ASSUME IInv, NEW o, Gasta(o)
    PROVE  /\ o \in Ordens /\ o \in abertas /\ ordem[o].direcao = casamento.direcao
           /\ Usa(o) \in Nat /\ Usa(o) <= pendente[o] /\ Usa(o) <= casamento.restante
           /\ Usa(o) = pendente[o] \/ Usa(o) = casamento.restante
           /\ pendente \in Valores /\ pendente' \in Valores
           /\ pendente'[o] = pendente[o] - Usa(o)
           /\ \A p \in Ordens \ {o} : pendente'[p] = pendente[p]
           /\ casamento.fila = Fila(casamento.cliente, casamento.direcao)
           /\ casamento'.cliente = casamento.cliente
           /\ casamento'.direcao = casamento.direcao
           /\ casamento'.valor = casamento.valor
           /\ casamento'.fila = casamento.fila \ {o}
           /\ casamento'.restante = casamento.restante - Usa(o)
<1>1. TypeOK /\ pendente \in Valores /\ abertas \subseteq Ordens
  BY SetsAre DEF IInv
<1>2. casamento.fila = Fila(casamento.cliente, casamento.direcao)
  BY DEF IInv, Match, Gasta
<1>3. o \in abertas /\ ordem[o].direcao = casamento.direcao
  BY <1>2 DEF Fila, FilaDe, Gasta
<1>4. o \in Ordens /\ pendente[o] \in Nat /\ pendente[o] <= ValorMaximo
  BY <1>1, <1>3, Numbers DEF Valores
<1>5. casamento.restante \in Nat
  BY <1>1 DEF TypeOK
<1>6. /\ Usa(o) \in Nat /\ Usa(o) <= pendente[o] /\ Usa(o) <= casamento.restante
      /\ Usa(o) = pendente[o] \/ Usa(o) = casamento.restante
  BY <1>4, <1>5 DEF Usa, Menor
<1>7. /\ pendente'[o] = pendente[o] - Usa(o)
      /\ \A p \in Ordens \ {o} : pendente'[p] = pendente[p]
      /\ DOMAIN pendente' = Ordens
  BY <1>1, <1>4 DEF Valores, Gasta
<1>8. pendente' \in Valores
  <2>1. pendente[o] - Usa(o) \in 0..ValorMaximo
    BY <1>4, <1>6, Numbers
  <2> QED
    BY <1>1, <2>1 DEF Valores, Gasta
<1>9. /\ casamento'.cliente = casamento.cliente
      /\ casamento'.direcao = casamento.direcao
      /\ casamento'.valor = casamento.valor
      /\ casamento'.fila = casamento.fila \ {o}
      /\ casamento'.restante = casamento.restante - Usa(o)
  BY <1>1 DEF TypeOK, Gasta
<1> QED
  BY <1>1, <1>2, <1>3, <1>4, <1>6, <1>7, <1>8, <1>9

\* The queue and the side it is in lose what it gives; the others lose nothing.
LEMMA GivesSums ==
    ASSUME IInv, NEW o, Gasta(o), NEW d \in Direcoes
    PROVE  LET gave == IF d = casamento.direcao THEN Usa(o) ELSE 0
           IN  /\ Soma(pendente', Fila(casamento.cliente, d)') 
                    = Soma(pendente, Fila(casamento.cliente, d)) - gave
               /\ Soma(pendente', Lado(d)') = Soma(pendente, Lado(d)) - gave
<1> DEFINE gave == IF d = casamento.direcao THEN Usa(o) ELSE 0
           F == Fila(casamento.cliente, d)
           G == Fila(casamento.cliente, d)'
           L == Lado(d)
<1>1. /\ o \in Ordens /\ o \in abertas /\ ordem[o].direcao = casamento.direcao
      /\ Usa(o) \in Nat /\ Usa(o) <= pendente[o]
      /\ pendente \in Valores /\ pendente' \in Valores
      /\ pendente'[o] = pendente[o] - Usa(o)
      /\ \A p \in Ordens \ {o} : pendente'[p] = pendente[p]
      /\ casamento.fila = Fila(casamento.cliente, casamento.direcao)
  BY Gives
<1>2. TypeOK /\ F \in SUBSET Ordens /\ L \in SUBSET Ordens
  BY SetsAre DEF IInv
<1>3. Lado(d)' = L
  BY DEF Lado, Gasta
<1>4. ASSUME NEW S \in SUBSET Ordens, o \in S <=> d = casamento.direcao
      PROVE  Soma(pendente', S) = Soma(pendente, S) - gave
  <2>1. Soma(pendente, S) \in Nat /\ Soma(pendente', S) \in Nat
    BY <1>1, SomaNat
  <2>2. CASE o \in S
    <3>1. Soma(pendente', S) + pendente[o] = Soma(pendente, S) + pendente'[o]
      BY <1>1, <2>2, SomaUpdate
    <3>2. pendente[o] \in Int /\ Usa(o) \in Int /\ pendente'[o] = pendente[o] - Usa(o)
      BY <1>1 DEF Valores
    <3>3. gave = Usa(o)
      BY <1>4, <2>2
    <3> HIDE DEF gave
    <3> QED
      BY <2>1, <3>1, <3>2, <3>3
  <2>3. CASE o \notin S
    <3>1. Soma(pendente', S) = Soma(pendente, S)
      BY <1>1, <2>3, SomaSame
    <3> QED
      BY <1>4, <2>1, <2>3, <3>1
  <2> QED
    BY <2>2, <2>3
<1>5. o \in L <=> d = casamento.direcao
  BY <1>1 DEF Lado
<1>6. o \in F <=> d = casamento.direcao
  <2>1. o \in casamento.fila
    BY DEF Gasta
  <2>2. o \in F => ordem[o].direcao = d
    BY DEF Fila, FilaDe
  <2> QED
    BY <1>1, <2>1, <2>2
<1>7. G \in SUBSET F /\ \A p \in F \ G : pendente'[p] = 0
  <2>1. ASSUME NEW p \in Ordens
        PROVE  /\ pendente[p] \in Nat /\ pendente'[p] \in Nat
               /\ pendente'[p] > 0 => pendente[p] > 0
    <3>1. pendente[p] \in Nat /\ pendente'[p] \in Nat
      BY <1>1, Numbers DEF Valores
    <3> QED
      BY <1>1, <3>1
  <2>2. casamento'.cliente = casamento.cliente /\ abertas' = abertas /\ ordem' = ordem
    BY Gives DEF Gasta
  <2>3. G = {p \in abertas : /\ ordem[p].direcao = d /\ pendente'[p] > 0
                             /\ casamento.cliente # Nenhum =>
                                   ordem[p].cliente = casamento.cliente}
    BY <2>2 DEF Fila, FilaDe
  <2>4. F = {p \in abertas : /\ ordem[p].direcao = d /\ pendente[p] > 0
                             /\ casamento.cliente # Nenhum =>
                                   ordem[p].cliente = casamento.cliente}
    BY DEF Fila, FilaDe
  <2>5. \A p \in F \ G : ~(pendente'[p] > 0)
    BY <2>3, <2>4
  <2>6. G \in SUBSET F
    BY <1>2, <2>1, <2>3, <2>4 DEF TypeOK
  <2>7. \A p \in F \ G : pendente'[p] \in Nat
    BY <1>2, <2>1
  <2> QED
    BY <2>5, <2>6, <2>7
<1>8. Soma(pendente', G) = Soma(pendente', F)
  BY <1>1, <1>2, <1>7, SomaPositive
<1>9. Soma(pendente', F) = Soma(pendente, F) - gave
  BY <1>2, <1>4, <1>6
<1>10. Soma(pendente', L) = Soma(pendente, L) - gave
  BY <1>2, <1>4, <1>5
<1> QED
  BY <1>3, <1>8, <1>9, <1>10

\* It goes from what is pending of that order to what was matched of it.
LEMMA GivesBooks ==
    ASSUME IInv, NEW o, Gasta(o)
    PROVE  /\ alocado' \in [Ordens -> [Tipos -> Nat]]
           /\ Conservation'
           /\ Casado' \in Valores /\ Casado'[o] = Casado[o] + Usa(o)
           /\ \A p \in Ordens \ {o} : Casado'[p] = Casado[p]
           /\ \A p \in Ordens : alocado'[p]["REMETIDO"] = alocado[p]["REMETIDO"]
           /\ \A p \in Ordens \ {o} : alocado'[p] = alocado[p]
<1>1. /\ o \in Ordens /\ Usa(o) \in Nat /\ Usa(o) <= pendente[o]
      /\ pendente \in Valores /\ pendente' \in Valores
      /\ pendente'[o] = pendente[o] - Usa(o)
      /\ \A p \in Ordens \ {o} : pendente'[p] = pendente[p]
  BY Gives
<1>2. TypeOK /\ Conservation /\ alocado \in [Ordens -> [Tipos -> Nat]] /\ Origem \in Origens
  BY DEF IInv, TypeOK, Origem, Origens
<1>3. \A p \in Ordens : alocado'[p] = IF p = o
        THEN [alocado[o] EXCEPT ![Origem] = alocado[o][Origem] + Usa(o)] ELSE alocado[p]
  BY <1>2 DEF Gasta
<1>3a. alocado' = [p \in Ordens |-> alocado'[p]]
  BY <1>2 DEF Gasta
<1>4. alocado[o] \in [Tipos -> Nat] /\ Origem \in Tipos
  BY <1>1, <1>2 DEF Tipos
<1>5. alocado'[o] = [alocado[o] EXCEPT ![Origem] = alocado[o][Origem] + Usa(o)]
  BY <1>1, <1>3
<1>6. \A p \in Ordens \ {o} : alocado'[p] = alocado[p]
  BY <1>3
<1>7. alocado[o][Origem] + Usa(o) \in Nat
  BY <1>1, <1>4
<1>8. alocado'[o] \in [Tipos -> Nat]
  BY <1>4, <1>5, <1>7
<1>9. alocado' \in [Ordens -> [Tipos -> Nat]]
  BY <1>1, <1>2, <1>6, <1>3a, <1>8
<1>10. /\ alocado'[o]["REMETIDO"] = alocado[o]["REMETIDO"]
       /\ alocado'[o]["INTRA_CLIENTE"] + alocado'[o]["INTER_CLIENTE"]
            = alocado[o]["INTRA_CLIENTE"] + alocado[o]["INTER_CLIENTE"] + Usa(o)
  <2>1. \A t \in Tipos : alocado'[o][t] = IF t = Origem THEN alocado[o][t] + Usa(o)
                                                        ELSE alocado[o][t]
    BY <1>4, <1>5
  <2>2. /\ alocado[o]["INTRA_CLIENTE"] \in Nat /\ alocado[o]["INTER_CLIENTE"] \in Nat
        /\ alocado[o]["REMETIDO"] \in Nat
    BY <1>4 DEF Tipos, Origens
  <2> QED
    BY <1>1, <1>2, <2>1, <2>2 DEF Tipos, Origens
<1>11. \A p \in Ordens : Total(p) + pendente[p] = ordem[p].valor
  BY <1>2 DEF Conservation
<1>12. \A p \in Ordens : /\ alocado[p]["INTRA_CLIENTE"] \in Nat
                         /\ alocado[p]["INTER_CLIENTE"] \in Nat
                         /\ alocado[p]["REMETIDO"] \in Nat
                         /\ pendente[p] \in Nat /\ pendente'[p] \in Nat
                         /\ alocado'[p]["INTRA_CLIENTE"] \in Nat
                         /\ alocado'[p]["INTER_CLIENTE"] \in Nat
  BY <1>1, <1>2, <1>9, Numbers DEF Tipos, Origens, Valores
<1>13. Total(o)' + pendente'[o] = Total(o) + pendente[o]
  BY <1>1, <1>10, <1>12 DEF Total
<1>14. ASSUME NEW p \in Ordens
       PROVE  Total(p)' + pendente'[p] = ordem[p].valor
  <2>1. CASE p = o
    BY <1>11, <1>13, <2>1
  <2>2. CASE p # o
    BY <1>1, <1>6, <1>11, <2>2 DEF Total
  <2> QED
    BY <2>1, <2>2
<1>15. Conservation'
  BY <1>14 DEF Conservation, Gasta
<1>16. \A p \in Ordens : /\ Casado[p] = alocado[p]["INTRA_CLIENTE"] + alocado[p]["INTER_CLIENTE"]
                         /\ Casado'[p] = alocado'[p]["INTRA_CLIENTE"]
                                          + alocado'[p]["INTER_CLIENTE"]
  BY DEF Casado
<1>17. Casado'[o] = Casado[o] + Usa(o) /\ \A p \in Ordens \ {o} : Casado'[p] = Casado[p]
  BY <1>1, <1>6, <1>10, <1>16
<1>18. ASSUME NEW p \in Ordens
       PROVE  Casado'[p] \in 0..ValorMaximo /\ alocado'[p]["REMETIDO"] = alocado[p]["REMETIDO"]
  <2>1. alocado'[p]["REMETIDO"] = alocado[p]["REMETIDO"]
    BY <1>6, <1>10
  <2>2. Casado'[p] \in Nat
    BY <1>12, <1>16
  <2>3. Casado'[p] + alocado[p]["REMETIDO"] + pendente'[p] = ordem[p].valor
    BY <1>14, <1>16, <2>1 DEF Total
  <2>4. ordem[p].valor \in 1..ValorMaximo
    BY <1>2, OrdemIs
  <2> QED
    BY <1>12, <2>1, <2>2, <2>3, <2>4, Numbers
<1>19. Casado' \in Valores
  <2>1. Casado' = [p \in Ordens |-> Casado'[p]]
    BY DEF Casado
  <2> QED
    BY <1>18, <2>1 DEF Valores
<1> QED
  BY <1>6, <1>9, <1>15, <1>17, <1>18, <1>19

\* One order consumed.
LEMMA ConsomeKeeps ==
    ASSUME IInv, NEW o, Gasta(o)
    PROVE  IInv'
<1> DEFINE c == casamento.cliente
           r == casamento.direcao
<1>1. /\ o \in Ordens /\ o \in abertas /\ ordem[o].direcao = r
      /\ Usa(o) \in Nat /\ Usa(o) <= pendente[o] /\ Usa(o) <= casamento.restante
      /\ Usa(o) = pendente[o] \/ Usa(o) = casamento.restante
      /\ pendente \in Valores /\ pendente' \in Valores
      /\ pendente'[o] = pendente[o] - Usa(o)
      /\ \A p \in Ordens \ {o} : pendente'[p] = pendente[p]
      /\ casamento.fila = Fila(c, r)
  BY Gives
<1>2. /\ casamento'.cliente = c /\ casamento'.direcao = r
      /\ casamento'.valor = casamento.valor
      /\ casamento'.fila = casamento.fila \ {o}
      /\ casamento'.restante = casamento.restante - Usa(o)
  BY Gives
<1>3. /\ pc = "consome" /\ casamento.restante > 0 /\ o \in casamento.fila
      /\ ordem' = ordem /\ abertas' = abertas /\ vencem' = vencem /\ dia' = dia
      /\ fechamento' = fechamento /\ pc' = pc /\ clientes' = clientes
      /\ ciclo' = ciclo /\ ciclos' = ciclos
  BY DEF Gasta
<1>4. TypeOK /\ r \in Direcoes /\ casamento.restante \in Nat /\ casamento.valor \in Nat
      /\ casamento.fila \in SUBSET Ordens
  BY DEF IInv, TypeOK
<1>5. casamento.restante - Usa(o) \in Nat
  BY <1>1, <1>4
<1>6. TypeOK'
  <2>1. casamento' \in [cliente : Clientes \cup {Nenhum}, direcao : Direcoes,
                        fila : SUBSET Ordens, restante : Nat, valor : Nat]
    BY <1>4, <1>5 DEF TypeOK, Gasta
  <2>2. alocado' \in [Ordens -> [Tipos -> Nat]]
    BY GivesBooks
  <2> QED
    BY <1>1, <1>3, <1>4, <2>1, <2>2 DEF TypeOK, Valores
<1>7. Conservation'
  BY GivesBooks
<1>8. DueExact' /\ MatchedIsMinimum' /\ Control'
  BY <1>2, <1>3 DEF IInv, DueExact, Vencendo, MatchedIsMinimum, Control, WindowHolds
<1>9. Batch'
  BY <1>1, <1>3 DEF IInv, Batch, Conhecida
<1>10. \A p \in Ordens : pendente'[p] > 0 => pendente[p] > 0
  <2>1. \A p \in Ordens : pendente[p] \in Nat
    BY <1>1, Numbers DEF Valores
  <2> QED
    BY <1>1, <2>1
<1>11. Sides'
  <2>1. ASSUME NEW k \in Clientes, NEW d, Fila(k, d)' # {}
        PROVE  Fila(k, d) # {}
    <3>1. PICK p \in Fila(k, d)' : TRUE
      BY <2>1
    <3>2. p \in Ordens /\ p \in Fila(k, d)
      BY <1>3, <1>4, <1>10, <3>1 DEF Fila, FilaDe, TypeOK
    <3> QED
      BY <3>2
  <2> QED
    BY <1>2, <1>3, <2>1 DEF IInv, Sides
<1>12. /\ Soma(pendente', Fila(c, "OUT")')
             = Soma(pendente, Fila(c, "OUT")) - (IF "OUT" = r THEN Usa(o) ELSE 0)
       /\ Soma(pendente', Fila(c, "IN")')
             = Soma(pendente, Fila(c, "IN")) - (IF "IN" = r THEN Usa(o) ELSE 0)
       /\ Soma(pendente', Lado("OUT")')
             = Soma(pendente, Lado("OUT")) - (IF "OUT" = r THEN Usa(o) ELSE 0)
       /\ Soma(pendente', Lado("IN")')
             = Soma(pendente, Lado("IN")) - (IF "IN" = r THEN Usa(o) ELSE 0)
  BY GivesSums DEF Direcoes
<1>13. /\ Soma(pendente, Fila(c, "OUT")) \in Nat /\ Soma(pendente, Fila(c, "IN")) \in Nat
       /\ Soma(pendente, Lado("OUT")) \in Nat /\ Soma(pendente, Lado("IN")) \in Nat
  BY <1>1, <1>4, SetsAre, SomaNat
<1>14. Match'
  <2>1. casamento'.fila \subseteq Fila(c, r)'
    <3> SUFFICES ASSUME NEW p \in casamento.fila \ {o}
                 PROVE  p \in Fila(c, r)'
      BY <1>2
    <3>1. p \in Ordens /\ p # o /\ p \in Fila(c, r) /\ pendente'[p] = pendente[p]
      BY <1>1, <1>4
    <3> QED
      BY <1>2, <1>3, <3>1 DEF Fila, FilaDe
  <2>2. ASSUME casamento'.restante > 0
        PROVE  casamento'.fila = Fila(c, r)'
    <3>1. Usa(o) = pendente[o] /\ pendente[o] \in Nat
      BY <1>1, <1>2, <1>4, <2>2, Numbers DEF Valores
    <3>2. pendente'[o] = 0
      BY <1>1, <3>1
    <3>3. ASSUME NEW p \in Fila(c, r)'
          PROVE  p \in casamento.fila \ {o}
      <4>1. p # o /\ p \in Ordens
        BY <1>3, <1>4, <3>2, <3>3 DEF Fila, FilaDe, TypeOK
      <4>2. p \in Fila(c, r)
        BY <1>2, <1>3, <1>10, <3>3, <4>1 DEF Fila, FilaDe
      <4> QED
        BY <1>1, <4>1, <4>2
    <3> QED
      BY <1>2, <2>1, <3>3
  <2>3. casamento'.restante <= Soma(pendente', casamento'.fila)
    <3>1. /\ Soma(pendente, casamento.fila) = Soma(pendente, casamento.fila \ {o}) + pendente[o]
          /\ Soma(pendente', casamento.fila \ {o}) = Soma(pendente, casamento.fila \ {o})
          /\ Soma(pendente', casamento.fila \ {o}) \in Nat
      <4>1. Soma(pendente, casamento.fila) = Soma(pendente, casamento.fila \ {o}) + pendente[o]
        BY <1>1, <1>3, <1>4, SomaSplit
      <4>2. casamento.fila \ {o} \in SUBSET Ordens
        BY <1>4
      <4>3. \A p \in casamento.fila \ {o} : pendente'[p] = pendente[p]
        BY <1>1, <1>4
      <4> DEFINE S == casamento.fila \ {o}
      <4>4. Soma(pendente', S) \in Nat
        BY <1>1, <4>2, SomaNat
      <4>5. Soma(pendente', S) = Soma(pendente, S)
        BY <4>3, SomaSame
      <4> QED
        BY <4>1, <4>4, <4>5
    <3>2. casamento.restante <= Soma(pendente, casamento.fila)
      BY <1>3 DEF IInv, Match
    <3>3. pendente[o] \in Nat
      BY <1>1, Numbers DEF Valores
    <3>4. casamento'.restante <= Soma(pendente', casamento.fila \ {o})
      BY <1>1, <1>2, <1>4, <3>1, <3>2, <3>3
    <3> QED
      BY <1>2, <3>4
  <2>4. /\ r = "OUT" => /\ casamento.valor <= Soma(pendente, Fila(c, "IN"))
                        /\ \/ Soma(pendente, Fila(c, "OUT")) = casamento.restante
                           \/ Soma(pendente, Fila(c, "IN")) = casamento.valor
        /\ r = "IN" => \/ Soma(pendente, Fila(c, "OUT")) = 0
                       \/ Soma(pendente, Fila(c, "IN")) = casamento.restante
    BY <1>3 DEF IInv, Match
  <2>5. /\ r = "OUT" => /\ casamento.valor <= Soma(pendente', Fila(c, "IN")')
                        /\ \/ Soma(pendente', Fila(c, "OUT")') = casamento'.restante
                           \/ Soma(pendente', Fila(c, "IN")') = casamento.valor
        /\ r = "IN" => \/ Soma(pendente', Fila(c, "OUT")') = 0
                       \/ Soma(pendente', Fila(c, "IN")') = casamento'.restante
    BY <1>1, <1>2, <1>4, <1>12, <1>13, <2>4
  <2>6. \A d : Fila(casamento.cliente, d)' = Fila(c, d)'
    OBVIOUS
  <2> QED
    BY <1>2, <1>3, <2>1, <2>2, <2>3, <2>5, <2>6 DEF Match
<1>15. /\ Falta("OUT")' = Falta("OUT") - (IF "OUT" = r THEN Usa(o) ELSE 0)
       /\ Falta("IN")' = Falta("IN") - (IF "IN" = r THEN Usa(o) ELSE 0)
       /\ Falta("OUT") \in Nat /\ Falta("IN") \in Nat
  BY <1>1, <1>2, <1>3, <1>4 DEF Falta, Direcoes
<1>16. Balance'
  <2>1. /\ Soma(pendente, Lado("OUT")) + ciclo.casado = ciclo.out + Falta("OUT")
        /\ Soma(pendente, Lado("IN")) + ciclo.casado = ciclo.in + Falta("IN")
        /\ c = Nenhum => ciclo.casado = Menor(ciclo.out, ciclo.in)
    BY <1>3 DEF IInv, Balance
  <2>2. ciclo.out \in Nat /\ ciclo.in \in Nat /\ ciclo.casado \in Nat
    BY <1>4 DEF TypeOK
  <2>3. /\ Soma(pendente', Lado("OUT")') + ciclo.casado = ciclo.out + Falta("OUT")'
        /\ Soma(pendente', Lado("IN")') + ciclo.casado = ciclo.in + Falta("IN")'
    BY <1>1, <1>12, <1>13, <1>15, <2>1, <2>2
  <2> QED
    BY <1>2, <1>3, <2>1, <2>3 DEF Balance
<1>17. Matched'
  <2>1. /\ Casado \in Valores /\ Casado' \in Valores /\ Casado'[o] = Casado[o] + Usa(o)
        /\ \A p \in Ordens \ {o} : Casado'[p] = Casado[p]
    BY CasadoIs, GivesBooks DEF IInv
  <2>2. ASSUME NEW d \in Direcoes
        PROVE  /\ Soma(Casado', Todas(d)') = Soma(Casado, Todas(d))
                                               + (IF d = r THEN Usa(o) ELSE 0)
               /\ Soma(Casado, Todas(d)) \in Nat
    <3>1. Todas(d)' = Todas(d) /\ Todas(d) \in SUBSET Ordens /\ (o \in Todas(d) <=> d = r)
      BY <1>1, <1>3 DEF Todas
    <3>2. Soma(Casado, Todas(d)) \in Nat /\ Soma(Casado', Todas(d)) \in Nat
      BY <2>1, <3>1, SomaNat
    <3>3. CASE o \in Todas(d)
      <4>1. Soma(Casado', Todas(d)) + Casado[o] = Soma(Casado, Todas(d)) + Casado'[o]
        BY <2>1, <3>1, <3>3, SomaUpdate
      <4>2. Casado[o] \in Int /\ Usa(o) \in Int /\ Casado'[o] = Casado[o] + Usa(o)
        BY <1>1, <2>1 DEF Valores
      <4>3. Soma(Casado', Todas(d)) = Soma(Casado, Todas(d)) + Usa(o)
        BY <3>2, <4>1, <4>2
      <4> QED
        BY <3>1, <3>2, <3>3, <4>3
    <3>4. CASE o \notin Todas(d)
      <4>1. Soma(Casado', Todas(d)) = Soma(Casado, Todas(d))
        BY <2>1, <3>1, <3>4, SomaSame
      <4> QED
        BY <3>1, <3>2, <3>4, <4>1
    <3> QED
      BY <3>3, <3>4
  <2>3. /\ Soma(Casado', Todas("OUT")') = Soma(Casado, Todas("OUT"))
                                            + (IF "OUT" = r THEN Usa(o) ELSE 0)
        /\ Soma(Casado', Todas("IN")') = Soma(Casado, Todas("IN"))
                                            + (IF "IN" = r THEN Usa(o) ELSE 0)
        /\ Soma(Casado, Todas("OUT")) \in Nat /\ Soma(Casado, Todas("IN")) \in Nat
    BY <2>2 DEF Direcoes
  <2>4. Soma(Casado, Todas("OUT")) + Falta("OUT") = Soma(Casado, Todas("IN")) + Falta("IN")
    BY DEF IInv, Matched
  <2>5. Soma(Casado', Todas("OUT")') + Falta("OUT")' = Soma(Casado', Todas("IN")') + Falta("IN")'
    BY <1>1, <1>15, <2>3, <2>4
  <2> QED
    BY <2>5 DEF Matched
<1> QED
  BY <1>6, <1>7, <1>8, <1>9, <1>11, <1>14, <1>16, <1>17 DEF IInv

\* A queue with no volume is empty.
LEMMA NoVolume ==
    ASSUME TypeOK, NEW c, NEW d, Soma(pendente, Fila(c, d)) = 0
    PROVE  Fila(c, d) = {}
<1>1. \A o \in Fila(c, d) : pendente[o] = 0
  BY SetsAre, SomaZero
<1> QED
  BY <1>1 DEF Fila, FilaDe

\* The end of a queue: it gave all that was asked of it.
LEMMA FimDaFilaKeeps ==
    ASSUME IInv, FimDaFila
    PROVE  IInv'
<1> DEFINE c == casamento.cliente
           out == Soma(pendente, Fila(c, "OUT"))
           in  == Soma(pendente, Fila(c, "IN"))
<1>1. /\ pc = "consome" /\ (casamento.restante = 0 \/ casamento.fila = {})
      /\ ordem' = ordem /\ pendente' = pendente /\ abertas' = abertas /\ vencem' = vencem
      /\ dia' = dia /\ fechamento' = fechamento /\ clientes' = clientes
      /\ alocado' = alocado /\ ciclo' = ciclo /\ ciclos' = ciclos
  BY DEF FimDaFila
<1>2. /\ TypeOK /\ pendente \in Valores /\ casamento.fila \in SUBSET Ordens
      /\ casamento.restante \in Nat /\ casamento.valor \in Nat
      /\ c \in Clientes \cup {Nenhum} /\ casamento.direcao \in Direcoes
      /\ Fila(c, "OUT") \in SUBSET Ordens /\ Fila(c, "IN") \in SUBSET Ordens
  BY SetsAre DEF IInv, TypeOK
<1>3. casamento.restante = 0
  <2>1. casamento.restante <= Soma(pendente, casamento.fila)
    BY <1>1 DEF IInv, Match
  <2>2. casamento.fila = {} => Soma(pendente, casamento.fila) = 0
    BY <1>2, SomaZero
  <2> QED
    BY <1>1, <1>2, <2>1, <2>2
<1>4. /\ casamento.direcao = "OUT" => casamento.valor <= in /\ (out = 0 \/ in = casamento.valor)
      /\ casamento.direcao = "IN" => out = 0 \/ in = 0
  BY <1>1, <1>3 DEF IInv, Match
<1>5. \A k, d : Fila(k, d)' = Fila(k, d) /\ Lado(d)' = Lado(d) /\ Todas(d)' = Todas(d)
  BY <1>1 DEF Fila, FilaDe, Lado, Todas
<1>6. Conservation' /\ DueExact' /\ MatchedIsMinimum' /\ Casado' = Casado
  BY <1>1 DEF IInv, Conservation, Total, DueExact, Vencendo, MatchedIsMinimum, Casado
<1>7. CASE casamento.direcao = "OUT"
  <2>1. /\ pc' = "consome"
        /\ casamento' = [casamento EXCEPT !.direcao = "IN", !.fila = Fila(c, "IN"),
                                          !.restante = casamento.valor]
    BY <1>1, <1>3, <1>7 DEF FimDaFila, SegundoLado
  <2>2. /\ casamento'.cliente = c /\ casamento'.direcao = "IN"
        /\ casamento'.fila = Fila(c, "IN") /\ casamento'.restante = casamento.valor
        /\ casamento'.valor = casamento.valor
    BY <1>2, <2>1 DEF TypeOK
  <2>3. TypeOK'
    <3>1. casamento' \in [cliente : Clientes \cup {Nenhum}, direcao : Direcoes,
                          fila : SUBSET Ordens, restante : Nat, valor : Nat]
      BY <1>2, <2>1 DEF TypeOK, Direcoes
    <3> QED
      BY <1>1, <1>2, <2>1, <3>1 DEF TypeOK
  <2>4. Batch' /\ Control' /\ Sides'
    BY <1>1, <1>5, <2>1, <2>2 DEF IInv, Batch, Conhecida, Control, WindowHolds, Sides
  <2>5. Match'
    <3>1. casamento.valor <= in /\ (out = 0 \/ in = casamento.valor)
      BY <1>4, <1>7
    <3>2. /\ Soma(pendente', Fila(c, "OUT")') = out
          /\ Soma(pendente', Fila(c, "IN")') = in
      BY <1>1, <1>5, <2>2
    <3> HIDE DEF out, in
    <3>3. Soma(pendente', casamento'.fila) = in
      BY <1>1, <2>2 DEF in
    <3> QED
      BY <1>5, <2>1, <2>2, <3>1, <3>2, <3>3 DEF Match
  <2>6. /\ Falta("OUT")' = 0 /\ Falta("IN")' = casamento.valor
        /\ Falta("OUT") = 0 /\ Falta("IN") = casamento.valor
    BY <1>1, <1>3, <1>7, <2>1, <2>2 DEF Falta
  <2>7. Balance'
    BY <1>1, <1>5, <2>1, <2>2, <2>6 DEF IInv, Balance
  <2>8. Matched'
    BY <1>5, <1>6, <2>6 DEF IInv, Matched
  <2> QED
    BY <1>6, <2>3, <2>4, <2>5, <2>7, <2>8 DEF IInv
<1>8. CASE casamento.direcao # "OUT"
  <2>1. /\ pc' = IF c = Nenhum THEN "fecha" ELSE "casa"
        /\ casamento' = NenhumCasamento
    BY <1>1, <1>3, <1>8 DEF FimDaFila
  <2>2. casamento.direcao = "IN" /\ (out = 0 \/ in = 0)
    BY <1>2, <1>4, <1>8 DEF Direcoes
  <2>3. Fila(c, "OUT") = {} \/ Fila(c, "IN") = {}
    BY <1>2, <2>2, NoVolume
  <2>4. TypeOK'
    <3>1. casamento' \in [cliente : Clientes \cup {Nenhum}, direcao : Direcoes,
                          fila : SUBSET Ordens, restante : Nat, valor : Nat]
      BY <2>1 DEF NenhumCasamento, Direcoes
    <3> QED
      BY <1>1, <1>2, <2>1, <3>1 DEF TypeOK
  <2>5. Batch' /\ Control' /\ Match'
    BY <1>1, <2>1 DEF IInv, Batch, Conhecida, Control, WindowHolds, Match
  <2>6. Sides'
    BY <1>1, <1>5, <2>1, <2>3 DEF IInv, Sides
  <2>7. Falta("OUT")' = 0 /\ Falta("IN")' = 0 /\ Falta("OUT") = 0 /\ Falta("IN") = 0
    BY <1>1, <1>3, <2>1, <2>2 DEF Falta
  <2>8. Balance'
    BY <1>1, <1>5, <2>1, <2>7 DEF IInv, Balance
  <2>9. Matched'
    BY <1>5, <1>6, <2>7 DEF IInv, Matched
  <2> QED
    BY <1>6, <2>4, <2>5, <2>6, <2>8, <2>9 DEF IInv
<1> QED
  BY <1>7, <1>8

-----------------------------------------------------------------------------
(* The close                                                                 *)

\* What the close relies on: it never fails, and only the larger side has a remainder.
LEMMA CloseIs ==
    ASSUME IInv, Fecha
    PROVE  LET direcao == IF ciclo.out >= ciclo.in THEN "OUT" ELSE "IN"
               residuo == Soma(pendente, Vencidas)
           IN  /\ ciclo.casado <= ciclo.out /\ ciclo.casado <= ciclo.in
               /\ ciclo.casado = Menor(ciclo.out, ciclo.in)
               /\ \A o \in Vencidas : ordem[o].direcao = direcao
               /\ residuo \in Nat
               /\ residuo <= (IF direcao = "OUT" THEN ciclo.out ELSE ciclo.in) - ciclo.casado
               /\ fechamento' = dia /\ ProximoDia
               /\ ciclos' = Append(ciclos,
                     [dia |-> dia, out |-> ciclo.out, in |-> ciclo.in,
                      casado |-> ciclo.casado, residuo |-> residuo, direcao |-> direcao])
<1> DEFINE out == Soma(pendente, Lado("OUT"))
           in  == Soma(pendente, Lado("IN"))
           direcao == IF ciclo.out >= ciclo.in THEN "OUT" ELSE "IN"
           residuo == Soma(pendente, Vencidas)
<1>1. /\ pc = "fecha" /\ TypeOK /\ pendente \in Valores
      /\ Lado("OUT") \in SUBSET Ordens /\ Lado("IN") \in SUBSET Ordens
      /\ abertas \in SUBSET Ordens /\ Vencidas \in SUBSET abertas
      /\ ciclo.out \in Nat /\ ciclo.in \in Nat /\ ciclo.casado \in Nat
  BY SetsAre DEF IInv, TypeOK, Fecha
<1>2. out \in Nat /\ in \in Nat
  BY <1>1, SomaNat
<1>3. /\ out + ciclo.casado = ciclo.out /\ in + ciclo.casado = ciclo.in
      /\ ciclo.casado = Menor(ciclo.out, ciclo.in)
  <2>1. Falta("OUT") = 0 /\ Falta("IN") = 0
    BY <1>1 DEF Falta
  <2> QED
    BY <1>1, <2>1 DEF IInv, Balance
<1>4. /\ ciclo.casado <= ciclo.out /\ ciclo.casado <= ciclo.in
      /\ direcao = "OUT" => in = 0 /\ out = ciclo.out - ciclo.casado
      /\ direcao = "IN" => out = 0 /\ in = ciclo.in - ciclo.casado
  <2> HIDE DEF out, in
  <2> QED
    BY <1>1, <1>2, <1>3 DEF Menor
<1>5. \A o \in Vencidas : pendente[o] > 0 /\ o \in abertas /\ o \in Ordens
  BY <1>1 DEF Vencidas
<1>6. Vencidas \in SUBSET Lado(direcao)
  <2> SUFFICES ASSUME NEW o \in Vencidas
               PROVE  ordem[o].direcao = direcao
    BY <1>5 DEF Lado
  <2>1. ordem[o].direcao \in {"OUT", "IN"}
    BY <1>1, <1>5, OrdemIs DEF Direcoes
  <2>2. ASSUME NEW d \in {"OUT", "IN"}, Soma(pendente, Lado(d)) = 0
        PROVE  ordem[o].direcao # d
    <3>1. \A p \in Lado(d) : pendente[p] = 0
      BY <1>1, <2>2, SomaZero
    <3> QED
      BY <1>5, <3>1 DEF Lado
  <2> HIDE DEF out, in
  <2>3. direcao = "OUT" => ordem[o].direcao # "IN"
    BY <1>4, <2>2 DEF in
  <2>4. direcao = "IN" => ordem[o].direcao # "OUT"
    BY <1>4, <2>2 DEF out
  <2> QED
    BY <2>1, <2>3, <2>4
<1>7. residuo \in Nat /\ residuo <= Soma(pendente, Lado(direcao))
  BY <1>1, <1>5, <1>6, SomaNat, SomaMonotone
<1>8. residuo <= (IF direcao = "OUT" THEN ciclo.out ELSE ciclo.in) - ciclo.casado
  <2>1. Soma(pendente, Lado(direcao)) = IF direcao = "OUT" THEN out ELSE in
    OBVIOUS
  <2> HIDE DEF out, in, residuo
  <2> QED
    BY <1>4, <1>7, <2>1
<1>9. \A o \in Vencidas : ordem[o].direcao = direcao
  BY <1>6 DEF Lado
<1>10. ~(ciclo.casado > ciclo.out \/ ciclo.casado > ciclo.in)
  BY <1>1, <1>4
<1>11. fechamento' = dia /\ ProximoDia
       /\ ciclos' = Append(ciclos,
             [dia |-> dia, out |-> ciclo.out, in |-> ciclo.in,
              casado |-> ciclo.casado, residuo |-> residuo, direcao |-> direcao])
  BY <1>10 DEF Fecha
<1> QED
  BY <1>3, <1>4, <1>7, <1>8, <1>9, <1>11

\* The cycle closed.
LEMMA FechaKeeps ==
    ASSUME IInv, Fecha
    PROVE  IInv'
<1> DEFINE direcao == IF ciclo.out >= ciclo.in THEN "OUT" ELSE "IN"
           residuo == Soma(pendente, Vencidas)
           novo == [dia |-> dia, out |-> ciclo.out, in |-> ciclo.in,
                    casado |-> ciclo.casado, residuo |-> residuo, direcao |-> direcao]
<1>1. /\ pc = "fecha" /\ ordem' = ordem /\ clientes' = clientes /\ casamento' = casamento
      /\ alocado' = [o \in Ordens |-> IF o \in Vencidas
                        THEN [alocado[o] EXCEPT !["REMETIDO"] = @ + pendente[o]]
                        ELSE alocado[o]]
      /\ pendente' = [o \in Ordens |-> IF o \in Vencidas THEN 0 ELSE pendente[o]]
      /\ vencem' = [d \in Dias |-> vencem[d] - Vencendo(Saem, d)]
      /\ abertas' = abertas \ Saem /\ ciclo' = NenhumCiclo
  BY DEF Fecha, Remetido, Baixa
<1>2. /\ ciclo.casado = Menor(ciclo.out, ciclo.in) /\ residuo \in Nat
      /\ residuo <= (IF direcao = "OUT" THEN ciclo.out ELSE ciclo.in) - ciclo.casado
      /\ fechamento' = dia /\ ProximoDia /\ ciclos' = Append(ciclos, novo)
  BY CloseIs
<1>3. /\ dia' = dia + 1 /\ pc' = IF dia = HorizonteDias THEN "confere" ELSE "dia"
  BY <1>2 DEF ProximoDia
<1>4. /\ TypeOK /\ pendente \in Valores /\ abertas \in SUBSET Ordens
      /\ Vencidas \in SUBSET abertas /\ Saem \in SUBSET abertas
      /\ alocado \in [Ordens -> [Tipos -> Nat]]
  BY SetsAre DEF IInv, TypeOK
<1>5. dia \in 0..HorizonteDias /\ clientes = {}
  BY <1>1, <1>4, Numbers DEF IInv, Control, TypeOK
<1>6. \A o \in Ordens :
        /\ pendente[o] \in 0..ValorMaximo /\ pendente[o] \in Nat
        /\ alocado[o] \in [Tipos -> Nat]
        /\ alocado[o]["INTRA_CLIENTE"] \in Nat /\ alocado[o]["INTER_CLIENTE"] \in Nat
        /\ alocado[o]["REMETIDO"] \in Nat
        /\ ordem[o].conhecida \in Int /\ ordem[o].limite \in Int
  BY <1>4, OrdemIs, Numbers DEF Valores, Tipos, Origens
<1>7. \A o \in Ordens :
        /\ alocado'[o] \in [Tipos -> Nat]
        /\ alocado'[o]["INTRA_CLIENTE"] = alocado[o]["INTRA_CLIENTE"]
        /\ alocado'[o]["INTER_CLIENTE"] = alocado[o]["INTER_CLIENTE"]
        /\ alocado'[o]["REMETIDO"] = IF o \in Vencidas
              THEN alocado[o]["REMETIDO"] + pendente[o] ELSE alocado[o]["REMETIDO"]
        /\ pendente'[o] = IF o \in Vencidas THEN 0 ELSE pendente[o]
  <2> SUFFICES ASSUME NEW o \in Ordens
               PROVE  /\ alocado'[o] \in [Tipos -> Nat]
                      /\ alocado'[o]["INTRA_CLIENTE"] = alocado[o]["INTRA_CLIENTE"]
                      /\ alocado'[o]["INTER_CLIENTE"] = alocado[o]["INTER_CLIENTE"]
                      /\ alocado'[o]["REMETIDO"] = IF o \in Vencidas
                            THEN alocado[o]["REMETIDO"] + pendente[o]
                            ELSE alocado[o]["REMETIDO"]
    BY <1>1
  <2>1. alocado[o]["REMETIDO"] + pendente[o] \in Nat
    BY <1>6
  <2>2. alocado'[o] = IF o \in Vencidas
                      THEN [alocado[o] EXCEPT !["REMETIDO"] = alocado[o]["REMETIDO"] + pendente[o]]
                      ELSE alocado[o]
    BY <1>1
  <2> QED
    BY <1>6, <2>1, <2>2 DEF Tipos, Origens
<1>8. vencem' \in [Dias -> Nat] /\ \A d \in Dias : vencem'[d] = Vencendo(abertas', d)
  <2>1. ASSUME NEW d \in Dias
        PROVE  vencem[d] - Vencendo(Saem, d) = Vencendo(abertas', d)
               /\ Vencendo(abertas', d) \in Nat
    <3>1. vencem[d] = Vencendo(abertas, d)
      BY DEF IInv, DueExact
    <3>2. /\ Vencendo(abertas', d) \in Nat /\ Vencendo(Saem, d) \in Nat
          /\ Vencendo(abertas, d) = Vencendo(abertas', d) + Vencendo(Saem, d)
      <4>1. Partem(abertas, abertas', Saem) /\ abertas' \in SUBSET Ordens
            /\ Saem \in SUBSET Ordens
        BY <1>1, <1>4 DEF Partem
      <4>2. /\ Conta(ordem, abertas', d) \in Nat /\ Conta(ordem, Saem, d) \in Nat
            /\ Conta(ordem, abertas, d) = Conta(ordem, abertas', d) + Conta(ordem, Saem, d)
        BY <4>1, ContaJoin
      <4> QED
        BY <4>2 DEF Conta, Vencendo
    <3> QED
      BY <3>1, <3>2
  <2> QED
    BY <1>1, <2>1
<1>9. \A o \in Ordens : o \in abertas' <=>
        /\ o \in abertas /\ pendente[o] # 0 /\ o \notin Vencidas
  BY <1>1 DEF Saem
<1>10. \A o \in Ordens : o \in Vencidas <=>
        o \in abertas /\ pendente[o] > 0 /\ (ordem[o].limite <= dia \/ dia = HorizonteDias)
  BY <1>4 DEF Vencidas
<1>11. TypeOK'
  <2>1. pendente' \in [Ordens -> 0..ValorMaximo]
    BY <1>1, <1>6, Numbers
  <2>2. alocado' \in [Ordens -> [Tipos -> Nat]]
    BY <1>1, <1>7
  <2>3. ciclos' \in Seq([dia : 0..HorizonteDias, out : Nat, in : Nat, casado : Nat,
                         residuo : Nat, direcao : Direcoes])
    <3>1. novo \in [dia : 0..HorizonteDias, out : Nat, in : Nat, casado : Nat,
                    residuo : Nat, direcao : Direcoes]
      <4> HIDE DEF residuo
      <4> QED
        BY <1>2, <1>4, <1>5 DEF TypeOK, Direcoes
    <3> HIDE DEF novo
    <3> QED
      BY <1>2, <1>4, <3>1 DEF TypeOK
  <2>4. dia' \in 0..(HorizonteDias + 1) /\ fechamento' \in -1..HorizonteDias
    BY <1>2, <1>3, <1>5, Numbers
  <2> QED
    BY <1>1, <1>3, <1>4, <1>8, <2>1, <2>2, <2>3, <2>4 DEF TypeOK, NenhumCiclo
<1>12. Conservation'
  <2> SUFFICES ASSUME NEW o \in Ordens
               PROVE  Total(o)' + pendente'[o] = ordem[o].valor
    BY <1>1 DEF Conservation
  <2>1. Total(o) + pendente[o] = ordem[o].valor
    BY DEF IInv, Conservation
  <2>2. Total(o)' + pendente'[o] = Total(o) + pendente[o]
    BY <1>6, <1>7 DEF Total
  <2> QED
    BY <2>1, <2>2
<1>13. DueExact'
  BY <1>1, <1>8 DEF DueExact, Vencendo
<1>14. Batch'
  <2> SUFFICES ASSUME NEW o \in Ordens
               PROVE  /\ o \in abertas' => Conhecida(o)' /\ ordem[o].limite >= dia'
                      /\ Conhecida(o)' /\ o \notin abertas' => pendente'[o] = 0
    BY <1>1 DEF Batch
  <2>1. Conhecida(o) => ordem[o].conhecida < dia' /\ Conhecida(o)'
    BY <1>1, <1>3, <1>5, <1>6 DEF Conhecida
  <2>2. Conhecida(o)' => Conhecida(o)
    <3>1. ordem[o].conhecida \in 0..HorizonteDias
      BY <1>4, OrdemIs
    <3>2. Conhecida(o)' => ordem[o].conhecida <= dia
      BY <1>1, <1>3, <1>5, <3>1, Numbers DEF Conhecida
    <3> QED
      BY <1>1, <1>5, <3>1, <3>2, Numbers DEF Conhecida
  <2>3. o \in abertas' => Conhecida(o)' /\ ordem[o].limite >= dia'
    BY <1>3, <1>5, <1>6, <1>9, <1>10, <2>1 DEF IInv, Batch
  <2>4. Conhecida(o)' /\ o \notin abertas' => pendente'[o] = 0
    BY <1>6, <1>7, <1>9, <2>2 DEF IInv, Batch
  <2> QED
    BY <2>3, <2>4
<1>15. Control'
  <2>1. dia = HorizonteDias => abertas' = {}
    <3> SUFFICES ASSUME dia = HorizonteDias, NEW o \in abertas'
                 PROVE  FALSE
      OBVIOUS
    <3>1. o \in Ordens
      BY <1>1, <1>4
    <3> QED
      BY <1>6, <1>9, <1>10, <3>1
  <2>2. WindowHolds'
    BY <1>2, <1>3, <1>5, Numbers DEF WindowHolds
  <2> QED
    BY <1>3, <1>5, <2>1, <2>2, Numbers DEF Control
<1>16. Match' /\ Sides' /\ Balance'
  BY <1>3 DEF Match, Sides, Balance
<1>17. Matched'
  <2>1. Falta("OUT")' = 0 /\ Falta("IN")' = 0 /\ Falta("OUT") = 0 /\ Falta("IN") = 0
    BY <1>1, <1>3 DEF Falta
  <2>2. Casado' = Casado
    BY <1>7 DEF Casado
  <2>3. \A d : Todas(d)' = Todas(d)
    BY <1>1 DEF Todas
  <2> QED
    BY <2>1, <2>2, <2>3 DEF IInv, Matched
<1>18. MatchedIsMinimum'
  <2> SUFFICES ASSUME NEW k \in DOMAIN ciclos'
               PROVE  LET x == ciclos'[k]
                      IN  /\ x.casado = Menor(x.out, x.in)
                          /\ x.residuo <= (IF x.direcao = "OUT" THEN x.out ELSE x.in) - x.casado
    BY DEF MatchedIsMinimum
  <2>1. k \in 1..Len(ciclos) + 1
        /\ ciclos'[k] = IF k = Len(ciclos) + 1 THEN novo ELSE ciclos[k]
    <3> HIDE DEF novo
    <3> QED
      BY <1>2, <1>4 DEF TypeOK
  <2>2. CASE k = Len(ciclos) + 1
    <3>1. /\ novo.casado = ciclo.casado /\ novo.out = ciclo.out /\ novo.in = ciclo.in
          /\ novo.residuo = residuo /\ novo.direcao = direcao
      OBVIOUS
    <3> HIDE DEF residuo, direcao, novo
    <3> QED
      BY <1>2, <2>1, <2>2, <3>1
  <2>3. CASE k # Len(ciclos) + 1
    <3>1. k \in DOMAIN ciclos /\ ciclos'[k] = ciclos[k]
      <4>1. DOMAIN ciclos = 1..Len(ciclos) /\ Len(ciclos) \in Nat
        BY <1>4 DEF TypeOK
      <4> QED
        BY <2>1, <2>3, <4>1
    <3> QED
      BY <3>1 DEF IInv, MatchedIsMinimum
  <2> QED
    BY <2>2, <2>3
<1> QED
  BY <1>11, <1>12, <1>13, <1>14, <1>15, <1>16, <1>17, <1>18 DEF IInv

\* After the horizon nothing is pending, so the last checks pass.
LEMMA ConfereKeeps ==
    ASSUME IInv, Confere
    PROVE  IInv'
<1>1. /\ pc = "confere" /\ ordem' = ordem /\ pendente' = pendente /\ abertas' = abertas
      /\ vencem' = vencem /\ dia' = dia /\ fechamento' = fechamento /\ clientes' = clientes
      /\ casamento' = casamento /\ alocado' = alocado /\ ciclo' = ciclo /\ ciclos' = ciclos
  BY DEF Confere
<1>2. TypeOK /\ pendente \in Valores /\ alocado \in [Ordens -> [Tipos -> Nat]]
  BY SetsAre DEF IInv, TypeOK
<1>3. abertas = {} /\ dia = HorizonteDias + 1
  BY <1>1 DEF IInv, Control
<1>4. ASSUME NEW o \in Ordens
      PROVE  Total(o) = ordem[o].valor
  <2>1. ordem[o].conhecida \in 0..HorizonteDias
    BY <1>2, OrdemIs
  <2>2. Conhecida(o)
    BY <1>3, <2>1, Numbers DEF Conhecida
  <2>3. pendente[o] = 0
    BY <1>3, <2>2 DEF IInv, Batch
  <2>4. /\ alocado[o]["INTRA_CLIENTE"] \in Nat /\ alocado[o]["INTER_CLIENTE"] \in Nat
        /\ alocado[o]["REMETIDO"] \in Nat
    BY <1>2 DEF Tipos, Origens
  <2>5. Total(o) + pendente[o] = ordem[o].valor
    BY DEF IInv, Conservation
  <2> QED
    BY <2>3, <2>4, <2>5 DEF Total
<1>5. [o \in Ordens |-> ordem[o].valor] = [o \in Ordens |-> Total(o)]
  BY <1>4
<1>6. pc' = "fim"
  BY <1>3, <1>4, <1>5 DEF Confere
<1>7. TypeOK' /\ Conservation' /\ DueExact' /\ MatchedIsMinimum'
  BY <1>1, <1>6 DEF IInv, TypeOK, Conservation, Total, DueExact, Vencendo, MatchedIsMinimum
<1>8. Batch' /\ Control' /\ Match' /\ Sides' /\ Balance'
  BY <1>1, <1>6 DEF IInv, Batch, Conhecida, Control, WindowHolds, Match, Sides, Balance
<1>9. Matched'
  <2>1. Falta("OUT")' = 0 /\ Falta("IN")' = 0 /\ Falta("OUT") = 0 /\ Falta("IN") = 0
    BY <1>1, <1>6 DEF Falta
  <2> QED
    BY <1>1, <2>1 DEF IInv, Matched, Casado, Todas
<1> QED
  BY <1>7, <1>8, <1>9 DEF IInv

-----------------------------------------------------------------------------
(* The invariant                                                             *)

\* The scenario before the first day.
LEMMA InitIInv ==
    ASSUME Init
    PROVE  IInv
<1>1. /\ ordem \in Cenarios /\ pendente = [o \in Ordens |-> ordem[o].valor]
      /\ abertas = {} /\ vencem = [d \in Dias |-> 0] /\ dia = 0 /\ fechamento = -1
      /\ pc = "dia" /\ clientes = {} /\ casamento = NenhumCasamento
      /\ alocado = [o \in Ordens |-> [t \in Tipos |-> 0]]
      /\ ciclo = NenhumCiclo /\ ciclos = <<>>
  BY DEF Init
<1>2. \A o \in Ordens : /\ ordem[o].valor \in 1..ValorMaximo
                        /\ ordem[o].conhecida \in 0..HorizonteDias
  BY <1>1, NettingAssumption DEF NettingAssumption, Ordem
<1>3. TypeOK
  <2>1. pendente \in [Ordens -> 0..ValorMaximo]
    BY <1>1, <1>2, Numbers
  <2>2. casamento \in [cliente : Clientes \cup {Nenhum}, direcao : Direcoes,
                       fila : SUBSET Ordens, restante : Nat, valor : Nat]
    BY <1>1 DEF NenhumCasamento, Direcoes
  <2>3. dia \in 0..(HorizonteDias + 1) /\ fechamento \in -1..HorizonteDias
    BY <1>1, Numbers
  <2>4. ciclo \in [out : Nat, in : Nat, casado : Nat]
    BY <1>1 DEF NenhumCiclo
  <2>5. ciclos \in Seq([dia : 0..HorizonteDias, out : Nat, in : Nat, casado : Nat,
                        residuo : Nat, direcao : Direcoes])
    BY <1>1
  <2>6. alocado \in [Ordens -> [Tipos -> Nat]] /\ vencem \in [Dias -> Nat]
    BY <1>1
  <2> QED
    BY <1>1, <2>1, <2>2, <2>3, <2>4, <2>5, <2>6 DEF TypeOK
<1>4. Conservation
  BY <1>1, <1>2 DEF Conservation, Total, Tipos, Origens
<1>5. DueExact
  <2> SUFFICES ASSUME NEW d \in Dias
               PROVE  Vencendo({}, d) = 0
    BY <1>1 DEF DueExact
  <2>1. {o \in {} : ordem[o].limite = d} = {}
    OBVIOUS
  <2> QED
    BY <2>1, FS_EmptySet DEF Vencendo
<1>6. Batch
  BY <1>1, <1>2 DEF Batch, Conhecida
<1>7. Control /\ Match /\ Sides /\ Balance /\ MatchedIsMinimum
  BY <1>1, Numbers DEF Control, WindowHolds, Match, Sides, Balance, MatchedIsMinimum
<1>8. Matched
  <2>1. \A o \in Ordens : Casado[o] = 0
    BY <1>1 DEF Casado, Tipos, Origens
  <2>2. Casado \in Valores
    BY <1>3, <1>4, CasadoIs
  <2>3. Soma(Casado, Todas("OUT")) = 0 /\ Soma(Casado, Todas("IN")) = 0
    BY <1>3, <2>1, <2>2, SetsAre, SomaZero
  <2>4. Falta("OUT") = 0 /\ Falta("IN") = 0
    BY <1>1 DEF Falta
  <2> QED
    BY <2>3, <2>4 DEF Matched
<1> QED
  BY <1>3, <1>4, <1>5, <1>6, <1>7, <1>8 DEF IInv

\* An order consumed is a Gasta of the first of the queue.
LEMMA ConsomeIs ==
    ASSUME Consome
    PROVE  \E o : Gasta(o) /\ \A p \in casamento.fila \ {o} : Antes(o, p)
BY DEF Consome, Gasta

\* Every step keeps the invariant.
LEMMA NextIInv ==
    ASSUME IInv, [Next]_vars
    PROVE  IInv'
<1>1. CASE Dia
  BY <1>1, DiaKeeps
<1>2. CASE CasaCliente
  <2>1. PICK c \in clientes : Comeca(c) /\ clientes' = clientes \ {c}
    BY <1>2 DEF CasaCliente
  <2>2. c \in Clientes /\ c # Nenhum
    BY NettingAssumption DEF IInv, TypeOK, NettingAssumption
  <2>3. /\ pc = "casa"
        /\ UNCHANGED <<ordem, pendente, abertas, vencem, dia, fechamento, alocado, ciclos>>
    BY <1>2 DEF CasaCliente
  <2> QED
    BY <2>1, <2>2, <2>3, ComecaKeeps
<1>3. CASE CasaTodos
  <2>1. /\ pc = "casa" /\ clientes = {} /\ Comeca(Nenhum)
        /\ clientes' = clientes \ {Nenhum}
        /\ UNCHANGED <<ordem, pendente, abertas, vencem, dia, fechamento, alocado, ciclos>>
    BY <1>3 DEF CasaTodos
  <2> QED
    BY <2>1, ComecaKeeps
<1>4. CASE Consome
  BY <1>4, ConsomeIs, ConsomeKeeps
<1>5. CASE FimDaFila
  BY <1>5, FimDaFilaKeeps
<1>6. CASE Fecha
  BY <1>6, FechaKeeps
<1>7. CASE Confere
  BY <1>7, ConfereKeeps
<1>8. CASE UNCHANGED vars
  <2>1. /\ ordem' = ordem /\ pendente' = pendente /\ abertas' = abertas /\ vencem' = vencem
        /\ dia' = dia /\ fechamento' = fechamento /\ pc' = pc /\ clientes' = clientes
        /\ casamento' = casamento /\ alocado' = alocado /\ ciclo' = ciclo
        /\ ciclos' = ciclos
    BY <1>8 DEF vars
  <2>2. TypeOK' /\ Conservation' /\ DueExact' /\ MatchedIsMinimum' /\ Batch' /\ Control'
    BY <2>1 DEF IInv, TypeOK, Conservation, Total, DueExact, Vencendo, MatchedIsMinimum,
       Batch, Conhecida, Control, WindowHolds
  <2>3. /\ Falta("OUT")' = Falta("OUT") /\ Falta("IN")' = Falta("IN") /\ Casado' = Casado
        /\ \A c, d : Fila(c, d)' = Fila(c, d) /\ Lado(d)' = Lado(d) /\ Todas(d)' = Todas(d)
    BY <2>1 DEF Falta, Casado, Fila, FilaDe, Lado, Todas
  <2>4. Match' /\ Sides'
    BY <2>1, <2>3 DEF IInv, Match, Sides
  <2>5. Balance' /\ Matched'
    BY <2>1, <2>3 DEF IInv, Balance, Matched
  <2> QED
    BY <2>2, <2>4, <2>5 DEF IInv
<1> QED
  BY <1>1, <1>2, <1>3, <1>4, <1>5, <1>6, <1>7, <1>8 DEF Next

\* The invariant holds throughout every run of executar_p0.
THEOREM Invariance == Spec => []IInv
<1>1. Init => IInv
  BY InitIInv
<1>2. IInv /\ [Next]_vars => IInv'
  BY NextIInv
<1> QED
  BY <1>1, <1>2, PTL DEF Spec

\* Every variable of executar_p0 keeps its type.
THEOREM TypeCorrect == Spec => []TypeOK
<1>1. IInv => TypeOK
  BY DEF IInv
<1> QED
  BY <1>1, Invariance, PTL

\* No value is created or lost: what is pending of an order and what was allocated of
\* it always add up to what it is worth.
THEOREM ValueIsConserved == Spec => []Conservation
<1>1. IInv => Conservation
  BY DEF IInv
<1> QED
  BY <1>1, Invariance, PTL

\* The counts of vencem_no_dia are always those of the batch.
THEOREM DueCountsAreExact == Spec => []DueExact
<1>1. IInv => DueExact
  BY DEF IInv
<1> QED
  BY <1>1, Invariance, PTL

\* No deadline passes with something pending.
THEOREM DeadlinesAreMet == Spec => []SettledByDeadline
<1>1. IInv => SettledByDeadline
  <2> SUFFICES ASSUME IInv, NEW o \in Ordens, ordem[o].limite < dia
               PROVE  pendente[o] = 0
    BY DEF SettledByDeadline
  <2>1. TypeOK /\ dia \in Int
    BY DEF IInv, TypeOK
  <2>2. ordem[o].conhecida < dia /\ ~(ordem[o].limite >= dia)
    BY <2>1, OrdemIs
  <2> QED
    BY <2>2 DEF IInv, Batch, Conhecida
<1> QED
  BY <1>1, Invariance, PTL

\* None of the errors that executar_p0 can raise is raised.
THEOREM NothingIsRaised == Spec => []NeverRaises
<1>1. IInv => NeverRaises
  BY DEF IInv, Control, NeverRaises
<1> QED
  BY <1>1, Invariance, PTL

\* No batch with an order in it outlives the window.
THEOREM WindowIsKept == Spec => []WindowHolds
<1>1. IInv => WindowHolds
  BY DEF IInv, Control
<1> QED
  BY <1>1, Invariance, PTL

\* Every cycle matches all that its smaller side holds.
THEOREM MatchIsMinimum == Spec => []MatchedIsMinimum
<1>1. IInv => MatchedIsMinimum
  BY DEF IInv
<1> QED
  BY <1>1, Invariance, PTL

\* Between two matches, what was matched out is what was matched in.
THEOREM SidesAreBalanced == Spec => []SidesBalance
<1>1. IInv => SidesBalance
  <2> SUFFICES ASSUME IInv, pc \in {"dia", "casa", "fecha", "confere", "fim"}
               PROVE  Soma(Casado, Todas("OUT")) = Soma(Casado, Todas("IN"))
    BY DEF SidesBalance, Casado, Todas
  <2>1. Falta("OUT") = 0 /\ Falta("IN") = 0
    BY DEF Falta
  <2>2. Soma(Casado, Todas("OUT")) \in Nat /\ Soma(Casado, Todas("IN")) \in Nat
    BY CasadoIs, SetsAre, SomaNat DEF IInv
  <2> QED
    BY <2>1, <2>2 DEF IInv, Matched
<1> QED
  BY <1>1, Invariance, PTL

-----------------------------------------------------------------------------
(* What a step may not do                                                    *)

\* Only the consumption of a queue and the close change what was allocated.
LEMMA Allocates ==
    ASSUME Next, ~Consome, ~Fecha
    PROVE  alocado' = alocado
BY DEF Next, Dia, CasaCliente, CasaTodos, FimDaFila, Confere

\* An order crosses the border when it is due, or the horizon ends, and on the side
\* that has more.
THEOREM RemittancesAreDue == Spec => RemittedOnlyWhenDue
<1> DEFINE A == \A o \in Ordens :
                  alocado'[o]["REMETIDO"] # alocado[o]["REMETIDO"] =>
                    /\ dia = ordem[o].limite \/ dia = HorizonteDias
                    /\ ordem[o].direcao = ciclos'[Len(ciclos')].direcao
<1>1. ASSUME IInv, Next
      PROVE  A
  <2> SUFFICES ASSUME NEW o \in Ordens,
                      alocado'[o]["REMETIDO"] # alocado[o]["REMETIDO"]
               PROVE  /\ dia = ordem[o].limite \/ dia = HorizonteDias
                      /\ ordem[o].direcao = ciclos'[Len(ciclos')].direcao
    OBVIOUS
  <2>1. CASE Consome
    BY <1>1, <2>1, ConsomeIs, GivesBooks
  <2>2. CASE Fecha
    <3>1. o \in Vencidas
      BY <2>2 DEF Fecha
    <3>2. TypeOK /\ dia \in Int
      BY <1>1 DEF IInv, TypeOK
    <3>3. o \in abertas /\ (ordem[o].limite <= dia \/ dia = HorizonteDias)
      BY <3>1 DEF Vencidas
    <3>4. ordem[o].limite >= dia
      BY <1>1, <3>3 DEF IInv, Batch
    <3>5. dia = ordem[o].limite \/ dia = HorizonteDias
      BY <3>2, <3>3, <3>4, OrdemIs
    <3> DEFINE direcao == IF ciclo.out >= ciclo.in THEN "OUT" ELSE "IN"
               novo == [dia |-> dia, out |-> ciclo.out, in |-> ciclo.in,
                        casado |-> ciclo.casado, residuo |-> Soma(pendente, Vencidas),
                        direcao |-> direcao]
    <3>6. ordem[o].direcao = direcao /\ ciclos' = Append(ciclos, novo)
      BY <1>1, <2>2, <3>1, CloseIs
    <3>7. ciclos'[Len(ciclos')] = novo
      <4>1. \E S : ciclos \in Seq(S)
        BY <3>2 DEF TypeOK
      <4> HIDE DEF novo
      <4> QED
        BY <3>6, <4>1
    <3> QED
      BY <3>5, <3>6, <3>7
  <2>3. CASE ~Consome /\ ~Fecha
    BY <1>1, <2>3, Allocates
  <2> QED
    BY <2>1, <2>2, <2>3
<1>2. IInv /\ [Next]_vars => [A]_vars
  BY <1>1
<1>3. [][A]_vars => RemittedOnlyWhenDue
  BY PTL DEF RemittedOnlyWhenDue
<1> HIDE DEF A
<1> QED
  BY <1>2, <1>3, Invariance, PTL DEF Spec

\* No client waits for another while it could match itself, and no order is served
\* before a more urgent one of its queue.
THEOREM UrgencyIsRespected == Spec => UrgentFirst
<1> DEFINE A == \A o \in Ordens :
         /\ alocado'[o]["INTER_CLIENTE"] # alocado[o]["INTER_CLIENTE"] =>
              /\ \A c \in Clientes : Fila(c, "OUT") = {} \/ Fila(c, "IN") = {}
              /\ \A p \in Fila(Nenhum, ordem[o].direcao) :
                    MaisUrgente(p, o) => pendente'[p] = 0
         /\ alocado'[o]["INTRA_CLIENTE"] # alocado[o]["INTRA_CLIENTE"] =>
              \A p \in Fila(ordem[o].cliente, ordem[o].direcao) :
                    MaisUrgente(p, o) => pendente'[p] = 0
<1>1. ASSUME IInv, Next
      PROVE  A
  <2> SUFFICES ASSUME NEW o \in Ordens
               PROVE  /\ alocado'[o]["INTER_CLIENTE"] # alocado[o]["INTER_CLIENTE"] =>
                           /\ \A c \in Clientes : Fila(c, "OUT") = {} \/ Fila(c, "IN") = {}
                           /\ \A p \in Fila(Nenhum, ordem[o].direcao) :
                                 MaisUrgente(p, o) => pendente'[p] = 0
                      /\ alocado'[o]["INTRA_CLIENTE"] # alocado[o]["INTRA_CLIENTE"] =>
                           \A p \in Fila(ordem[o].cliente, ordem[o].direcao) :
                                 MaisUrgente(p, o) => pendente'[p] = 0
    OBVIOUS
  <2>1. CASE Consome
    <3>1. PICK x : Gasta(x) /\ \A p \in casamento.fila \ {x} : Antes(x, p)
      BY <2>1, ConsomeIs
    <3>2. /\ x \in Ordens /\ ordem[x].direcao = casamento.direcao
          /\ casamento.fila = Fila(casamento.cliente, casamento.direcao)
          /\ pc = "consome" /\ x \in casamento.fila /\ TypeOK
      BY <1>1, <3>1, Gives DEF Gasta, IInv
    <3>3. CASE x # o
      <4>1. alocado'[o] = alocado[o]
        BY <1>1, <3>1, <3>3, GivesBooks
      <4> QED
        BY <4>1
    <3>4. CASE x = o
      <4>1. ASSUME NEW p \in Fila(casamento.cliente, ordem[o].direcao)
            PROVE  ~MaisUrgente(p, o)
        <5>1. p \in Ordens /\ p \in casamento.fila
          BY <3>2, <3>4, <4>1, SetsAre
        <5>2. /\ ordem[p].limite \in Int /\ ordem[o].limite \in Int /\ p \in Int /\ o \in Int
          BY <3>2, <5>1, OrdemIs, NettingAssumption DEF NettingAssumption
        <5>3. p = o \/ Antes(o, p)
          BY <3>1, <3>4, <5>1
        <5> QED
          BY <5>2, <5>3 DEF MaisUrgente, Antes
      <4>2. alocado' = [alocado EXCEPT ![o][Origem] = @ + Usa(o)]
        BY <3>1, <3>4 DEF Gasta
      <4>3. alocado \in [Ordens -> [Tipos -> Nat]]
        BY <3>2 DEF TypeOK
      <4>4. \A t \in Tipos : t # Origem => alocado'[o][t] = alocado[o][t]
        BY <4>2, <4>3
      <4>5. CASE casamento.cliente = Nenhum
        <5>1. Origem = "INTER_CLIENTE"
          BY <4>5 DEF Origem
        <5>2. alocado'[o]["INTRA_CLIENTE"] = alocado[o]["INTRA_CLIENTE"]
          BY <4>4, <5>1 DEF Tipos, Origens
        <5>3. clientes = {}
          BY <1>1, <3>2, <4>5 DEF IInv, Control
        <5>4. \A c \in Clientes : Fila(c, "OUT") = {} \/ Fila(c, "IN") = {}
          BY <1>1, <3>2, <4>5, <5>3, NettingAssumption DEF IInv, Sides, NettingAssumption
        <5> QED
          BY <4>1, <4>5, <5>2, <5>4
      <4>6. CASE casamento.cliente # Nenhum
        <5>1. Origem = "INTRA_CLIENTE"
          BY <4>6 DEF Origem
        <5>2. alocado'[o]["INTER_CLIENTE"] = alocado[o]["INTER_CLIENTE"]
          BY <4>4, <5>1 DEF Tipos, Origens
        <5>3. ordem[o].cliente = casamento.cliente
          BY <3>2, <3>4, <4>6 DEF Fila, FilaDe
        <5> QED
          BY <4>1, <5>2, <5>3
      <4> QED
        BY <4>5, <4>6
    <3> QED
      BY <3>3, <3>4
  <2>2. CASE Fecha
    <3>1. /\ alocado'[o]["INTRA_CLIENTE"] = alocado[o]["INTRA_CLIENTE"]
          /\ alocado'[o]["INTER_CLIENTE"] = alocado[o]["INTER_CLIENTE"]
      <4>1. alocado[o] \in [Tipos -> Nat]
        BY <1>1 DEF IInv, TypeOK
      <4>2. alocado'[o] = IF o \in Vencidas
                          THEN [alocado[o] EXCEPT !["REMETIDO"] = @ + Remetido(o)]
                          ELSE alocado[o]
        BY <2>2 DEF Fecha
      <4> QED
        BY <4>1, <4>2 DEF Tipos, Origens
    <3> QED
      BY <3>1
  <2>3. CASE ~Consome /\ ~Fecha
    BY <1>1, <2>3, Allocates
  <2> QED
    BY <2>1, <2>2, <2>3
<1>2. IInv /\ [Next]_vars => [A]_vars
  BY <1>1
<1>3. [][A]_vars => UrgentFirst
  BY PTL DEF UrgentFirst
<1> HIDE DEF A
<1> QED
  BY <1>2, <1>3, Invariance, PTL DEF Spec
=============================================================================
