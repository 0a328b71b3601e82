----------------------------- MODULE NettingP0 ------------------------------
(***************************************************************************)
(* The multilateral netting of one scenario under the fixed-window policy  *)
(* P0, executar_p0 of motor/netting.py.  A state is what the function      *)
(* holds between two turns of its loops: a turn of the day loop, a match   *)
(* set up, one order of one queue consumed, a cycle closed.                *)
(*                                                                         *)
(* Amounts are whole numbers of the smallest unit.  "abertas" is a set: the *)
(* list of the code is always sorted by _prioridade, which is total, so the *)
(* set and the order say the same.  The list of allocations is kept as what *)
(* it allocates to each order, by kind.                                     *)
(*                                                                         *)
(* A definition named X_slip is X with a mistake a maintainer could make;  *)
(* nothing uses it.                                                        *)
(***************************************************************************)
EXTENDS Integers, Sequences, FiniteSets

CONSTANTS
    Ordens,         \* ids of the orders, compared as numbers
    Clientes,       \* ids of the clients, compared as numbers
    Cenarios,       \* the validated scenarios to run
    JanelaDias, HorizonteDias,
    UltimoDia,      \* no deadline is after this day
    ValorMaximo,    \* no order is worth more than this
    Nenhum          \* no client

Direcoes == {"OUT", "IN"}
Dias     == 0..UltimoDia

Ordem ==
    [cliente : Clientes, direcao : Direcoes, valor : 1..ValorMaximo,
     conhecida : 0..HorizonteDias, limite : Dias]

ASSUME NettingAssumption ==
    /\ IsFiniteSet(Ordens) /\ Ordens \subseteq Nat
    /\ IsFiniteSet(Clientes) /\ Clientes \subseteq Nat
    /\ JanelaDias \in Nat \ {0} /\ HorizonteDias \in Nat /\ ValorMaximo \in Nat
    /\ UltimoDia \in Nat /\ HorizonteDias <= UltimoDia
    /\ Nenhum \notin Clientes
    /\ \A c \in Cenarios :
          c \in [Ordens -> Ordem] /\ \A o \in Ordens : c[o].conhecida <= c[o].limite

VARIABLES
    ordem,          \* the scenario
    pendente,       \* what is still to be allocated of each order
    abertas,        \* known orders not yet settled
    vencem,         \* vencem_no_dia: how many open orders fall due on each day
    dia, fechamento,        \* the day, and dia_ultimo_fechamento
    pc,             \* where the function is
    clientes,       \* clientes_duas_pontas still to be matched
    casamento,      \* the match under way: its client, direction, queue, rest, volume
    alocado,        \* what was allocated to each order, by kind
    ciclo,          \* the gross sides and the matched volume of the cycle under way
    ciclos          \* the closed cycles

vars == <<ordem, pendente, abertas, vencem, dia, fechamento, pc, clientes, casamento,
          alocado, ciclo, ciclos>>

Origens == {"INTRA_CLIENTE", "INTER_CLIENTE"}
Tipos   == Origens \cup {"REMETIDO"}

Menor(a, b) == IF a <= b THEN a ELSE b

\* The sum of p over S, counted unit by unit.
Unidades(p, S) == {u \in S \X (1..ValorMaximo) : u[2] <= p[u[1]]}
Soma(p, S)     == Cardinality(Unidades(p, S))

\* First in, first out.
Antes_slip(a, b) ==
    \/ ordem[a].conhecida < ordem[b].conhecida
    \/ ordem[a].conhecida = ordem[b].conhecida /\ a < b

\* _prioridade: the earlier deadline first, then the smaller id.
Antes(a, b) ==
    \/ ordem[a].limite < ordem[b].limite
    \/ ordem[a].limite = ordem[b].limite /\ a < b

NenhumCasamento ==
    [cliente |-> Nenhum, direcao |-> "OUT", fila |-> {}, restante |-> 0, valor |-> 0]

NenhumCiclo == [out |-> 0, in |-> 0, casado |-> 0]

Init ==
    /\ ordem \in Cenarios
    /\ pendente = [o \in Ordens |-> ordem[o].valor]
    /\ abertas = {}
    /\ vencem = [d \in Dias |-> 0]
    /\ dia = 0 /\ fechamento = -1
    /\ pc = "dia"
    /\ clientes = {}
    /\ casamento = NenhumCasamento
    /\ alocado = [o \in Ordens |-> [t \in Tipos |-> 0]]
    /\ ciclo = NenhumCiclo
    /\ ciclos = <<>>

-----------------------------------------------------------------------------
(* The day *)

\* Orders of a batch in one direction with something pending, of one client or of all.
FilaDe(S, quem, direcao) ==
    {o \in S : /\ ordem[o].direcao = direcao
               /\ pendente[o] > 0
               /\ quem # Nenhum => ordem[o].cliente = quem}

Fila(quem, direcao) == FilaDe(abertas, quem, direcao)

Chegam == {o \in Ordens : ordem[o].conhecida = dia}

Vencendo(S, d) == Cardinality({o \in S : ordem[o].limite = d})

JanelaCompleta == dia - fechamento >= JanelaDias

\* A deadline does not close the batch.
DeveFechar_slip(venceHoje) == JanelaCompleta \/ dia = HorizonteDias

DeveFechar(venceHoje) == venceHoje \/ JanelaCompleta \/ dia = HorizonteDias

\* What orders are worth, whatever earlier cycles covered of them.
Bruto_slip(S, direcao) ==
    Soma([o \in Ordens |-> ordem[o].valor], {o \in S : ordem[o].direcao = direcao})

\* The gross side of a cycle: what is pending of its orders.
Bruto(S, direcao) == Soma(pendente, {o \in S : ordem[o].direcao = direcao})

ProximoDia ==
    /\ dia' = dia + 1
    /\ pc' = IF dia = HorizonteDias THEN "confere" ELSE "dia"

\* The orders that become known enter; the batch is left open, or closes.
Dia ==
    /\ pc = "dia"
    /\ abertas' = abertas \cup Chegam
    /\ vencem' = [d \in Dias |-> vencem[d] + Vencendo(Chegam, d)]
    /\ IF abertas' # {} /\ DeveFechar(vencem'[dia] > 0)
       THEN /\ pc' = "casa"
            /\ clientes' = {c \in Clientes : /\ FilaDe(abertas', c, "OUT") # {}
                                          /\ FilaDe(abertas', c, "IN") # {}}
            /\ ciclo' = [out |-> Bruto(abertas', "OUT"), in |-> Bruto(abertas', "IN"),
                         casado |-> 0]
            /\ UNCHANGED dia
       ELSE /\ ProximoDia
            /\ UNCHANGED <<clientes, ciclo>>
    /\ UNCHANGED <<ordem, pendente, fechamento, casamento, alocado, ciclos>>

-----------------------------------------------------------------------------
(* The matches *)

\* Both queues give up the same volume, all that the smaller one holds.
Comeca(quem) ==
    LET valor == Menor(Soma(pendente, Fila(quem, "OUT")), Soma(pendente, Fila(quem, "IN")))
    IN  /\ casamento' = [cliente |-> quem, direcao |-> "OUT", fila |-> Fila(quem, "OUT"),
                         restante |-> valor, valor |-> valor]
        /\ ciclo' = [ciclo EXCEPT !.casado = @ + valor]
        /\ pc' = "consome"

\* The two sides of one client, in the order of the clients ...
CasaCliente ==
    /\ pc = "casa"
    /\ \E c \in clientes :
          /\ \A d \in clientes : c <= d
          /\ Comeca(c)
          /\ clientes' = clientes \ {c}
    /\ UNCHANGED <<ordem, pendente, abertas, vencem, dia, fechamento, alocado, ciclos>>

\* ... then, with no client left, what remains of all of them.
CasaTodos ==
    /\ pc = "casa" /\ clientes = {}
    /\ Comeca(Nenhum)
    /\ UNCHANGED <<ordem, pendente, abertas, vencem, dia, fechamento, clientes, alocado, ciclos>>

Origem == IF casamento.cliente = Nenhum THEN "INTER_CLIENTE" ELSE "INTRA_CLIENTE"

Usa(o) == Menor(pendente[o], casamento.restante)

\* _consumir_casamento, one order: the first of the queue gives what it can.
Consome ==
    /\ pc = "consome" /\ casamento.restante > 0
    /\ \E o \in casamento.fila :
          /\ \A p \in casamento.fila \ {o} : Antes(o, p)
          /\ pendente' = [pendente EXCEPT ![o] = @ - Usa(o)]
          /\ alocado' = [alocado EXCEPT ![o][Origem] = @ + Usa(o)]
          /\ casamento' = [casamento EXCEPT !.fila = @ \ {o}, !.restante = @ - Usa(o)]
    /\ UNCHANGED <<ordem, abertas, vencem, dia, fechamento, pc, clientes, ciclo, ciclos>>

SegundoLado ==
    [casamento EXCEPT !.direcao = "IN", !.fila = Fila(casamento.cliente, "IN"),
                      !.restante = casamento.valor]

\* The end of a queue: the other side's turn, or the end of the match.
FimDaFila ==
    /\ pc = "consome"
    /\ casamento.restante = 0 \/ casamento.fila = {}
    /\ IF casamento.restante # 0
       THEN pc' = "falhou" /\ UNCHANGED casamento
       ELSE IF casamento.direcao = "OUT"
       THEN casamento' = SegundoLado /\ UNCHANGED pc
       ELSE /\ pc' = IF casamento.cliente = Nenhum THEN "fecha" ELSE "casa"
            /\ casamento' = NenhumCasamento
    /\ UNCHANGED <<ordem, pendente, abertas, vencem, dia, fechamento, clientes, alocado,
                   ciclo, ciclos>>

-----------------------------------------------------------------------------
(* The close *)

\* Any deadline in the batch sends out the whole batch.
Vencidas_slip == {o \in abertas : pendente[o] > 0}

\* Orders with something pending that can wait no longer: they cross the border.
Vencidas ==
    {o \in abertas : pendente[o] > 0 /\ (ordem[o].limite <= dia \/ dia = HorizonteDias)}

\* An order that crosses the border stays in the batch.
Saem_slip == {o \in abertas : pendente[o] = 0}

Saem == {o \in abertas : pendente[o] = 0} \cup Vencidas

Baixa(d) == Vencendo(Saem, d)

\* The whole order crosses the border, whatever was matched of it.
Remetido_slip(o) == ordem[o].valor

Remetido(o) == pendente[o]

Fecha ==
    /\ pc = "fecha"
    /\ alocado' = [o \in Ordens |-> IF o \in Vencidas
                                    THEN [alocado[o] EXCEPT !["REMETIDO"] = @ + Remetido(o)]
                                    ELSE alocado[o]]
    /\ pendente' = [o \in Ordens |-> IF o \in Vencidas THEN 0 ELSE pendente[o]]
    /\ vencem' = [d \in Dias |-> vencem[d] - Baixa(d)]
    /\ abertas' = abertas \ Saem
    /\ IF ciclo.casado > ciclo.out \/ ciclo.casado > ciclo.in
       THEN pc' = "falhou" /\ UNCHANGED <<dia, fechamento, ciclos>>
       ELSE /\ ciclos' = Append(ciclos,
                   [dia |-> dia, out |-> ciclo.out, in |-> ciclo.in, casado |-> ciclo.casado,
                    residuo |-> Soma(pendente, Vencidas),
                    direcao |-> IF ciclo.out >= ciclo.in THEN "OUT" ELSE "IN"])
            /\ fechamento' = dia
            /\ ProximoDia
    /\ ciclo' = NenhumCiclo
    /\ UNCHANGED <<ordem, clientes, casamento>>

Total(o) == alocado[o]["INTRA_CLIENTE"] + alocado[o]["INTER_CLIENTE"] + alocado[o]["REMETIDO"]

\* The last checks, _validar_conservacao included.
Confere ==
    /\ pc = "confere"
    /\ pc' = IF \/ abertas # {}
                \/ Soma([o \in Ordens |-> ordem[o].valor], Ordens)
                      # Soma([o \in Ordens |-> Total(o)], Ordens)
                \/ \E o \in Ordens : Total(o) # ordem[o].valor
             THEN "falhou" ELSE "fim"
    /\ UNCHANGED <<ordem, pendente, abertas, vencem, dia, fechamento, clientes, casamento,
                   alocado, ciclo, ciclos>>

Next == Dia \/ CasaCliente \/ CasaTodos \/ Consome \/ FimDaFila \/ Fecha \/ Confere

\* The function runs: it is sequential and nothing can stop it halfway.
Spec == Init /\ [][Next]_vars /\ WF_vars(Next)
-----------------------------------------------------------------------------
TypeOK ==
    /\ ordem \in Cenarios
    /\ pendente \in [Ordens -> 0..ValorMaximo]
    /\ abertas \in SUBSET Ordens
    /\ vencem \in [Dias -> Nat]
    /\ dia \in 0..(HorizonteDias + 1) /\ fechamento \in -1..HorizonteDias
    /\ pc \in {"dia", "casa", "consome", "fecha", "confere", "fim", "falhou"}
    /\ clientes \in SUBSET Clientes
    /\ casamento \in [cliente : Clientes \cup {Nenhum}, direcao : Direcoes,
                      fila : SUBSET Ordens, restante : Nat, valor : Nat]
    /\ alocado \in [Ordens -> [Tipos -> Nat]]
    /\ ciclo \in [out : Nat, in : Nat, casado : Nat]
    /\ ciclos \in Seq([dia : 0..HorizonteDias, out : Nat, in : Nat, casado : Nat,
                       residuo : Nat, direcao : Direcoes])

\* What is allocated to an order and what is pending of it are always its value,
\* so no order is lost, doubled or split into more than it is worth.
Conservation == \A o \in Ordens : Total(o) + pendente[o] = ordem[o].valor

\* vencem_no_dia is maintained by hand in two loops; it must always count the open
\* orders of each deadline, or a deadline day passes without a close.
DueExact == \A d \in Dias : vencem[d] = Vencendo(abertas, d)

\* No order is still pending after its deadline, whatever the window.
SettledByDeadline == \A o \in Ordens : ordem[o].limite < dia => pendente[o] = 0

\* Every match fits its two sides and every check at the end passes: none of the
\* errors the function can raise on a valid scenario is ever raised.
NeverRaises == pc # "falhou"

\* A cycle matches as much as its smaller side holds, no less, and what crosses the
\* border in it fits in what the other side has left.
MatchedIsMinimum ==
    \A k \in DOMAIN ciclos :
        LET c == ciclos[k]
        IN  /\ c.casado = Menor(c.out, c.in)
            /\ c.residuo <= (IF c.direcao = "OUT" THEN c.out ELSE c.in) - c.casado

\* Money matched out equals money matched in, at the end of every cycle.
SidesBalance ==
    LET Casado(direcao) ==
          Soma([o \in Ordens |-> alocado[o]["INTRA_CLIENTE"] + alocado[o]["INTER_CLIENTE"]],
               {o \in Ordens : ordem[o].direcao = direcao})
    IN  pc \in {"dia", "casa", "fecha", "confere", "fim"} => Casado("OUT") = Casado("IN")

\* No batch with an order in it stays open longer than the window.
WindowHolds == (pc = "dia" /\ abertas # {}) => dia - fechamento <= JanelaDias

\* An order crosses the border on its own deadline, or at the end of the horizon,
\* and only on the side the cycle reports: somebody else's deadline never sends it.
RemittedOnlyWhenDue ==
    [][\A o \in Ordens :
         alocado'[o]["REMETIDO"] # alocado[o]["REMETIDO"] =>
           /\ dia = ordem[o].limite \/ dia = HorizonteDias
           /\ ordem[o].direcao = ciclos'[Len(ciclos')].direcao]_vars

\* p is more urgent than o: EDF, then the id that makes two runs agree.
MaisUrgente(p, o) ==
    \/ ordem[p].limite < ordem[o].limite
    \/ ordem[p].limite = ordem[o].limite /\ p < o

\* Nothing is matched between clients while one client could still match itself, and
\* no order is matched while a more urgent one of its queue still has something left.
UrgentFirst ==
    [][\A o \in Ordens :
         /\ alocado'[o]["INTER_CLIENTE"] # alocado[o]["INTER_CLIENTE"] =>
              /\ \A c \in Clientes : Fila(c, "OUT") = {} \/ Fila(c, "IN") = {}
              /\ \A p \in Fila(Nenhum, ordem[o].direcao) :
                    MaisUrgente(p, o) => pendente'[p] = 0
         /\ alocado'[o]["INTRA_CLIENTE"] # alocado[o]["INTRA_CLIENTE"] =>
              \A p \in Fila(ordem[o].cliente, ordem[o].direcao) :
                    MaisUrgente(p, o) => pendente'[p] = 0]_vars
=============================================================================
