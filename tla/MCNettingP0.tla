---------------------------- MODULE MCNettingP0 -----------------------------
(* Small instances of NettingP0: scenarios with a few orders.               *)
EXTENDS NettingP0

\* Two orders on each side, of uneven values, known before or after the first close,
\* so that an order is covered in part and meets a new one later.
OrdemDesigual(d) ==
    {x \in [cliente : Clientes, direcao : {d}, valor : {1, 3}, conhecida : {0, 2}, limite : {2, 3}] :
        x.conhecida <= x.limite}

DoisContraDois ==
    {<<a, b, c, d>> : a \in {x \in OrdemDesigual("OUT") : x.cliente = 1},
                      b \in OrdemDesigual("IN"),
                      c \in OrdemDesigual("OUT"), d \in OrdemDesigual("IN")}
=============================================================================
