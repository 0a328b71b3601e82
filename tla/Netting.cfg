SPECIFICATION Spec
CHECK_DEADLOCK FALSE
CONSTANTS
    Ordens = {1, 2, 3, 4}
    Clientes = {1, 2}
    Cenarios <- DoisContraDois
    JanelaDias = 2
    HorizonteDias = 3
    UltimoDia = 3
    ValorMaximo = 3
    Nenhum = 0
INVARIANTS Conservation SettledByDeadline NeverRaises MatchedIsMinimum
PROPERTIES RemittedOnlyWhenDue UrgentFirst
