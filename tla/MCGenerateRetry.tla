--------------------------- MODULE MCGenerateRetry ---------------------------
(* Two requests and two accounts with one slot each: requests that want a   *)
(* file of each other's account, one that may use both channels beside one  *)
(* that copies, and a pinned one beside one that sends media.               *)
EXTENDS GenerateRetry

CONSTANTS r1, r2, a1, a2

Asks(pinned, files, inline, unary, causes, mishaps) ==
  [pinned |-> pinned, files |-> files, inline |-> inline, unary |-> unary,
   causes |-> causes, mishaps |-> mishaps]

Play(first, second, upsets1, upsets2) ==
  [ask |-> [r \in Requests |-> IF r = r1 THEN first ELSE second],
   upsets |-> [a \in Accounts |-> IF a = a1 THEN upsets1 ELSE upsets2]]

Plays ==
  {Play(Asks(None, <<a1, a2>>, FALSE, FALSE, {"waa"}, {"gone"}),
        Asks(None, <<a2, a1>>, TRUE, FALSE, {"auth", "waa"}, {"release"}),
        {"expired"}, {}),
   Play(Asks(None, <<a1, a2>>, FALSE, FALSE, {"globalQuota"}, {}),
        Asks(None, <<>>, TRUE, TRUE, {"quota"}, {"mark", "overtaken"}),
        {}, {"cooled"}),
   Play(Asks(a1, <<>>, FALSE, FALSE, {"waa", "fatal"}, {"close"}),
        Asks(None, <<>>, TRUE, FALSE, {"worker", "replaced"}, {"release"}),
        {"renewed"}, {"disabled"}),
   Play(Asks(None, <<a1>>, FALSE, FALSE, {}, {}),
        Asks(None, <<>>, FALSE, FALSE, {"globalQuota", "server"}, {"blocked", "cancelled"}),
        {}, {})}
=============================================================================
