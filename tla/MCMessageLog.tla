---------------------------- MODULE MCMessageLog ----------------------------
(* Two Sessions.  In s1 one source has an input writer, the writer of a    *)
(* reply task and a result writer bound to a call of message m1; a writer  *)
(* of the second Session, bound to the same call, shares the id space.     *)
EXTENDS MessageLog, TLC

CONSTANTS s1, s2, m1, m2, m3, wIn, wOut, wRes, wOther, k1

G(s, a, src, kinds, call, calls) ==
    [session |-> s, author |-> a, source |-> src, kinds |-> kinds,
     call |-> call, proposesCalls |-> calls, ofTask |-> calls]

MCGrant ==
    (wIn :> G(s1, "user", "chat", {"input", "control"}, NoCall, FALSE)) @@
    (wOut :> G(s1, "model", "chat", {"output"}, NoCall, TRUE)) @@
    (wRes :> G(s1, "tool", "chat", {"tool_result"}, <<m1, 0>>, FALSE)) @@
    (wOther :> G(s2, "tool", "chat", {"input", "tool_result"}, <<m1, 0>>, FALSE))

Offer(w, body, basis) == [w |-> w, body |-> body, basis |-> basis]
InputA == [kind |-> "input", text |-> "a"]
Calling == [kind |-> "output", text |-> "a", calls |-> {0}, finish |-> "continue"]
Final == [kind |-> "output", text |-> "a", calls |-> {}, finish |-> "complete"]
Result(t) == [kind |-> "tool_result", text |-> t, ref |-> <<m1, 0>>]
Pause == [kind |-> "control", through |-> 0, action |-> "pause"]

MCOffers ==
    {Offer(wIn, InputA, NoHead), Offer(wIn, Pause, NoHead),
     Offer(wOut, Calling, -1), Offer(wOut, Final, 1),
     Offer(wRes, Result("a"), NoHead),
     Offer(wOther, InputA, NoHead), Offer(wOther, Result("a"), NoHead)}
=============================================================================
