------------------------ MODULE MCInterferenceEngine ------------------------
(***************************************************************************)
(* Instances of InterferenceEngine small enough for TLC: a document with   *)
(* a body and a header, a card of the second editor's and a comment in it, *)
(* scripts that between them use every kind of interference, and a client  *)
(* that reads, suggests, decides and replies.                              *)
(***************************************************************************)
EXTENDS InterferenceEngine

CONSTANTS me, bob

BodyAndHeader == [body |-> 2, header |-> 1]

\* Places: an index, the end, or next to a character.
At(n) == [how |-> "at", n |-> n, cp |-> <<>>]
AtEnd == [how |-> "end", n |-> 0, cp |-> <<>>]
BeforeChar(cp) == [how |-> "before", n |-> 0, cp |-> cp]
AfterChar(cp) == [how |-> "after", n |-> 0, cp |-> cp]
FirstChar == <<"base", 1>>
SecondChar == <<"base", 2>>

\* Operations of either editor.
Suggest(mode, seg, at, by) ==
    [kind |-> "overlapping_suggestion", mode |-> mode, seg |-> seg, at |-> at, by |-> by]
Decide(action, sid) == [kind |-> "resolve_under_agent", action |-> action, sid |-> sid]
Type(seg, at, suggest) ==
    [kind |-> "shift_insert", seg |-> seg, at |-> at, suggest |-> suggest, by |-> bob]
Strike(seg, at, suggest) ==
    [kind |-> "shift_delete", seg |-> seg, at |-> at, suggest |-> suggest, by |-> bob]
Close(action) == [kind |-> "resolve_thread", action |-> action, comment |-> 1, by |-> bob]
Say(on, by) ==
    [kind |-> "reply_thread", on |-> on, sid |-> <<bob, 1>>, comment |-> 1, by |-> by]

BobsCardAndComment ==
    <<Suggest("deletion", "body", At(1), bob), [kind |-> "comment", by |-> bob]>>
BobsCard == <<bob, 1>>

Fires(name, when, tools, nth, op) ==
    [name |-> name, trigger |-> [when |-> when, tools |-> tools, nth |-> nth], op |-> op]

MCScripts ==
    {<<Fires("accept", "after", {"list"}, 1, Decide("accept", BobsCard)),
       Fires("shift", "before", {"edit"}, 1, Type("body", BeforeChar(FirstChar), FALSE)),
       Fires("absorb", "after", {}, 2, [kind |-> "merge_absorb", by |-> me])>>,
     <<Fires("reject", "before", {"edit"}, 2, Decide("reject", BobsCard)),
       Fires("cut", "after", {"edit", "list"}, 1, Strike("body", At(0), FALSE)),
       Fires("close", "after", {"list"}, 1, Close("resolve"))>>,
     <<Fires("over", "after", {}, 1, Suggest("insertion", "header", AfterChar(FirstChar), bob)),
       Fires("gone", "before", {}, 2, Close("delete")),
       Fires("swap", "after", {"edit"}, 2, Suggest("replacement", "body", At(1), bob))>>,
     <<Fires("suggest", "before", {}, 1, Type("body", AtEnd, TRUE)),
       Fires("strike", "after", {"edit"}, 1, Strike("header", At(0), TRUE)),
       Fires("say", "after", {}, 2, Say("suggestion", bob))>>}

Call(tool, op) == [tool |-> tool, op |-> op]
MCCalls ==
    {Call("list", NoOp),
     Call("edit", Suggest("insertion", "body", AfterChar(FirstChar), me)),
     Call("edit", Suggest("replacement", "body", BeforeChar(SecondChar), me)),
     Call("edit", Decide("accept", BobsCard)),
     Call("reply", Say("comment", me))}
=============================================================================
