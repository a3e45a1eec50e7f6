---------------------------- MODULE MCScheduling ----------------------------
(* Two TPs and five codelets: root adds ca and invokes sub, whose          *)
(* constructor adds cb and cc; ca signals ce, and cb, cc and ce signal cd. *)
(* Four codelets name a worker, and NoHint names none.  MCStatus sends ce  *)
(* from worker to worker, and cb to the worker that gets ce.               *)
EXTENDS Scheduling, TLC
CONSTANTS root, sub, ca, cb, cc, cd, ce
NoHint == 9
MCDeps == (ca :> 0) @@ (cb :> 0) @@ (cc :> 0) @@ (ce :> 1) @@ (cd :> 3)
MCBody == (root :> <<ca, sub>>) @@ (sub :> <<cb, cc>>) @@ (ca :> <<ce>>) @@
          (cb :> <<cd>>) @@ (cc :> <<cd>>) @@ (ce :> <<cd>>) @@ (cd :> <<>>)
MCHint == (ca :> NoHint) @@ (cb :> 0) @@ (cc :> 0) @@ (ce :> 1) @@ (cd :> 1)
NoStatus == [x \in {ca, cb, cc, cd, ce} |-> 0]
MCStatus == (ca :> 1) @@ (cb :> 2) @@ (cc :> 0) @@ (ce :> 2) @@ (cd :> 2)
TakesAll == {"standard", "static", "hint"}
OneCluster ==
  {<<1, 2, NoStatus, p[1], p[2]>> :
     p \in ({"roundrobin", "hint"} \X TakesAll) \cup
           ({"pushfull", "static", "dynamic"} \X MCPolicies)}
TwoClusters ==
  {<<2, 1, MCStatus, p[1], p[2]>> :
     p \in {<<"roundrobin", "standard">>, <<"pushfull", "steal">>, <<"static", "static">>,
            <<"dynamic", "dynamic">>, <<"hint", "hint">>}}
WithStatus == {<<1, 2, MCStatus, "static", m>> : m \in MCPolicies}
Machines == OneCluster \cup WithStatus \cup TwoClusters
HintOnly == {<<2, 2, NoStatus, "hint", "hint">>}
=============================================================================
