----------------------------- MODULE PackStore -----------------------------
(***************************************************************************)
(* What the launcher promises about content packs, without catalogs,       *)
(* screens, downloads and transactions: a change that a user asks for is   *)
(* made in one step, once, between the choice and the answer, or not at    *)
(* all; success is answered only where the pack is at the release asked    *)
(* for; one change is under way at a time; and closing the window, a kill, *)
(* a failure or a recovery changes nothing.  ContentPacks implements it.   *)
(***************************************************************************)
EXTENDS Integers, Sequences

CONSTANTS Packs, Releases, Threads, Directories

VARIABLES installed,  \* the release of each pack (0: not installed)
          game,       \* the version of the game
          kept,       \* the directories with a file of the user's own
          request,    \* per thread: the change it was asked for, or its answer
          rewound,    \* an operation has undone what another had left open
          blind       \* a pack was removed with a catalog that hid a dependent

pvars == <<installed, game, kept, request, rewound, blind>>

None == [state |-> "none"]
Answer(answer) == [state |-> answer]
Request(state, p, n) == [state |-> state, pack |-> p, release |-> n]

Underway(r) == r.state \in {"asked", "made"}

Init ==
    /\ installed = [p \in Packs |-> 0]
    /\ game = 1
    /\ kept = {}
    /\ request = [t \in Threads |-> None]
    /\ rewound = FALSE /\ blind = FALSE

VersionOf(id) == IF id \in Packs THEN installed[id] ELSE game

(* What release n of a pack needs is there. *)
Met(p, n) ==
    \A id \in DOMAIN Releases[p][n].depends : VersionOf(id) \in Releases[p][n].depends[id]

(* No pack that is installed needs pack p. *)
Unneeded(p) ==
    \A q \in Packs : installed[q] # 0 => p \notin DOMAIN Releases[q][installed[q]].depends

(* The user asks for a release of a pack, or for its removal (release 0). *)
Ask(t) ==
    /\ request[t] = None
    /\ \A u \in Threads : ~Underway(request[u])
    /\ \E p \in Packs : \E n \in 0 .. Len(Releases[p]) :
           request' = [request EXCEPT ![t] = Request("asked", p, n)]
    /\ UNCHANGED <<installed, game, kept, rewound, blind>>

(* The change takes effect; a removal is answered in the same step. *)
Make(t) ==
    LET p == request[t].pack
        n == request[t].release
    IN  /\ request[t].state = "asked"
        /\ request' = [request EXCEPT ![t] =
                          IF n = 0 THEN Answer("success") ELSE Request("made", p, n)]
        /\ installed' = [installed EXCEPT ![p] = n]
        /\ ~rewound /\ n # 0 => Met(p, n)
        /\ ~rewound /\ ~blind /\ n = 0 => Unneeded(p)
        /\ UNCHANGED <<game, kept, rewound, blind>>

(* A failure is answered also where a change was made: what an update left *)
(* behind is verified after it.                                            *)
Fail(t) ==
    /\ Underway(request[t])
    /\ request' = [request EXCEPT ![t] = Answer("failure")]
    /\ UNCHANGED <<installed, game, kept, rewound, blind>>

Succeed(t) ==
    /\ Underway(request[t])
    /\ request' = [request EXCEPT ![t] = Answer("success")]
    /\ installed[request[t].pack] = request[t].release
    /\ UNCHANGED <<installed, game, kept, rewound, blind>>

(* The answer is shown. *)
Show(t) ==
    /\ request[t] \in {Answer("success"), Answer("failure")}
    /\ request' = [request EXCEPT ![t] = None]
    /\ UNCHANGED <<installed, game, kept, rewound, blind>>

(* The launcher ends, is killed, or starts the game. *)
Stop ==
    /\ request' = [t \in Threads |-> None]
    /\ UNCHANGED <<installed, game, kept, rewound, blind>>

(* What a change rests on was not what it seemed. *)
Mislead(t) ==
    /\ request[t].state = "asked"
    /\ rewound' \in {rewound, TRUE} /\ blind' \in {blind, TRUE}
    /\ UNCHANGED <<installed, game, kept, request>>

(* The game is updated while no pack is changed. *)
UpdateGame ==
    /\ \A t \in Threads : ~Underway(request[t])
    /\ game' = game + 1
    /\ UNCHANGED <<installed, kept, request, rewound, blind>>

(* The user puts a file of their own beside a pack's. *)
Keep(d) ==
    /\ kept' = kept \cup {d}
    /\ UNCHANGED <<installed, game, request, rewound, blind>>

Next ==
    \/ \E t \in Threads : Ask(t) \/ Make(t) \/ Fail(t) \/ Succeed(t) \/ Show(t) \/ Mislead(t)
    \/ Stop \/ UpdateGame
    \/ \E d \in Directories : Keep(d)

Spec == Init /\ [][Next]_pvars

(* What follows from this alone: no installed pack misses one it needs. *)
DependenciesHold ==
    ~rewound /\ ~blind =>
        \A p \in Packs : installed[p] # 0 =>
            \A q \in Packs \cap DOMAIN Releases[p][installed[p]].depends : installed[q] # 0
=============================================================================
