----------------------------- MODULE MCClients -----------------------------
(***************************************************************************)
(* Every wallet window of the frontend, each on a small instance: `client` *)
(* selects the one a behaviour runs.  The two-start instances let one      *)
(* match, shop or stream overlap the next; the "live" ones are small       *)
(* enough to check what must eventually happen.                            *)
(***************************************************************************)
EXTENDS Naturals

CONSTANT Clients

VARIABLES client, st
vars == <<client, st>>

BJ == INSTANCE PvpBlackjack WITH Starts <- 2, Moves <- 1
BL == INSTANCE PvpBlackjack WITH Starts <- 1, Moves <- 4
TT == INSTANCE PvpTicTacToe WITH Starts <- 2, Moves <- 2
QP == INSTANCE PvpQuantumPoker WITH Starts <- 2, Moves <- 2
BS == INSTANCE PvpBattleship WITH Starts <- 2, Moves <- 2
PM == INSTANCE PvpMatch WITH Starts <- 2, Moves <- 2
SH == INSTANCE ShopSession WITH Starts <- 2, Moves <- 2
SP == INSTANCE StreamSession WITH Streams <- 2, TopUps <- 1, Total <- 3, DURATIONS <- {2},
        Longest <- 3, Lag <- TRUE
SO == INSTANCE SoloSession WITH Starts <- 2, Msgs <- 3
AL == INSTANCE Allowance WITH Agents <- 1, Scripts <- 1, Horizon <- 4, SECOND <- 2,
        CLAIM_SKEW_MS <- 1, Rates <- {1}, Caps <- {2}
WG == INSTANCE SdkWagers WITH TIMEOUT_MS <- 1, COMMIT_TIMEOUT_MS <- 1, REVEAL_TIMEOUT_MS <- 1,
        Horizon <- 5
TR == INSTANCE SdkTrades WITH Horizon <- 7, MIN_DURATION_MS <- 1, DISPUTE_WINDOW_MS <- 1,
        AUTO_RELEASE_WINDOW_MS <- 4, StartPrice <- 7, EndPrice <- 2, AuctionMs <- 3, Total <- 3,
        StreamMs <- 2, Extra <- 1, ExtraMs <- 2, MaxTopUps <- 2, LockMs <- 5,
        SWAP_TIME_BUFFER_MS <- 2, MIN_LOCK_TIME_MS <- 1, MaxLocks <- 3
OB == INSTANCE OpenBatcher WITH Requests <- 1..3, MaxBatch <- 2, Kinds <- {"open", "deposit"},
        AddressBalance <- {TRUE}, Configured <- BOOLEAN, Faucet <- 3, Pulls <- 1,
        MTPS_MIN_BALANCE <- 1, Funds <- {1}
LOB == INSTANCE OpenBatcher WITH Requests <- 1..2, MaxBatch <- 1, AddressBalance <- BOOLEAN,
        Kinds <- {"open", "deposit", "host", "guest"}, Configured <- BOOLEAN, Faucet <- 3,
        Pulls <- 1, MTPS_MIN_BALANCE <- 1, Funds <- {0, 1}
FG == INSTANCE DesktopFloor WITH Modules <- 1..2, Spares <- {3}, TileW <- 1, TileH <- 1, COLS <- 2,
        Breakpoints <- {1, 2}, MaxRow <- 1, MaxH <- 1, Gestures <- {"grid"},
        Screen <- 2, FloatW <- 1, MIN_W <- 1, STEP <- 1
FS == INSTANCE DesktopFloor WITH Modules <- 1..2, Spares <- {}, TileW <- 1, TileH <- 1, COLS <- 2,
        Breakpoints <- {1, 2}, MaxRow <- 1, MaxH <- 2, Gestures <- {"grid", "stores"},
        Screen <- 2, FloatW <- 1, MIN_W <- 1, STEP <- 1
FD == INSTANCE DesktopFloor WITH Modules <- 1..2, Spares <- {3}, TileW <- 1, TileH <- 1, COLS <- 2,
        Breakpoints <- {2}, MaxRow <- 1, MaxH <- 1, Gestures <- {"stores", "views", "disk"},
        Screen <- 2, FloatW <- 1, MIN_W <- 1, STEP <- 1
FF == INSTANCE DesktopFloor WITH Modules <- 1..2, Spares <- {}, TileW <- 1, TileH <- 1, COLS <- 2,
        Breakpoints <- {2}, MaxRow <- 1, MaxH <- 1, Gestures <- {"stores", "float", "disk"},
        Screen <- 2, FloatW <- 1, MIN_W <- 1, STEP <- 1
RL == INSTANCE MpRelay WITH MaxA <- 3, MaxB <- 1
RB == INSTANCE MpRelay WITH MaxA <- 2, MaxB <- 2
AE == INSTANCE ArenaEntry WITH Windows <- 1..3, GameOf <- <<1, 1, 2>>, Shop <- 1, MaxTunnels <- 3,
        MaxEntries <- 2
LQP == INSTANCE PvpQuantumPoker WITH Starts <- 1, Moves <- 3
LBS == INSTANCE PvpBattleship WITH Starts <- 1, Moves <- 3
LSP == INSTANCE StreamSession WITH Streams <- 1, TopUps <- 1, Total <- 2, DURATIONS <- {1, 4},
        Longest <- 5, Lag <- FALSE

Init ==
    /\ client \in Clients
    /\ \/ client = "blackjack" /\ BJ!Init
       \/ client = "long blackjack" /\ BL!Init
       \/ client = "tic tac toe" /\ TT!Init
       \/ client = "poker" /\ QP!Init
       \/ client = "battleship" /\ BS!Init
       \/ client = "match" /\ PM!Init
       \/ client = "shop" /\ SH!Init
       \/ client = "stream" /\ SP!Init
       \/ client = "solo" /\ SO!Init
       \/ client = "allowance" /\ AL!Init
       \/ client = "wager" /\ WG!Init
       \/ client = "trade" /\ TR!Init
       \/ client = "batcher" /\ OB!Init
       \/ client = "live batcher" /\ LOB!Init
       \/ client = "grid floor" /\ FG!Init
       \/ client = "floor" /\ FS!Init
       \/ client = "saved floor" /\ FD!Init
       \/ client = "floating floor" /\ FF!Init
       \/ client = "relay" /\ RL!Init
       \/ client = "relay of two" /\ RB!Init
       \/ client = "arena" /\ AE!Init
       \/ client = "live poker" /\ LQP!Init
       \/ client = "live battleship" /\ LBS!Init
       \/ client = "live stream" /\ LSP!Init

Next ==
    /\ UNCHANGED client
    /\ \/ client = "blackjack" /\ BJ!Next
       \/ client = "long blackjack" /\ BL!Next
       \/ client = "tic tac toe" /\ TT!Next
       \/ client = "poker" /\ QP!Next
       \/ client = "battleship" /\ BS!Next
       \/ client = "match" /\ PM!Next
       \/ client = "shop" /\ SH!Next
       \/ client = "stream" /\ SP!Next
       \/ client = "solo" /\ SO!Next
       \/ client = "allowance" /\ AL!Next
       \/ client = "wager" /\ WG!Next
       \/ client = "trade" /\ TR!Next
       \/ client = "batcher" /\ OB!Next
       \/ client = "live batcher" /\ LOB!Next
       \/ client = "grid floor" /\ FG!Next
       \/ client = "floor" /\ FS!Next
       \/ client = "saved floor" /\ FD!Next
       \/ client = "floating floor" /\ FF!Next
       \/ client = "relay" /\ RL!Next
       \/ client = "relay of two" /\ RB!Next
       \/ client = "arena" /\ AE!Next
       \/ client = "live poker" /\ LQP!Next
       \/ client = "live battleship" /\ LBS!Next
       \/ client = "live stream" /\ LSP!Next

-----------------------------------------------------------------------------
Away(k) ==      \* the steps of the network, the chain and the opponent for start k
    /\ UNCHANGED client
    /\ \/ client = "live poker" /\ k = 1 /\ LQP!onConfirmed(k)
       \/ client = "live battleship" /\ k = 1 /\ LBS!onConfirmed(k)
       \/ client = "match" /\ PM!onConfirmed(k)
       \/ client = "shop" /\ (SH!Allocated(k) \/ SH!Joined(k) \/ SH!wireDistributedTunnel(k)
                                \/ SH!Failed(k))
       \/ client = "solo" /\ (SO!Env(k) \/ SO!Failed(k) \/ SO!fallbackClose(k)
                                \/ SO!settleFails(k))
       \/ client = "live stream" /\ k = 1 /\ LSP!Settles("create")
       \/ client = "live batcher" /\ LOB!Progress(k)
Ready(k) ==
    /\ UNCHANGED client
    /\ \/ client = "live poker" /\ k = 1 /\ LQP!Joined(k)
       \/ client = "live battleship" /\ k = 1 /\ LBS!ready(k)
       \/ client = "match" /\ PM!ready(k)
       \/ client = "shop" /\ (SH!coSign(k) \/ SH!Paid(k) \/ SH!PayFails(k))
       \/ client = "live stream" /\ k = 1 /\ LSP!Settles("topUp")
Settling(k) ==
    /\ UNCHANGED client
    /\ \/ client = "match" /\ PM!settle(k)
       \/ client = "live stream" /\ k = 1 /\ LSP!Settles("cancel")
       \/ client = "live poker" /\ k = 1 /\ LQP!TurnTimeout
Settled(k) ==
    /\ UNCHANGED client
    /\ \/ client = "match" /\ PM!settled(k)
       \/ client = "live stream" /\ k = 1 /\ LSP!checkVestComplete
Timer ==        \* the page's own timers
    /\ UNCHANGED client
    /\ \/ client = "live poker" /\ LQP!TimerFires
       \/ client = "match" /\ PM!TimerFires
       \/ client = "live batcher" /\ LOB!flush
       \/ client = "live battleship" /\ LBS!IdleAutopilot
       \/ client = "live stream" /\ LSP!Clock
Round ==
    /\ UNCHANGED client
    /\ \/ client = "live stream" /\ LSP!Complete
       \/ client = "live poker" /\ LQP!Exit
       \/ client = "live batcher" /\ LOB!useMtpsAutoFaucet
       \/ client = "live battleship" /\ LBS!Exit
Loop == UNCHANGED client /\ client = "live stream" /\ LSP!runAutoLoop
Fairness ==
    /\ \A k \in 1..2 : WF_vars(Away(k)) /\ WF_vars(Ready(k)) /\ WF_vars(Settling(k))
                       /\ WF_vars(Settled(k))
    /\ WF_vars(Timer) /\ WF_vars(Round) /\ WF_vars(Loop)
Spec == Init /\ [][Next]_vars
LiveSpec == Spec /\ Fairness

-----------------------------------------------------------------------------
\* However many buttons, effects, timers and peer messages ask for it, the close of a
\* tunnel is submitted at most once (the settle paths of every match, shop and chat window).
CloseOnce ==
    CASE client = "blackjack" -> BJ!CloseOnce(st)
      [] client = "long blackjack" -> BL!CloseOnce(st)
      [] client = "tic tac toe" -> TT!CloseOnce(st)
      [] client = "poker" -> QP!CloseOnce(st)
      [] client = "battleship" -> BS!CloseOnce(st)
      [] client = "match" -> PM!CloseOnce(st)
      [] client = "shop" -> SH!CloseOnce(st)
      [] client = "solo" -> SO!CloseOnce(st)
      [] OTHER -> TRUE

\* A settlement combines our half only with the opponent's half for the same match and the
\* same state, and a poker commit only goes out with the secrets that will open it.
RightHalf ==
    CASE client = "blackjack" -> BJ!RightHalf(st)
      [] client = "long blackjack" -> BL!RightHalf(st)
      [] client = "tic tac toe" -> TT!RightHalf(st)
      [] client = "poker" -> QP!RightHalf(st) /\ QP!SecretsHeld(st)
      [] client = "battleship" -> BS!RightHalf(st)
      [] client = "match" -> PM!RightHalf(st)
      [] client = "shop" -> st.stale \/ SH!RightHalf(st)
      [] OTHER -> TRUE

\* What a window shows or stores is what the tunnel or the chain holds: a resume record is
\* never that of a settled tunnel, the cart is what was paid, the conversation what was
\* co-signed, the meter never ahead of the contract.
ShownTrue ==
    CASE client = "blackjack" -> BJ!RecordTrue(st)
      [] client = "long blackjack" -> BL!RecordTrue(st)
      [] client = "tic tac toe" -> TT!RecordTrue(st)
      [] client = "poker" -> QP!RecordTrue(st)
      [] client = "battleship" -> BS!RecordTrue(st)
      [] client = "match" -> PM!RecordTrue(st)
      [] client = "shop" -> SH!CartPaid(st)
      [] client = "solo" -> SO!Transcribed(st)
      [] client = "stream" -> SP!MeterTrue(st) /\ SP!ScreenTrue(st)
      [] client = "live stream" -> LSP!MeterTrue(st) /\ LSP!ScreenTrue(st)
      [] client = "trade" -> TR!Kept(st)
      [] client = "batcher" -> OB!OwnTunnel(st) /\ OB!Held(st)
      [] client = "live batcher" -> LOB!OwnTunnel(st) /\ LOB!Held(st)
      [] client = "arena" -> AE!Backed(st)
      [] client = "grid floor" -> FG!Tidy(st) /\ FG!OneStore(st)
      [] client = "floor" -> FS!Tidy(st) /\ FS!OneStore(st)
      [] client = "saved floor" -> FD!Tidy(st) /\ FD!OneStore(st)
      [] client = "floating floor" -> FF!Tidy(st) /\ FF!OneStore(st)
      [] OTHER -> TRUE

\* Money a window has put on chain stays accounted for and within its reach, apart from
\* the losses each module names; a constant-rate top-up and a claim from a current
\* snapshot are never refused.
MoneyKept ==
    CASE client = "blackjack" -> BJ!StakeKept(st)
      [] client = "long blackjack" -> BL!StakeKept(st)
      [] client = "tic tac toe" -> TT!StakeKept(st)
      [] client = "poker" -> QP!StakeKept(st)
      [] client = "battleship" -> BS!StakeKept(st)
      [] client = "match" -> PM!StakeKept(st)
      [] client = "shop" -> SH!StakeKept(st)
      [] client = "solo" -> SO!StakeKept(st)
      [] client = "stream" -> SP!TopUpAccepted(st)
      [] client = "live stream" -> LSP!TopUpAccepted(st)
      [] client = "allowance" -> AL!Escrowed(st) /\ AL!FreshClaimAccepted(st)
      [] client = "wager" -> WG!Conserved(st) /\ WG!Deserved(st)
      [] client = "trade" -> TR!Conserved(st)
      [] client = "arena" -> AE!Accounted(st)
      [] client = "batcher" -> OB!StakedOnce(st)
      [] client = "live batcher" -> LOB!StakedOnce(st)
      [] OTHER -> TRUE

\* The relay's cached routes follow a seat to its new connection, two pages that are both
\* back reach each other, and a return stops the grace timer that the drop started.
Routed ==
    CASE client = "relay" -> RL!Routed(st) /\ RL!Reachable(st) /\ RL!GraceTrue(st)
      [] client = "relay of two" -> RB!Routed(st) /\ RB!Reachable(st) /\ RB!GraceTrue(st)
      [] OTHER -> TRUE

\* What an allowance's payee has earned is never taken back by a pause, a resume, a new
\* rate or a new cap.
EarnedStays ==
    [][/\ client = "allowance" => AL!EarnedStays(st, st')
       /\ client = "trade" => TR!KeptStep(st, st')]_vars

\* Against a live opponent and a live chain no window stands still for a player who is away:
\* a match goes on to its end, a shop or a chat leaves its busy states, a stream's round ends.
Stalled ==
    CASE client = "live poker" -> LQP!InPlay(st)
      [] client = "live battleship" -> LBS!InPlay(st)
      [] client = "match" -> PM!InPlay(st)
      [] client = "shop" -> SH!busy(st)
      [] client = "solo" -> st.status \in {"funding", "opening", "settling"}
      [] client = "live stream" -> st.screen = "dashboard" /\ ~st.stale
      [] client = "live batcher" -> \E r \in 1..2 : LOB!Waiting(st, r)
      [] OTHER -> FALSE
NeverStalls == Stalled ~> ~Stalled

\* However a stake's transaction fails, its request never pays a second stake.
NoDoubleSpend == client = "live batcher" => \A r \in 1..2 : st.req[r].paid <= 1
=============================================================================
