SPECIFICATION Spec
CONSTANTS
  me = me
  va = va
  vb = vb
  vc = vc
  payer = payer
  nobody = nobody
  NoTx = noTx
  Validators = {va, vb, vc}
  Faulty = {vc}
  Weight <- MCWeight
  Txs = {t1, t2}
  resubmitAdjustChanSize = 2
  Intervals = {500, 2000, 20000}
  Ratios = {5}
  MaxHeads = 3
  MaxCalls = 3
  MaxSyncs = 2
  MaxSets = 1
INVARIANTS
  RestartSound CliqueSound TallySound RivalsOnlyByDecision MinerControlled
PROPERTY PoolSound
CHECK_DEADLOCK FALSE
