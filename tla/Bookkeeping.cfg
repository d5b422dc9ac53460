SPECIFICATION Books
CONSTANTS
    CORES = 2
    NUMBER_OF_VALIDATORS = 4
    EPOCH_LENGTH = 4
    VALIDATOR_CORE_ROTATION = 2
    Draws <- MCDraws
    Nobody = "nobody"
    ValidatorSets <- MCValidatorSets
    Culprits <- MCCulprits
    Mix <- MCMix
    Works <- MCWorks
    MinGas <- MCMinGas
    Queues <- MCQueues
    Loads <- MCLoads
    Turnouts <- MCTurnouts
    Gaps <- MCGaps
    TOTAL_GAS_ACCUMULATION_LOGIC = 4
    AUTHPOOL_SIZE = 2
    AUTHQUEUE_MAX_SIZE = 2
    RECENT_HISTORY_LENGTH = 2
    MAXIMUM_AGE_LOOKUP_ANCHOR = 2
    WORK_TIMEOUT = 3
    Empty = Empty
    MaxBlocks = 4
    MaxReports = 2
INVARIANT HonestGuaranteeAccepted
INVARIANT BooksBalance
CHECK_DEADLOCK FALSE
