SPECIFICATION ContainerSpec
CONSTANTS
    Callers = {q1, q2}
    Asked = {"ProvideConfigWatcher"}
    Nobody = nobody
PROPERTY WatchingStarts
CHECK_DEADLOCK FALSE
