\* Every sequence of requests: no bound is needed.
CONSTANTS
    service = service
    preferred = preferred
    Output <- MCOutput
    Input <- MCInput
    Address = {"RK_BITSTREAM_DEVICE_ADDRESS", service}
    BitstreamAddress = "RK_BITSTREAM_DEVICE_ADDRESS"
    Preferred = preferred
SPECIFICATION Spec
INVARIANTS TypeOK AnswerTrue GrantedRoutable RoutedAsTold
